--------------------------- MODULE MCCallControl ---------------------------
(* CallControl with the agents taken as interchangeable. *)
EXTENDS CallControl, TLC

Symmetry == Permutations(Agents)
=============================================================================
