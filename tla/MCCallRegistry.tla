--------------------------- MODULE MCCallRegistry ---------------------------
(***************************************************************************)
(* Identities for TLC: a call id with its task, and the task alone.        *)
(***************************************************************************)
EXTENDS CallRegistry

CONSTANTS call1, task1

MCKeys == {call1, task1}

Id(external, task) == [external |-> external, task |-> task]

MCIdentities == {Id(call1, task1), Id(NoKey, task1)}
=============================================================================
