------------------------- MODULE MCCallResultWriter -------------------------
(***************************************************************************)
(* Payloads for TLC: a transcript and a failure of one call, and the       *)
(* transcript of another call, one of the local test scene.                *)
(***************************************************************************)
EXTENDS CallResultWriter, TLC

CONSTANTS call1, call2, p1, p2, p3

MCCallOf == p1 :> call1 @@ p2 :> call1 @@ p3 :> call2
MCKindOf == p1 :> "completed" @@ p2 :> "failed" @@ p3 :> "completed"
=============================================================================
