------------------------- MODULE IdempotentCreation -------------------------
(***************************************************************************)
(* What POST /calls promises the flow engine: as long as a key is not      *)
(* forgotten, every request that carries it is answered with the one call  *)
(* that the first of them created.                                         *)
(***************************************************************************)
CONSTANTS Requests,  \* create requests; each could become a call
          Keys,      \* idempotency keys
          NoKey,     \* a request without a key
          NoCall     \* none of the requests

VARIABLES known,     \* the call remembered under each key
          key,       \* the key of each request that has been answered
          answer     \* the call it was answered with

Init ==
  /\ known = [k \in Keys |-> NoCall]
  /\ key = [r \in Requests |-> NoKey]
  /\ answer = [r \in Requests |-> NoCall]

Answer(r, k, call) ==
  /\ answer[r] = NoCall
  /\ answer' = [answer EXCEPT ![r] = call]
  /\ key' = [key EXCEPT ![r] = k]

\* A request whose key is not known creates a call.  To make room some calls
\* are forgotten, the new one perhaps.
Create(r) ==
  \E k \in Keys \cup {NoKey}, forgotten \in SUBSET Keys :
    /\ k \in Keys => known[k] = NoCall
    /\ Answer(r, k, r)
    /\ known' = [x \in Keys |-> IF x \in forgotten THEN NoCall
                                ELSE IF x = k THEN r ELSE known[x]]

\* A request repeats a key and is answered with its call.
Repeat(r) ==
  /\ \E k \in Keys : known[k] # NoCall /\ Answer(r, k, known[k])
  /\ UNCHANGED known

Next == \E r \in Requests : Create(r) \/ Repeat(r)

vars == <<known, key, answer>>

Spec == Init /\ [][Next]_vars
=============================================================================
