---------------------------- MODULE CallRegistry ----------------------------
(***************************************************************************)
(* The table of calls of OutboundCallManager (app/call_control.py) while   *)
(* HTTP threads create calls and retry: the idempotency index, the store   *)
(* of prepared openings, the eviction of old calls and the thread pool     *)
(* that originates the new ones.  A request, the record it builds and the  *)
(* uuid of that record share one name.  What happens to a call once it is  *)
(* dialed is the subject of CallControl.                                   *)
(***************************************************************************)
EXTENDS Naturals, Sequences, FiniteSets

CONSTANTS
  Requests,        \* POST /calls requests
  Identities,      \* what requests identify themselves with
  Keys,            \* external call ids and task ids
  NoKey,           \* an absent external call id or task id
  NoCall,          \* no call of the table
  MaxRecentCalls,  \* outbound.max_recent_calls
  Workers,         \* threads of the pool the listener leaves to originates
  MaxClock         \* bound: milliseconds the model distinguishes

ASSUME KeysAssumption == NoKey \notin Keys
ASSUME IdentitiesAssumption ==
  Identities \subseteq [external : Keys \cup {NoKey}, task : Keys \cup {NoKey}]
ASSUME CallsAssumption == NoCall \notin Requests
ASSUME LimitsAssumption ==
  MaxRecentCalls \in Nat \ {0} /\ Workers \in Nat \ {0} /\ MaxClock \in Nat

VARIABLES
  clock,     \* _now_ms
  ident,     \* external_call_id and taskId of each request
  pc,        \* where create_call stands in each HTTP thread
  created,   \* record.created_at_ms
  answer,    \* the call whose record create_call returned
  calls,     \* _calls, in insertion order
  index,     \* _external_call_index
  openings,  \* OpeningAudioStore
  worker,    \* originate worker of each call
  dialed,    \* calls FreeSWITCH was told to originate
  failed,    \* calls whose record was set failed by the worker
  stopped    \* shutdown has run

httpVars == <<ident, created, answer>>
vars == <<clock, httpVars, pc, calls, index, openings, worker, dialed, failed,
          stopped>>

-----------------------------------------------------------------------------
InTable(c) == \E i \in DOMAIN calls : calls[i] = c

\* _idempotency_key
IdempotencyKey(id) == IF id.external # NoKey THEN id.external ELSE id.task

\* _record_for_idempotency_key_locked
Remembered(k) ==
  IF k # NoKey /\ index[k] # NoCall /\ InTable(index[k]) THEN index[k] ELSE NoCall

\* The first record of sorted(calls, key=created_at_ms): the sort is stable.
OldestIn(s) ==
  CHOOSE i \in DOMAIN s : \A j \in DOMAIN s :
    created[s[i]] < created[s[j]] \/ (created[s[i]] = created[s[j]] /\ i <= j)

RemoveAt(s, i) == SubSeq(s, 1, i - 1) \o SubSeq(s, i + 1, Len(s))

\* Variant: the key of a call without an external id stays behind.
ForgetExternalOnly(ix, c) ==
  [k \in Keys |-> IF k = ident[c].external THEN NoCall ELSE ix[k]]

\* What _trim_locked drops from the index with call c: its external id and its
\* task, whichever of them was its key and whoever the entries lead to.
ForgetKeys(ix, c) ==
  [k \in Keys |-> IF k \in {ident[c].external, ident[c].task} THEN NoCall
                                                              ELSE ix[k]]

\* The new record enters the table and the index; _trim_locked evicts the
\* oldest record, its index entries and its opening if the table overflows.
InsertAndTrim(r) ==
  LET k       == IdempotencyKey(ident[r])
      table   == Append(calls, r)
      indexed == [x \in Keys |-> IF x = k THEN r ELSE index[x]]
  IN IF Len(table) <= MaxRecentCalls
       THEN calls' = table /\ index' = indexed /\ UNCHANGED openings
       ELSE LET i == OldestIn(table)
            IN /\ calls' = RemoveAt(table, i)
               /\ index' = ForgetKeys(indexed, table[i])
               /\ openings' = openings \ {table[i]}

-----------------------------------------------------------------------------
(* create_call                                                             *)

Tick ==
  /\ clock < MaxClock
  /\ clock' = clock + 1
  /\ UNCHANGED <<httpVars, pc, calls, index, openings, worker, dialed, failed,
                 stopped>>

\* A request is parsed; a key that is remembered answers it at once.
LookUp(r) ==
  /\ pc[r] = "idle"
  /\ \E id \in Identities :
       LET known == Remembered(IdempotencyKey(id))
       IN /\ ident' = [ident EXCEPT ![r] = id]
          /\ answer' = [answer EXCEPT ![r] = known]
          /\ pc' = [pc EXCEPT ![r] = IF known = NoCall THEN "build" ELSE "done"]
  /\ UNCHANGED <<clock, created, calls, index, openings, worker, dialed, failed,
                 stopped>>

\* _build_record
BuildRecord(r) ==
  /\ pc[r] = "build"
  /\ created' = [created EXCEPT ![r] = clock]
  /\ pc' = [pc EXCEPT ![r] = "prepare"]
  /\ UNCHANGED <<clock, ident, answer, calls, index, openings, worker, dialed,
                 failed, stopped>>

\* _prepare_business_prompt and _prepare_opening: no opening is asked for, it
\* is prepared, or building or preparing fails and so does the request.
Prepare(r) ==
  /\ pc[r] = "prepare"
  /\ \/ pc' = [pc EXCEPT ![r] = "insert"] /\ UNCHANGED openings
     \/ pc' = [pc EXCEPT ![r] = "insert"] /\ openings' = openings \cup {r}
     \/ pc' = [pc EXCEPT ![r] = "done"] /\ UNCHANGED openings
  /\ UNCHANGED <<clock, httpVars, calls, index, worker, dialed, failed, stopped>>

\* Variant: the key is not looked up again.
InsertBlindly(r) ==
  /\ pc[r] = "insert"
  /\ InsertAndTrim(r)
  /\ answer' = [answer EXCEPT ![r] = r]
  /\ pc' = [pc EXCEPT ![r] = "accept"]
  /\ UNCHANGED <<clock, ident, created, worker, dialed, failed, stopped>>

\* The second locked block: the key is looked up again.  The loser of a race
\* returns the winner's record and leaves its own opening in the store.
Insert(r) ==
  /\ pc[r] = "insert"
  /\ LET known == Remembered(IdempotencyKey(ident[r]))
     IN IF known # NoCall
          THEN /\ answer' = [answer EXCEPT ![r] = known]
               /\ pc' = [pc EXCEPT ![r] = "done"]
               /\ UNCHANGED <<calls, index, openings>>
          ELSE /\ InsertAndTrim(r)
               /\ answer' = [answer EXCEPT ![r] = r]
               /\ pc' = [pc EXCEPT ![r] = "accept"]
  /\ UNCHANGED <<clock, ident, created, worker, dialed, failed, stopped>>

\* ACCEPTED is published and the worker submitted; a pool that was shut down
\* refuses it, and the request fails although the call was accepted.
Accept(r) ==
  /\ pc[r] = "accept"
  /\ pc' = [pc EXCEPT ![r] = "done"]
  /\ IF stopped THEN UNCHANGED worker
                ELSE worker' = [worker EXCEPT ![r] = "queued"]
  /\ UNCHANGED <<clock, httpVars, calls, index, openings, dialed, failed, stopped>>

-----------------------------------------------------------------------------
(* Originate workers, the media session and the end of a call              *)

Busy(c) == worker[c] \in {"started", "dialing"}

\* The worker of an evicted call meets a KeyError and _mark_failed finds no
\* record either: it ends in silence.
StartOriginate(c) ==
  /\ worker[c] = "queued"
  /\ Cardinality({d \in Requests : Busy(d)}) < Workers
  /\ worker' = [worker EXCEPT ![c] = IF InTable(c) THEN "started" ELSE "lost"]
  /\ UNCHANGED <<clock, httpVars, pc, calls, index, openings, dialed, failed,
                 stopped>>

\* Variant: a call that was never dialed keeps its opening.
FailKeepingOpening(c) ==
  /\ worker' = [worker EXCEPT ![c] = "done"]
  /\ failed' = failed \cup {c}
  /\ UNCHANGED openings

\* record.status = "failed", and the opening is not needed any more
Fail(c) ==
  /\ worker' = [worker EXCEPT ![c] = "done"]
  /\ failed' = failed \cup {c}
  /\ openings' = openings \ {c}

\* Variant: an error ends the worker and leaves the record as it is.
ResolveEndpointSilently(c) ==
  /\ worker[c] = "started"
  /\ IF ~InTable(c)
       THEN worker' = [worker EXCEPT ![c] = "lost"] /\ UNCHANGED dialed
       ELSE \/ /\ worker' = [worker EXCEPT ![c] = "dialing"]
               /\ dialed' = dialed \cup {c}
            \/ worker' = [worker EXCEPT ![c] = "done"] /\ UNCHANGED dialed
  /\ UNCHANGED <<clock, httpVars, pc, calls, index, openings, failed, stopped>>

\* The endpoint is resolved and the call dialed, or an error of the resolver
\* or of the worker sets the record failed.
ResolveEndpoint(c) ==
  /\ worker[c] = "started"
  /\ IF ~InTable(c)
       THEN worker' = [worker EXCEPT ![c] = "lost"]
            /\ UNCHANGED <<openings, dialed, failed>>
       ELSE \/ /\ worker' = [worker EXCEPT ![c] = "dialing"]
               /\ dialed' = dialed \cup {c}
               /\ UNCHANGED <<openings, failed>>
            \/ Fail(c) /\ UNCHANGED dialed
  /\ UNCHANGED <<clock, httpVars, pc, calls, index, stopped>>

OriginateReturns(c) ==
  /\ worker[c] = "dialing"
  /\ IF ~InTable(c)
       THEN worker' = [worker EXCEPT ![c] = "lost"] /\ UNCHANGED <<openings, failed>>
       ELSE \/ worker' = [worker EXCEPT ![c] = "done"]
               /\ UNCHANGED <<openings, failed>>
            \/ Fail(c)
  /\ UNCHANGED <<clock, httpVars, pc, calls, index, dialed, stopped>>

\* The media session of an answered call takes the opening, or the call ends
\* and the listener discards it.
TakeOpening(c) ==
  /\ c \in dialed \cap openings
  /\ openings' = openings \ {c}
  /\ UNCHANGED <<clock, httpVars, pc, calls, index, worker, dialed, failed,
                 stopped>>

\* shutdown: the pool takes no more work and cancels what is queued
Shutdown ==
  /\ ~stopped
  /\ stopped' = TRUE
  /\ worker' = [c \in Requests |-> IF worker[c] = "queued" THEN "canceled"
                                                           ELSE worker[c]]
  /\ UNCHANGED <<clock, httpVars, pc, calls, index, openings, dialed, failed>>

-----------------------------------------------------------------------------
NoIdentity == [external |-> NoKey, task |-> NoKey]

Init ==
  /\ clock = 0 /\ stopped = FALSE
  /\ ident = [r \in Requests |-> NoIdentity]
  /\ pc = [r \in Requests |-> "idle"]
  /\ created = [r \in Requests |-> 0]
  /\ answer = [r \in Requests |-> NoCall]
  /\ calls = <<>>
  /\ index = [k \in Keys |-> NoCall]
  /\ openings = {} /\ dialed = {} /\ failed = {}
  /\ worker = [r \in Requests |-> "none"]

Creating(r) ==
  LookUp(r) \/ BuildRecord(r) \/ Prepare(r) \/ Insert(r) \/ Accept(r)

Originating(c) == StartOriginate(c) \/ ResolveEndpoint(c) \/ OriginateReturns(c)

Next ==
  \/ Tick \/ Shutdown
  \/ \E r \in Requests : Creating(r) \/ Originating(r) \/ TakeOpening(r)

Spec == Init /\ [][Next]_vars

\* HTTP threads that have begun and the threads of the pool run on, and
\* FreeSWITCH ends every originate.  Every worker gets its turn: requests are
\* finitely many, so those before it in the pool's queue come to an end.
FairSpec ==
  /\ Spec
  /\ \A r \in Requests : WF_vars(pc[r] # "idle" /\ Creating(r))
  /\ \A c \in Requests : WF_vars(Originating(c))

-----------------------------------------------------------------------------
\* Key k is carried as the task of a request with another key: external ids and
\* tasks share the index, and _trim_locked drops both of an evicted call.
Shadowed(k) ==
  \E r \in Requests : ident[r].task = k /\ IdempotencyKey(ident[r]) # k

\* Concurrent creations and evictions leave no dangling entry: the index leads
\* to a record of the table that has the key, and every record is found by its
\* key, unless the eviction of a call with another key may have dropped it.
IndexExact ==
  /\ \A k \in Keys : index[k] # NoCall =>
       InTable(index[k]) /\ IdempotencyKey(ident[index[k]]) = k
  /\ \A i \in DOMAIN calls :
       LET k == IdempotencyKey(ident[calls[i]])
       IN k # NoKey /\ ~Shadowed(k) => index[k] = calls[i]

\* A prepared opening is dropped with its call, when the call is evicted and
\* when it is never dialed.  Only the loser of a creation race leaves one over.
OpeningsOwned ==
  \A c \in openings : /\ c \notin failed
                      /\ \/ InTable(c) \/ pc[c] = "insert"
                         \/ answer[c] \notin {c, NoCall}

\* create_call is idempotent: between two evictions of a key all requests that
\* carry it are answered with one call.
Creation == INSTANCE IdempotentCreation WITH
  known <- [k \in Keys |-> Remembered(k)],
  key   <- [r \in Requests |-> IF answer[r] = NoCall THEN NoKey
                               ELSE IdempotencyKey(ident[r])]
Idempotent == Creation!Spec

\* A call whose request was accepted is dialed or set failed, however few
\* threads the pool has, unless it was evicted or the program shut down.
AcceptedIsDialed ==
  \A c \in Requests : (pc[c] = "accept") ~>
    (c \in dialed \cup failed \/ ~InTable(c) \/ stopped)
=============================================================================
