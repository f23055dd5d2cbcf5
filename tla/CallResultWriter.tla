-------------------------- MODULE CallResultWriter --------------------------
(***************************************************************************)
(* PostgresCallResultWriter and ThreadsafeCallRecordUpdater                *)
(* (app/postgres.py) on the one event loop they share: results come from   *)
(* other threads and from the loop itself, a single task writes them to    *)
(* the row, uploads the recording (app/recording_upload.py) and publishes  *)
(* the callback (app/flow_callback.py).  Publishing is a blocking HTTP     *)
(* request made on the loop: meanwhile nothing else on it runs, and the    *)
(* threads that wait for it time out.  Payloads carry the context of a     *)
(* flow task, and a writer of callbacks is configured.                     *)
(***************************************************************************)
EXTENDS Naturals, Sequences, FiniteSets

CONSTANTS
  Calls,        \* call_record rows
  Payloads,     \* results handed to enqueue_nowait
  CallOf,       \* the call of each payload
  KindOf,       \* "completed" with a transcript, or "failed"
  LocalCalls,   \* calls of the local test scene, which have no row to write
  Nothing,      \* no payload
  Capacity,     \* max_queue_size
  MaxAttempts   \* flow_callback.http.max_attempts

Kinds == {"completed", "failed"}

ASSUME CallOfAssumption == CallOf \in [Payloads -> Calls]
ASSUME KindOfAssumption == KindOf \in [Payloads -> Kinds]
ASSUME LocalAssumption == LocalCalls \subseteq Calls
ASSUME NothingAssumption == Nothing \notin Payloads
ASSUME SizesAssumption == Capacity \in Nat \ {0} /\ MaxAttempts \in Nat \ {0}

VARIABLES
  row,       \* call_record.status of each call; "1" unless mark_started failed
  mark,      \* call_record.recording_oss_id: the payload that set it
  objects,   \* calls whose recording is in the object store
  ossRows,   \* payloads that have a sys_oss row
  producer,  \* what enqueue_nowait has told the caller of each payload
  ready,     \* put_on_loop callbacks waiting for the loop
  queue,     \* self.queue
  running,   \* self._loop is set: the writer has been started and not stopped
  task,      \* where _run stands
  current,   \* the payload it works on
  attempt,   \* attempts made to publish its callback
  outcome,   \* the callback chosen for each payload
  received,  \* callbacks the flow engine has received, by payload
  update,    \* the mark_failed or mark_no_answer a thread waits for, by call
  changed    \* who changed each row: payloads, or the call's own updater

rowVars    == <<row, changed>>
uploadVars == <<mark, objects, ossRows>>
queueVars  == <<producer, ready, queue>>
taskVars   == <<task, current, attempt, outcome, received>>
vars == <<rowVars, uploadVars, queueVars, running, taskVars, update>>

-----------------------------------------------------------------------------
\* The loop makes an HTTP request and runs nothing else.
Blocked == task = "publishing"

\* Variant: the update has no condition on the status.
ExecuteAnyway(c, who, to, from) ==
  /\ row' = [row EXCEPT ![c] = to]
  /\ changed' = [changed EXCEPT ![c] = @ \cup {who}]

\* update call_record set status = to where status in from; the status is
\* tested again, whatever the select before it has seen.
Execute(c, who, to, from) ==
  IF row[c] \in from
    THEN /\ row' = [row EXCEPT ![c] = to]
         /\ changed' = [changed EXCEPT ![c] = @ \cup {who}]
    ELSE UNCHANGED rowVars

-----------------------------------------------------------------------------
(* enqueue_nowait                                                          *)

\* _put_nowait, and what the waiting caller is told
PutNowait(p) ==
  IF Len(queue) < Capacity
    THEN /\ queue' = Append(queue, p)
         /\ producer' = IF producer[p] = "timed_out" THEN producer
                        ELSE [producer EXCEPT ![p] = "accepted"]
    ELSE /\ producer' = IF producer[p] = "timed_out" THEN producer
                        ELSE [producer EXCEPT ![p] = "refused"]
         /\ UNCHANGED queue

\* Another thread: call_soon_threadsafe
EnqueueFromThread(p) ==
  /\ producer[p] = "none" /\ running
  /\ producer' = [producer EXCEPT ![p] = "waiting"]
  /\ ready' = Append(ready, p)
  /\ UNCHANGED <<rowVars, uploadVars, queue, running, taskVars, update>>

\* The loop's own callers, and every caller once the writer is stopped
EnqueueDirectly(p) ==
  /\ producer[p] = "none" /\ ~Blocked
  /\ PutNowait(p)
  /\ UNCHANGED <<rowVars, uploadVars, ready, running, taskVars, update>>

\* put_on_loop.  Nothing sets "result" when the caller gives up, so the
\* payload is queued although the caller was told it was not.
PutOnLoop ==
  /\ ready # <<>> /\ ~Blocked
  /\ ready' = Tail(ready)
  /\ PutNowait(Head(ready))
  /\ UNCHANGED <<rowVars, uploadVars, running, taskVars, update>>

\* Variant: a caller that gives up puts the payload on the queue itself.
EnqueueTimesOutAndPuts(p) ==
  /\ producer[p] = "waiting"
  /\ producer' = [producer EXCEPT ![p] = "timed_out"]
  /\ queue' = IF Len(queue) < Capacity THEN Append(queue, p) ELSE queue
  /\ UNCHANGED <<rowVars, uploadVars, ready, running, taskVars, update>>

\* result(timeout=1.0): the loop is busy, an HTTP request takes longer
EnqueueTimesOut(p) ==
  /\ producer[p] = "waiting"
  /\ producer' = [producer EXCEPT ![p] = "timed_out"]
  /\ UNCHANGED <<rowVars, uploadVars, ready, queue, running, taskVars, update>>

-----------------------------------------------------------------------------
(* ThreadsafeCallRecordUpdater: mark_failed and mark_no_answer of a        *)
(* call-control thread, which waits for the loop                           *)

SetUpdate(c, state) == update' = [update EXCEPT ![c] = state]

\* A call of the local test scene has no row that it could change.
UpdateScheduled(c) ==
  /\ update[c] = "none" /\ c \notin LocalCalls
  /\ SetUpdate(c, "scheduled")
  /\ UNCHANGED <<rowVars, uploadVars, queueVars, running, taskVars>>

\* The select of _update_status and its precheck, then the update and COMMIT
\* are on their way to the database.
UpdateSelects(c) ==
  /\ update[c] = "scheduled" /\ ~Blocked
  /\ SetUpdate(c, IF row[c] \in {"0", "1"} THEN "committing" ELSE "noop")
  /\ UNCHANGED <<rowVars, uploadVars, queueVars, running, taskVars>>

\* The database commits, whether or not the thread still waits for it and
\* also while the loop is blocked.
UpdateCommits(c) ==
  /\ update[c] \in {"committing", "orphaned"}
  /\ \E to \in {"2", "3"} : Execute(c, c, to, {"0", "1"})
  /\ SetUpdate(c, IF update[c] = "orphaned" THEN "false"
                  ELSE IF row[c] \in {"0", "1"} THEN "committed" ELSE "noop")
  /\ UNCHANGED <<uploadVars, queueVars, running, taskVars>>

\* Variant: the result of the update is not looked at.
UpdateReturnsTrue(c) ==
  /\ update[c] \in {"committed", "noop"} /\ ~Blocked
  /\ SetUpdate(c, "true")
  /\ UNCHANGED <<rowVars, uploadVars, queueVars, running, taskVars>>

\* The loop hands the result of the coroutine to the thread.
UpdateReturns(c) ==
  /\ update[c] \in {"committed", "noop"} /\ ~Blocked
  /\ SetUpdate(c, IF update[c] = "committed" THEN "true" ELSE "false")
  /\ UNCHANGED <<rowVars, uploadVars, queueVars, running, taskVars>>

\* The thread times out or the statement raises: mark_failed returns False.
\* What has not started is cancelled; a COMMIT on its way may still succeed.
UpdateTimesOut(c) ==
  /\ update[c] \in {"scheduled", "committing", "committed", "noop"}
  /\ \E state \in {"false", "orphaned"} :
       /\ state = "orphaned" => update[c] = "committing"
       /\ SetUpdate(c, state)
  /\ UNCHANGED <<rowVars, uploadVars, queueVars, running, taskVars>>

-----------------------------------------------------------------------------
(* The task: _run, _upload_recording and the two publishers                *)

Call == CallOf[current]

\* The statuses the update of a payload may start from, and the one it sets
From(p) == IF KindOf[p] = "failed" THEN {"0", "1"} ELSE {"1"}
To(p)   == IF KindOf[p] = "failed" THEN "2" ELSE "4"

\* The callback of a payload that changed no row
NoopOutcome(p) ==
  IF KindOf[p] = "completed" /\ CallOf[p] \in LocalCalls THEN "SUCCESS" ELSE "FAILED"

GoTo(place) == task' = place /\ UNCHANGED <<current, attempt, outcome, received>>

\* _publish_success_callback or _publish_failure_callback is called.
PublishNext(kind) ==
  /\ task' = "publishing"
  /\ outcome' = [outcome EXCEPT ![current] = kind]
  /\ UNCHANGED <<current, attempt, received>>

TakePayload ==
  /\ task = "idle" /\ queue # <<>>
  /\ current' = Head(queue)
  /\ queue' = Tail(queue)
  /\ task' = "selecting"
  /\ UNCHANGED <<rowVars, uploadVars, producer, ready, running, attempt, outcome,
                 received, update>>

\* mark_failed or mark_transcript_completed: the select and its precheck
SelectRow ==
  /\ task = "selecting"
  /\ IF row[Call] \in From(current) THEN GoTo("executing")
                                    ELSE PublishNext(NoopOutcome(current))
  /\ UNCHANGED <<rowVars, uploadVars, queueVars, running, update>>

\* The update commits: a transcript that was written is followed by the upload.
WriteRow ==
  /\ task = "executing"
  /\ Execute(Call, current, To(current), From(current))
  /\ IF row[Call] \in From(current) /\ KindOf[current] = "completed"
       THEN GoTo("lookup")
       ELSE PublishNext(NoopOutcome(current))
  /\ UNCHANGED <<uploadVars, queueVars, running, update>>

\* Variant: the error is logged and nothing else.
WriteRaisesSilently ==
  /\ task \in {"selecting", "executing"}
  /\ task' = "idle" /\ current' = Nothing
  /\ UNCHANGED <<rowVars, uploadVars, queueVars, running, attempt, outcome,
                 received, update>>

\* The database or the transcript raises, before the update commits or, with
\* the connection lost, after that.
WriteRaises ==
  /\ task \in {"selecting", "executing"}
  /\ \/ UNCHANGED rowVars
     \/ /\ task = "executing"
        /\ Execute(Call, current, To(current), From(current))
  /\ PublishNext("FAILED")
  /\ UNCHANGED <<uploadVars, queueVars, running, update>>

\* get_existing_recording_oss_id
LookUpMark ==
  /\ task = "lookup"
  /\ IF mark[Call] = Nothing THEN GoTo("storing") ELSE PublishNext("SUCCESS")
  /\ UNCHANGED <<rowVars, uploadVars, queueVars, running, update>>

\* The file is read, the configuration selected and the object uploaded.
StoreObject ==
  /\ task = "storing"
  /\ objects' = objects \cup {Call}
  /\ GoTo("inserting")
  /\ UNCHANGED <<rowVars, mark, ossRows, queueVars, running, update>>

\* Variant: whether create_sys_oss_record created the row is not looked at.
InsertUnchecked ==
  /\ task = "inserting"
  /\ ossRows' \in {ossRows, ossRows \cup {current}}
  /\ GoTo("marking")
  /\ UNCHANGED <<rowVars, mark, objects, queueVars, running, update>>

\* create_sys_oss_record
InsertOssRow ==
  /\ task = "inserting"
  /\ ossRows' = ossRows \cup {current}
  /\ GoTo("marking")
  /\ UNCHANGED <<rowVars, mark, objects, queueVars, running, update>>

\* mark_recording_uploaded keeps a mark that is there.
MarkRecording ==
  /\ task = "marking"
  /\ mark' = IF mark[Call] = Nothing THEN [mark EXCEPT ![Call] = current] ELSE mark
  /\ PublishNext("SUCCESS")
  /\ UNCHANGED <<rowVars, objects, ossRows, queueVars, running, update>>

\* Uploading is disabled, there is no file, or a step raises: the recording is
\* given up and the call is a success all the same.
UploadRaises ==
  /\ task \in {"lookup", "storing", "inserting", "marking"}
  /\ PublishNext("SUCCESS")
  /\ UNCHANGED <<rowVars, uploadVars, queueVars, running, update>>

\* Variant: an error of publish reaches the handler of _run, which publishes
\* the failure.
PublishRaises ==
  /\ task = "publishing"
  /\ \/ task' = "idle" /\ current' = Nothing /\ UNCHANGED outcome
     \/ outcome' = [outcome EXCEPT ![current] = "FAILED"] /\ UNCHANGED <<task, current>>
  /\ UNCHANGED <<rowVars, uploadVars, queueVars, running, attempt, received, update>>

\* One attempt of publish: the engine receives the callback and its reply
\* comes back or is lost (a timeout, a 5xx, an error of the network); it
\* refuses it (a 4xx, a business error); or the request is lost.
PublishAttempt ==
  /\ task = "publishing"
  /\ \E reply \in {"received", "unheard", "refused", "lost"} :
       /\ received' = IF reply \in {"received", "unheard"}
                        THEN [received EXCEPT ![current] = @ + 1] ELSE received
       /\ IF reply \in {"unheard", "lost"} /\ attempt + 1 < MaxAttempts
            THEN attempt' = attempt + 1 /\ UNCHANGED <<task, current>>
            ELSE task' = "idle" /\ current' = Nothing /\ attempt' = 0
  /\ UNCHANGED <<rowVars, uploadVars, queueVars, running, outcome, update>>

\* stop: the task is cancelled wherever it awaits; what it works on and what
\* is queued gets no callback.
Stop ==
  /\ running /\ ~Blocked
  /\ running' = FALSE
  /\ task' = "stopped" /\ current' = Nothing
  /\ UNCHANGED <<rowVars, uploadVars, queueVars, attempt, outcome, received, update>>

-----------------------------------------------------------------------------
Init ==
  /\ row \in {r \in [Calls -> {"0", "1", "none"}] :
               \A c \in Calls : r[c] = "none" <=> c \in LocalCalls}
  /\ mark = [c \in Calls |-> Nothing]
  /\ objects = {} /\ ossRows = {}
  /\ producer = [p \in Payloads |-> "none"]
  /\ ready = <<>> /\ queue = <<>>
  /\ running = TRUE /\ task = "idle" /\ current = Nothing /\ attempt = 0
  /\ outcome = [p \in Payloads |-> "none"]
  /\ received = [p \in Payloads |-> 0]
  /\ update = [c \in Calls |-> "none"]
  /\ changed = [c \in Calls |-> {}]

TaskStep ==
  \/ TakePayload \/ SelectRow \/ WriteRow \/ WriteRaises
  \/ LookUpMark \/ StoreObject \/ InsertOssRow \/ MarkRecording \/ UploadRaises
  \/ PublishAttempt

Enqueue(p) == EnqueueFromThread(p) \/ EnqueueDirectly(p) \/ EnqueueTimesOut(p)

Update(c) ==
  \/ UpdateScheduled(c) \/ UpdateSelects(c) \/ UpdateCommits(c)
  \/ UpdateReturns(c) \/ UpdateTimesOut(c)

Next ==
  \/ TaskStep \/ PutOnLoop \/ Stop
  \/ \E p \in Payloads : Enqueue(p)
  \/ \E c \in Calls : Update(c)

Spec == Init /\ [][Next]_vars

\* The loop runs its task on: every await ends, if only by a timeout.
FairSpec == Spec /\ WF_vars(TaskStep)

-----------------------------------------------------------------------------
\* A result is reported by one pass of the task, whatever its caller was told:
\* the flow engine receives its callback at most max_attempts times, also when
\* the caller gave up and put_on_loop queued it afterwards, and not at all when
\* the queue refused it.
ReportedOnce ==
  \A p \in Payloads :
    /\ received[p] <= MaxAttempts
    /\ producer[p] = "refused" => received[p] = 0

\* The flow engine is told SUCCESS only of a call whose row this very result
\* has completed, and which nobody changes any more, whatever updates race it.
SuccessIsWritten ==
  \A p \in Payloads : outcome[p] = "SUCCESS" /\ CallOf[p] \notin LocalCalls =>
    row[CallOf[p]] = "4" /\ changed[CallOf[p]] = {p}

\* A call-control thread is told True only if its own statement ended the row,
\* so that no other writer of the row reports the call as well.
TrueMeansWritten ==
  \A c \in Calls : update[c] = "true" =>
    row[c] \in {"2", "3"} /\ changed[c] = {c}

\* A row never refers to a recording that is missing, in sys_oss or in the
\* object store, whichever step of the upload failed.
MarkHasRecording ==
  \A c \in Calls : mark[c] # Nothing =>
    mark[c] \in ossRows /\ c \in objects /\ CallOf[mark[c]] = c

\* The callback of a result is chosen once: no error after it, and no attempt
\* to publish it, turns a reported success into a failure.
OutcomeStable ==
  [][\A p \in Payloads : outcome[p] # "none" => outcome'[p] = outcome[p]]_vars

\* An accepted result is reported or its attempts are used up, unless the
\* writer is stopped.
AcceptedIsReported ==
  \A p \in Payloads : (producer[p] = "accepted") ~>
    (~running \/ (outcome[p] # "none" /\ current # p))
=============================================================================
