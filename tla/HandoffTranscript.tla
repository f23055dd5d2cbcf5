-------------------------- MODULE HandoffTranscript --------------------------
(***************************************************************************)
(* The transcript of a human conversation: the call manager's worker asks  *)
(* the ASR adapter over HTTP (app/handoff_transcript.py), whose thread for *)
(* the request submits the agent's and then the customer's recording to    *)
(* the file ASR service and polls for each (app/handoff_asr_adapter.py).   *)
(* The worker gives up at its own timeout and the adapter does not hear of *)
(* it.                                                                     *)
(***************************************************************************)
EXTENDS Naturals

CONSTANTS
  Jobs,       \* the conversations
  MaxQueries  \* max_poll_attempts

VARIABLES
  worker,  \* where HttpHumanHandoffTranscriptProcessor.process stands
  thread,  \* where the adapter's thread stands
  queries, \* queries it has made for the recording it is at
  tasks,   \* what the service has of each recording (external)
  texts    \* the recordings that turns have been made of

vars == <<worker, thread, queries, tasks, texts>>

Sides == {"agent", "customer"}
At(side) == [submit |-> <<"submit", side>>, query |-> <<"query", side>>]
Turns == <<"turns", "both">>
Error == <<"error", "both">>
Gone == <<"gone", "both">>
Idle == <<"idle", "both">>

Init ==
  /\ worker = [j \in Jobs |-> "idle"]
  /\ thread = [j \in Jobs |-> Idle]
  /\ queries = [j \in Jobs |-> 0]
  /\ tasks = [j \in Jobs |-> [side \in Sides |-> "none"]]
  /\ texts = [j \in Jobs |-> {}]

Moves(j, where) == thread' = [thread EXCEPT ![j] = where]

\* The request arrives, and both recordings are there or one is not.
Request(j) ==
  /\ worker[j] = "idle"
  /\ worker' = [worker EXCEPT ![j] = "waiting"]
  /\ \E where \in {At("agent").submit, Error} : Moves(j, where)
  /\ UNCHANGED <<queries, tasks, texts>>

\* The request is not even received.
Unreachable(j) ==
  /\ worker[j] = "idle"
  /\ worker' = [worker EXCEPT ![j] = "failed"]
  /\ UNCHANGED <<thread, queries, tasks, texts>>

Submit(j, side) ==
  /\ thread[j] = At(side).submit
  /\ Moves(j, At(side).query)
  /\ tasks' = [tasks EXCEPT ![j][side] = "processing"]
  /\ queries' = [queries EXCEPT ![j] = 0]
  /\ UNCHANGED <<worker, texts>>

\* It is refused, or the reply is lost and the service has the task.
SubmitFails(j, side) ==
  /\ thread[j] = At(side).submit
  /\ \E status \in {"none", "processing"} : tasks' = [tasks EXCEPT ![j][side] = status]
  /\ Moves(j, Error)
  /\ UNCHANGED <<worker, queries, texts>>

\* Variant: an answer without text is an answer.
AnyAnswer(status) == status \in {"text", "silent"}

\* Status 20000000 and a text or utterances: _parse_file_asr_payload raises
\* when there is neither.
Parsed(status) == status = "text"

After(side) == IF side = "agent" THEN At("customer").submit ELSE Turns

QueryAnswered(j, side) ==
  /\ thread[j] = At(side).query /\ queries[j] < MaxQueries
  /\ Parsed(tasks[j][side])
  /\ texts' = [texts EXCEPT ![j] = @ \cup {side}]
  /\ Moves(j, After(side))
  /\ UNCHANGED <<worker, queries, tasks>>

QueryPending(j, side) ==
  /\ thread[j] = At(side).query /\ queries[j] < MaxQueries
  /\ tasks[j][side] = "processing"
  /\ queries' = [queries EXCEPT ![j] = @ + 1]
  /\ UNCHANGED <<worker, thread, tasks, texts>>

\* The task is broken, nobody spoke, the query is lost, or there have been too
\* many: the transcript fails, whatever the other recording says.
QueryFails(j, side) ==
  /\ thread[j] = At(side).query
  /\ Moves(j, Error)
  /\ UNCHANGED <<worker, queries, tasks, texts>>

\* The thread answers, whether or not anybody still listens.
Answer(j) ==
  /\ thread[j] \in {Turns, Error}
  /\ Moves(j, Gone)
  /\ worker' = [worker EXCEPT ![j] =
                  IF @ # "waiting" THEN @ ELSE IF thread[j] = Turns THEN "turns" ELSE "failed"]
  /\ UNCHANGED <<queries, tasks, texts>>

\* The worker's timeout, or a connection that breaks.
GivesUp(j) ==
  /\ worker[j] = "waiting"
  /\ worker' = [worker EXCEPT ![j] = "failed"]
  /\ UNCHANGED <<thread, queries, tasks, texts>>

Transcribes(j, side) ==
  /\ tasks[j][side] = "processing"
  /\ \E status \in {"text", "silent", "broken"} : tasks' = [tasks EXCEPT ![j][side] = status]
  /\ UNCHANGED <<worker, thread, queries, texts>>

Process(j) == Request(j) \/ Unreachable(j) \/ Answer(j) \/ GivesUp(j)

Transcribe(j, side) ==
  \/ Submit(j, side) \/ SubmitFails(j, side) \/ QueryAnswered(j, side)
  \/ QueryPending(j, side) \/ QueryFails(j, side) \/ Transcribes(j, side)

Next == \E j \in Jobs : Process(j) \/ \E side \in Sides : Transcribe(j, side)

Spec == Init /\ [][Next]_vars

\* A worker is given turns only when both recordings of its conversation have
\* been transcribed and something was said in each; what was said on one side
\* is never taken for the whole.
TranscriptIsWhole ==
  \A j \in Jobs : worker[j] = "turns" =>
    texts[j] = Sides /\ \A side \in Sides : tasks[j][side] = "text"
=============================================================================
