# The outbound calling gateway in TLA+

The program places outbound phone calls through FreeSWITCH, lets a realtime
speech model (Doubao S2S) talk to the customer, hands the customer to a human
agent when asked to, and reports each call to a business flow engine through a
`call_record` row in PostgreSQL and a terminal HTTP callback.  This project
models the part of it where threads, sockets, timers and callbacks meet, checks
it with TLC on small instances and proves its main invariants with TLAPS.

Paths below are relative to `src/`.

## 1. Inventory

| Component (source) | State | Operations | Hard behaviour | What makes it correct |
|---|---|---|---|---|
| **Outbound call control** (`app/call_control.py`) | the call table, the idempotency index, one record per call (status, handoff, recording, transcript), handoff timers, a pool of four threads | `create_call`, originate worker, `handle_channel_event`, media marks, `request_hangup`, handoff request / claim / expiry / release, recording stop, transcript processor, `complete_handoff_transcript` | one lock, released before every external call; every thread writes `record.status`; timers race claims and releases | one gated callback per row change, one per handoff; no agent leg, handoff or recording left without an owner; every failed handoff hangs up |
| **Record store and result writer** (`app/postgres.py`) | the `call_record` row, a bounded queue, the writer task | guarded `UPDATE`s, `enqueue_nowait`, one round of `_run`, `stop` | updates that time out after committing, an enqueue that times out and is queued all the same, cancellation | a final row stays final; an accepted result is written or reported, and by one pass |
| **Phone gateway session** (`app/realtime_phone_gateway.py`) | media websocket, turns, playback queue, deferred result | connect, user/AI turns, interruption, handoff request, result | late audio of an interrupted turn, clearing a queue being played, handoff requested while the socket closes | nothing of an old turn is played; the result is handed on, unless closing the speech session fails |
| **Doubao session** (`app/doubao_s2s_realtime.py`, `_client.py`) | turn and TTS handshake events, reader task | `send_tts_text`, event dispatch, close | a callback run by the reader waits for what only the reader delivers | a wait ends; a TTS is never sent into an AI turn |
| **Playout** (`app/playout_engine.py`, `app/playout_controller.py`) | frame queue, current utterance | enqueue, next frame, interrupt | interruption between two frames, chunks resampled one by one (only tests use the engine: the running gateway queues frames itself) | frames stay in order, none after an interrupt |
| **Voice activity** (`app/voice_activity.py`) | energy detector counters | one frame | thresholds and hangover at boundaries | speech start/end alternate |
| **Event Socket** (`app/freeswitch_event_socket.py`) | command and event connections | command, read event, reconnect | a reply lost with its connection | a command's reply is its own |
| **Openings** (`app/opening.py`) | prepared audio by call | put, pop, discard | the loser of a creation race has prepared audio too | used once, dropped with its call |
| **Recording upload** (`app/recording_upload.py`) | object store, `sys_oss` row, snowflake counter | check, upload, insert, mark; `generate_snowflake_id` | failure between two steps, clock stepping back | no mark without an object; unique ids |
| **Flow callbacks** (`app/flow_callback.py`) | HTTP retries | `publish` | retry after an answer that got lost | at least once, bounded retries |
| **Human transcripts** (`app/handoff_transcript.py`, `app/handoff_asr_adapter.py`) | ASR tasks | process two recordings | polling timeouts, a side without a text | turns of both sides or an exception |
| **Health server** (`app/health_server.py`) | none of its own | HTTP routes to the components | concurrent requests | each route is one request action |
| **LiveKit prototype** (`app/livekit_*.py`) | agent process, debug events | a second experimental call path | process supervision | – |
| **Configuration, audio codecs, browser prompt test** | none shared | parsing, sample arithmetic, prompt text | – | – |

How they meet: the flow engine posts `/calls`; `create_call` queues an originate
worker; FreeSWITCH opens a media websocket to the gateway, which tells call
control (`mark_media_connected`) and runs a Doubao session; a handoff is
requested by the session or over HTTP, claimed by an agent's browser over HTTP
and bridged over the Event Socket; the listener thread gets the channel events;
results go through the writer's queue into `call_record`, and each terminal
change publishes a flow callback.

`PROJECT.json` lists the hazards of this code at the lines where they bite, with
the properties that cover each.

## 2. Modules

| Module | Models | Composes or refines | Proofs in |
|---|---|---|---|
| `CallControl` | one call with all the threads of the manager | rounds of the writer, the media session, FreeSWITCH | `CallControlProofs`, `CallControlBookProofs`, `CallControlHandoffProofs` |
| `CallRegistry` | `create_call` under concurrent retries, the opening store, trimming, the pool | refines `IdempotentCreation` | `CallRegistryProofs` |
| `IdempotentCreation` | what `POST /calls` promises | abstract | |
| `CallResultWriter` | the bounded queue, the writer task with upload and callback, `stop`, the updater of other threads | | `CallResultWriterProofs` |
| `DoubaoSession` | one connection to the speech provider: reader task, seed, prompt, close | | `DoubaoSessionProofs` |
| `PhoneSession` | the media websocket's handler, playback worker, repairs, handoff | what `DoubaoSession` promises, FreeSWITCH's playback events | `PhoneSessionProofs` |
| `EventSocket`, `Snowflake`, `AgentProcesses`, `PostCallResults`, `DebugEvents`, `RecordingFile`, `VoiceActivity`, `PlayoutEngine`, `HandoffTranscript` | one small component each | put together by `Parts` | `PartsProofs` |
| `MCCallControl`, `MCCallRegistry`, `MCCallResultWriter`, `MCParts` | instances for TLC | | |

A definition marked "Variant" is not used by any specification: it is a way the
code could plausibly be wrong, against which a property was tried
(`PROJECT.json`, `mutants`).

## 3. CallControl

### State and code

| Variables | Code |
|---|---|
| `status`, `engaged`, `handoff` | `OutboundCallRecord.status`, `answered_at_ms`/`media_connected_at_ms`, `.handoff` (state, agent, recording, transcript, terminal callback, deadline passed) |
| `gen` | the handoff request now in `record.handoff` (`requested_at_ms` in the code) |
| `orig` | where `_originate` stands |
| `work`, `sweep` | executor threads, counted by their next step; agent legs a cleanup worker will hang up |
| `listener` | what `handle_channel_event` still does after its lock |
| `claim` | the HTTP thread of each agent inside `claim_handoff` / `_handoff` / `_release_or_fail_handoff_claim` |
| `unsched`, `timers`, `entry` | `request_handoff` threads before `_schedule_handoff_timeout`, armed `threading.Timer`s, and the one in `_handoff_timeout_timers` |
| `saving` | `complete_handoff_transcript` between its lock and `enqueue_nowait` |
| `results`, `db`, `sent` | the result queue, `call_record.status`, the terminal callbacks by the gate that let them through |
| `chan`, `cause`, `evq`, `leg`, `media` | FreeSWITCH channels, the events on their way, the media session (external) |

Every block under `OutboundCallManager._lock` is one action; an Event Socket
command, a database update or a queue operation ends the action, and anything
may happen before the next.  The code after the lock (cancelling a timer,
submitting a worker, updating the row, publishing) is an action of its own when
another thread can get in between and see the difference: the listener's
`ListenerCancels` and `ListenerFinishes` are two.  Publishing follows
its gate in the same action: the counter `sent` is not read by any other thread.

Reductions: a worker that only waits for the pool is a count; the event listener
holds one event at a time, as the code's single thread does; FreeSWITCH answers,
refuses or fails to answer; the two hangup events of one channel end carry the
same cause.  `Faults = TRUE` adds what sockets and the database may do: a
command that breaks before or after it was executed, an update that times out
before or after it committed, events lost while the listener reconnects, a
refused enqueue that is queued all the same.

Not in the module: parsing, the dial string, display fields, the takeover
suggestion text, diagnostics, `shutdown`, and the size of the thread pool (a
worker may start at any time; see hazards for what a full pool delays).

### Runs

| Run | Instance | Question |
|---|---|---|
| `two_agents` | 2 interchangeable agents, the handoff also over HTTP, cause busy | claims exclude each other, no leg and no connecting handoff is lost (933 000 states) |
| `faults` | 1 agent, 1 transcript post, causes busy and no-answer, with faults | callbacks stay gated when anything external fails (2.0 million) |
| `one_call` | 1 agent, 1 HTTP hangup, causes busy and no-answer, under fairness | recordings are stopped once, final rows stay, and the four liveness properties (696 000) |
| `one_outcome`, `abandoned`, `one_claim` | 1 agent with a hangup; 1 agent; 2 agents with 2 handoffs and a hangup | three promises of the documents the code does not keep (below) |

The bounds: one agent suffices for the races of a claim with the timer, the
listener and a hangup; two are needed for claims against each other.  Two agents
with HTTP handoffs, hangups and recordings together are out of TLC's reach in
minutes, so hangups are explored in `one_call` and `one_claim`; the proofs cover
any number of everything for the properties proved.  One handoff per passing
run, because a second request needs the first to be over.  One hangup and one
post give each HTTP route its race against every internal thread.  `busy` and
`no_answer` reach the two SQL statements the listener uses; `normal` and `other`
come from the answered call.  Deadlock checking is off because a call ends and
then nothing happens.

Symmetry is used only with two agents, in safety runs; `NoAgent` is outside the
permuted set.

### What the properties say

* `GatedCallbackOnce`, `RowStaysFinal` – originate worker, hangup workers,
  listener and result writer race for one row; the guard `status in ('0','1')`
  (or `= '1'`) makes one win, and only the winner publishes.
* `HandoffCallbackOnce`, `TranscriptFailureReported` – five places may owe the
  handoff's own FAILED callback; `terminal_callback_status` lets one send it, and
  a failed transcript of a finished conversation has always sent it.
* `AgentLegOwned`, `ConnectingHasOwner` – nothing is left ringing or connecting
  with nobody to end it.
* `OneClaim` – the first handoff request of a call is never worked on by two
  claim threads.  It is bounded to the first request because the code keeps it
  only there: see `one_claim`.
* `RecordingStoppedOnce` – over the whole call the listener stops recordings no
  more often than a human was asked for, however many hangup events it handles
  and whatever late claims start (`listener.stops` counts them).
* `FailedHandoffHangsUp`, `TranscriptSettles`, `FailedCallClosesRow`,
  `HandedOverCallReported` – the chains of submitted workers have no silent end.

Fairness (`FairSpec`): the threads of the manager as a whole keep running
(executor and timer threads are preemptive and no lock is held across a call),
a deadline passes, and FreeSWITCH answers or ends an originate (its
`originate_timeout`).  Nothing is assumed of customers, agents or HTTP clients,
nor of the media session.  The liveness properties are checked without faults.

Two of them are weaker than one might hope, and the weaker form is deliberate.
`FailedHandoffHangsUp` excludes HTTP hangups: a hangup requested before the
channel exists is refused by FreeSWITCH and the customer is dialed all the same.
`HandedOverCallReported` is checked without transcript posts: a post whose
enqueue is refused rolls the transcript back to `pending` after the processor
has seen it completed and gone, and then nobody is left to report the call.

### Documents the code does not keep

* `one_outcome`: "同一个 `taskId` 只能产生一个终态 callback"
  (`docs/flow_external_callback_integration.md:536`).  The row, the handoff and
  the result writer gate their callbacks independently, so one call can publish
  two terminal callbacks.
* `abandoned`: "waiting_agent / agent_claimed 期间客户先挂断 -> handoff_failed"
  (`docs/property-fee-human-handoff-technical-design.md:1160-1166`).  `_handoff`
  tests the customer and sets the next state in two locked blocks; when the
  hangup falls in between, the release puts the handoff of a gone customer back
  to `waiting_agent`, and the listener's late `_cancel_handoff_timeout` may stop
  the timer just armed.
* `one_claim`: "原子抢占该通 handoff，防止多个坐席同时接同一通电话" (same
  document, 445).  A release does not ask whether the claim it gives back is
  still its own.  A handoff requested and claimed while the call is queued is
  failed by `request_hangup`; the originate worker sets the status back, a
  second request is accepted and claimed, and the first claim thread, failing at
  last, puts it back to `waiting_agent` under the second agent.

Two more were seen while modelling and have no run.  A hangup between the two
locked blocks of `_handoff` is overwritten by `human_active`, against "保留客户通话的
completed 终态" (same document, 1173).  One task under two call ids is dialed
twice, since `_idempotency_key` looks at the task only when there is no call id,
against "重复收到同一个 `taskId`，不能重复创建供应商外呼任务"
(`docs/python_ai_call_flow_http_implementation_guide.md:148`).

## 4. CallRegistry

`CallRegistry` is the table of calls while HTTP threads create them; what
happens to a call once it is dialed is CallControl's subject.  A request, the
record it builds and that record's uuid share one name, so `calls` (the dict in
insertion order), `index` and `openings` hold requests.

| Variables | Code |
|---|---|
| `pc`, `ident`, `created`, `answer` | the HTTP thread in `create_call`: its place, `external_call_id` and `taskId`, `created_at_ms`, the record it returns |
| `calls`, `index` | `_calls`, `_external_call_index` |
| `openings` | `OpeningAudioStore` |
| `worker`, `dialed`, `failed` | `_run_originate_worker` in the pool, calls FreeSWITCH was told to originate, records the worker set failed |
| `stopped`, `clock` | `shutdown`, `_now_ms` |

The two locked blocks of `create_call` are `LookUp` and `Insert`; building the
record and preparing the opening happen between them, outside the lock.
`Insert` includes `_trim_locked`, which evicts the record with the smallest
`created_at_ms` (the sort is stable, hence the insertion order of `calls`).
Each locked block of `_originate` is an action that meets a `KeyError` when the
call has been evicted.  The listener occupies one thread of the pool for ever:
`Workers` counts the others.

The run `create_call`: 3 requests (a call id with its task, or the task alone), a
table of one call, one worker, two milliseconds, fair (571 000 states).  A task
that is its own call id, the convention of
`docs/python_ai_call_flow_http_implementation_guide.md:157`, has the key of the
task alone and drops the same entry, so it needs no identity of its own here.
Is creation idempotent, the index exact, no opening left over, every accepted
call dialed or failed?

A table of one call makes every insertion evict; three requests are the first
retry, the one it races and the one that meets the index afterwards.  Two
milliseconds let a slow request be older than the call it evicts, and so evict
itself.  Symmetry is not used, since the run checks liveness.

* `Idempotent` is the refinement: `known` of *IdempotentCreation* is the lookup
  `Remembered`, so a request either creates the call of a key that was not
  remembered or is answered with the one that was.
* `IndexExact` says of every call in the table that it is found by its key, call
  id or task, with one exception, which is the code's: `_trim_locked` drops the
  call id and the task of an evicted call, and if that task is the key of
  another call (`Shadowed`), the other one stays in the table unfound.
* `Idempotent` goes by `_idempotency_key`.  One task under two call ids has two
  keys and is dialed twice; no run shows it (section 3).
* `OpeningsOwned` has one exception, which is the code's: the loser of a
  creation race leaves its opening in the store.
* `AcceptedIsDialed` assumes that HTTP threads and pool threads run on and that
  FreeSWITCH ends every originate (its `originate_timeout`).  Evicted calls and
  a shutdown are excused; both are silent ends in the code.

## 5. CallResultWriter

`CallResultWriter` is the writer with everything its task awaits: the row, the
recording upload and the callback's HTTP attempts; and the other user of the
same event loop, `ThreadsafeCallRecordUpdater`.

| Variables | Code |
|---|---|
| `producer`, `ready`, `queue` | what `enqueue_nowait` told its caller, `put_on_loop` callbacks on their way, `self.queue` |
| `task`, `current`, `attempt`, `outcome`, `received` | where `_run` stands, its payload, the attempts of `publish`, the callback chosen, callbacks the engine received |
| `row`, `changed` | `call_record.status`, and who ended the row |
| `mark`, `objects`, `ossRows` | `recording_oss_id`, the object store, `sys_oss` |
| `update` | a call-control thread in `ThreadsafeCallRecordUpdater._run` |
| `running` | `start` … `stop` |

`publish` is a blocking call made on the loop.  While `Blocked`, nothing of the
loop runs: no `put_on_loop`, no step of an updater's coroutine, no `stop`; only
the database and the waiting threads go on.  So a thread may be told False of a
payload that is queued afterwards, or of an update that commits.  A select and
the update after it are two steps, because another writer can end the row in
between; the update tests the status again.

One run, `report_result`: a transcript and a failure of one call, a local test
result, a queue of one, two attempts, one updater, fair (486 000 states).  A
queue of one is full as soon as one payload waits; two attempts are a first one
and a retry; two payloads of one call and its updater are the three writers that
can meet at a row.  Fairness: the loop runs its task on, because every await in
it ends, if only by a timeout.

* `SuccessIsWritten` – SUCCESS means that this result completed the row and
  that nobody changes it any more.
* `TrueMeansWritten` – the updater says True only of its own change.  The
  converse fails by design of the timeout: False says nothing.
* `ReportedOnce` – the engine receives the callback of a payload at most
  `max_attempts` times, although a caller that timed out may find its payload
  queued later: the payload is in one place, so one pass of the task reports it.
  A payload that was refused is not reported.  The caller was told False in both
  cases, and if it submits a copy of a payload that is queued late, the row lets
  one of the two succeed (`SuccessIsWritten`) and the other is reported FAILED.
* `MarkHasRecording`, `OutcomeStable` – no failed step of the upload leaves a
  mark without a recording or turns a success into a failure.
* `AcceptedIsReported` – nothing accepted is forgotten, unless `stop` cancels
  the task or has left a queue that nobody reads.

Abstracted: payloads carry the context of a flow task; a call has one updater,
which calls `mark_failed` or `mark_no_answer` once; `mark_started` is in the
initial row ("0" if it failed); the file, the configuration and the upload are
one step that succeeds or raises.

## 6. DoubaoSession

`DoubaoSession` is one connection to the speech provider.  The provider and the
customer are external: they put events on `wire`, late, incomplete or not at
all.  `reader` is the only task that receives them, and it runs the gateway's
callbacks itself, so that while it is in one nothing is received.

| Variables | Code |
|---|---|
| `wire`, `agenda`, `speaking`, `utterance` | events on their way, what the provider has to say, what the customer says (external) |
| `connected`, `reader`, `lock` | `self._session`, `_read_events` with the callback it is in, `_session_restart_lock` |
| `next`, `input`, `response`, `awaiting`, `turns`, `invalid` | `_next_turn_id`, `_active_input_turn_id`, `_active_response_turn_id`, `_awaiting_response_turn_ids`, `_turns` and the states invalidated |
| `seed`, `seedDone`, `suppress` | `seed_assistant_context` and what it leaves behind |
| `prompt` | `send_tts_text` inside a handoff's callback |
| `heard`, `completed` | what the gateway has been told |

| Run | Instance | Question |
|---|---|---|
| `doubao_turns` | 2 utterances, one event on the wire, a seed, a handoff, fair (662 000 states) | turns complete in order and once, a closed session calls nobody back, the lock comes back |
| `connecting_prompt` | 1 utterance, a provider that always speaks in time | refuted: the connecting prompt is heard before the handoff is requested |

Two utterances are an answer that is interrupted and the one that interrupts it;
a longer wire only delays what the reader does next, since it takes one event at
a time.  `FairSpec` assumes that waits under `asyncio.wait_for` end.

* `CompletedInOrder` – the gateway commits a turn when it is told that it is
  complete; ends of speech that are missing or belong to a seed must not
  complete a turn twice or after a later one.
* `NoCallbackAfterClose`, `LockReleased` – `close` from any task, and a lock that
  is held while waiting for the reader.  `close` awaits the reader and suppresses
  only a cancellation and the session's own errors (`:136`): a reader that ended
  with the socket's `ConnectionClosed`, which the client does not wrap
  (`app/doubao_s2s_client.py:308`), is `Broken`, and `close` raises with it before
  it forgets the session.  `Close` therefore needs a reader that is not broken.
* `connecting_prompt`: the fake session of
  `test_realtime_gateway_triggers_handoff_and_suppresses_model_output` speaks
  the prompt at once.  In the program the callback that sends it is run by the
  reader, the only one who would hear that it was spoken; every wait of a
  handoff for its prompt lasts until its timeout.

## 7. PhoneSession

`PhoneSession` is the handler of one media websocket, the worker that plays, the
callbacks of the speech session, the tasks that repair an interrupted
conversation, the opening, and the handoff inside a callback.  All run on one
event loop: an action goes from one await to the next.

| Variables | Code |
|---|---|
| `handler`, `opening`, `result` | `_handle_connection` and `_shutdown_session`, the prepared opening, the result handed on or deferred |
| `registered`, `provider`, `callback`, `asks` | `_realtime_sessions`, the speech session as `DoubaoSession` promises it, the callback its reader is in, turns in which the customer asks for a human |
| `requested`, `requester` | `handoff_requested` and the thread of the request |
| `repairs`, `repairing`, `lock` | `_run_interruption_repair` tasks, `interruption_repair_active`, `realtime_lock` |
| `capture`, `output`, `begun` | the current turns |
| `queue`, `worker`, `playing`, `fsOwes` | `playback_queue` by turn, `_playback_worker` and the frames it holds, `playback_active`, FreeSWITCH's completion on its way |
| `buffers`, `modelDone`, `fsDone`, `prefilled` | the marks a turn needs to be over |
| `closed`, `texts`, `pending`, `committed` | closed turns, transcripts, pending and committed exchanges |

One run, `phone`: two turns (one if the call begins with an opening, until a
human is requested), one frame queued by the model ahead of its silence, one
repair at a time, the answer to the second turn with or without its text
(`Textless`: the first one's comes with it), fair (1.07 million states).  Two turns
are one that is given up and the one that follows; the prefill of two frames
makes the worker hold frames while the queue changes under it.

* `OnlyLiveAnswersSent` – audio of a turn that was given up arrives late, is
  queued, or is already in the worker's hands when its turn is closed.
* `CommittedOnce` – the worker, FreeSWITCH's event, a repair, a handoff and a
  restarted session that counts anew may each put a turn into the history.
* `DeferredToHandoff` – the handler decides at the end of the shutdown whether
  to hand on the result, while the requester still runs in its thread.
* `RepairIsOver`, `ShutdownIsOver` – under fairness of the shutdown, the worker
  and each repair, whose awaits all have timeouts.  `ShutdownIsOver` has two
  exceptions that are the code's.  Closing a speech session whose connection has
  broken raises (`:2670`): the end of the queue, the join and the result are
  skipped (`handler = "failed"`).  And a repair that connects a new speech
  session after the shutdown closed the old one may clear the end mark from the
  playback queue: the handler waits for a worker that waits for frames.  A
  result is `"offered"` to the writer, which may refuse it; `:2778` then only
  logs.

The first two properties have one exception, the history variable `strained`:
two repairs were to restart the speech session at once, or the opening began
over an answer (`_start_opening_playback` sets `current_output_turn_id`
whatever plays, `:981`).  In such a call the code may send a turn it has closed.
With four turns and one repair TLC finds it in 26 steps: the opening begins
over the answer to a turn that nobody has begun while the repair waits for the
lock; the audio of that turn stays in its buffer; the new session issues its
number again; that turn is given up, and at its end the buffer is flushed and
sent.  Two overlapping repairs can get there as well.  No document says what
such a call should do, so there is no run that expects the violation.  Openings
start as soon as the call is answered, and it takes an answer to audio from
before that moment.  The second half of `OnlyLiveAnswersSent`, no answer once a
human is on the way, and everything else holds of strained calls too.

A repair that restarts the session is two steps: it connects, and the replay of
held audio is awaited while the other tasks go on; only what fails before the
connection is there leaves the provider closed.

`RequestHuman` leaves the history alone although `_trigger_handoff_from_turn`
calls `_commit_handoff_prompt_turn` (`:1774`) when the connecting prompt was
spoken: only the reader could report that (`app/doubao_s2s_realtime.py:458`), and
it is in this very callback (section 6, `connecting_prompt`), so the wait ends
with its timeout or the cancellation of the callback, and the prompt is never
committed.

Abstracted: audio is frames by turn, a text is that a side of the turn was
transcribed; the echo window and pacing are left out.  Audio that the customer
speaks while a repair runs is held and replayed in the code; the model has no
content to lose there.

## 8. The parts

Nine components share no state with the rest, or only a call the other modules
already make.  `Parts` takes each as an INSTANCE with variables of its own and
puts their specifications into one behaviour, of which one moves (411 000 states
in all): this costs one run and one module of proofs instead of nine and mixes
nothing.  `MCParts` gives the constants their values.

`Parts` states what the theorems assume of the constants, as weak as the code
makes it: the sequence and the worker number of an id have room for a value
(`recording_upload.py:27`); copies are in chunks of bytes; the detector turns its
times into one frame at least where it must hear something before it acts, and
into any number where it only keeps (`_ms_to_frames`); the store of debug events
and a poll hold at least one event (500 and 500, `livekit_debug_events.py:10`,
`health_server.py:1313`) and a browser shows one room; a telephone frame is not
empty and the silence after an answer not negative (`playout_engine.py:49`); and
no response, request or number is the value that stands for none.

| Module | Instance | Property |
|---|---|---|
| `EventSocket` | 3 requests, 2 failures | `EventSocketSafe`: while nobody gives up, a reply is one's own; the event loop listens only where it has subscribed |
| `Snowflake` | 3 sequence numbers, 13 milliseconds | `IdsIncrease`: with a clock that steps back and a sequence that overflows |
| `AgentProcesses` | 2 rooms, 4 processes | `OneAgentPerRoom`: processes end by themselves, ignore signals or outlive the kill |
| `PostCallResults` | 2 calls, 2 task types, 2 analysts, 3 posts | `OneAnalystPerTask`: results are posted again while their tasks are worked on |
| `DebugEvents` | 3 events kept, polls of 2, 5 posted | `NothingMissed`: until an event brings a number of its own, a browser that polls in time sees every event of its room once |
| `RecordingFile` | 2 downloads, a file of up to 4 bytes | `BodiesAreWhole`: the body has the promised length while the file grows |
| `VoiceActivity` | thresholds of 1 to 3 frames, utterances of up to 8 | `SpeechIsKept`: trimming silence drops no speech |
| `PlayoutEngine` | 2 responses of 3 chunks of 2 to 4 bytes, three samples to one | `PlayedWhole`: a finished response is heard to its last sample, within half a sample for each chunk, a canceled one not, none mixed |
| `HandoffTranscript` | 1 conversation, 2 queries | `TranscriptIsWhole`: turns need a text of both sides; one is never taken for the whole |

Facts of the code that these models show and their properties therefore allow
for: after a request to break a playback is given up, the Event Socket's replies
are shifted by one for whoever comes next; `stop` during a break leaves a
connection behind; an analyst that outlives a repeated post finishes a task that
is no longer its own; a posted event that carries a `sequence` of its own
overwrites its number (`livekit_debug_events.py:20`; `renumbered` remembers that
one has); a recording whose writer pauses for one poll is uploaded short; the ASR
adapter polls on after its worker has timed out; an answer without text raises
(`handoff_asr_adapter.py:591`), so a call in which one side said nothing has no
transcript.

`PlayoutEngine` resamples each chunk alone, as `push` does: a chunk of `n`
samples becomes `n * TargetRate / SourceRate`, rounded half to even, and `PlayedWhole` bounds what that adds or loses.  `OneAgentPerRoom` is
about the process `Popen` has started; that is `uv run`, and an agent that
outlives a killed `uv run` is not seen by the manager nor by the model.

## 9. What is proved

The theorems hold for every value of the constants.  They rest on the named
assumptions of the modules (sentinels are not members, bounds are natural
numbers, switches are Booleans), which TLC evaluates in the runs, and on what
the theorem itself assumes.

| Theorem | Module | Argument |
|---|---|---|
| `TypeCorrect` | CallControlProofs | `TypeOK` is inductive; one lemma per group of actions, one case per action, frames for what an action leaves alone |
| `GatedOnce`, `RowFinal` | CallControlBookProofs | every step is a `RowMove`: the row stays, starts, fails with at most one FAILED, or completes with at most one SUCCESS; with `TypeOK`, `GatedCallbackOnce` is inductive |
| `StoppedOnce` | CallControlBookProofs | `StopInv` counts: claim threads at work, a request that waits for an agent, a conversation that is recorded and the stops begun so far are together no more than the requests for a human so far, so that one stop too many would need a request that was never made; `completed` leaves nothing to stop |
| `HandoffReportedOnce`, `TranscriptFailureTold` | CallControlHandoffProofs | every step is a `HandoffMove`; the inductive invariant `CallbackInv` adds `Untouched` (nothing happens to the handoff before a request) and `SavedNotFailed` (a transcript being saved was not failed, so a rollback cannot fail it silently) |
| `ConnectingOwned` | CallControlHandoffProofs | a step is taken by a claim thread, which keeps working or leaves the connecting states, or elsewhere, where nothing starts to connect |
| `FirstClaimAlone` | CallControlHandoffProofs | `ClaimInv` adds `WaitsAlone` to `CallbackInv`: while the first request waits for an agent, no claim thread works on it |
| `LegOwned` | CallControlHandoffProofs | the same split for the agent's leg, assuming `Faults = FALSE`: with a broken socket the leg really can be orphaned |
| `OpeningsAreOwned` | CallRegistryProofs | `LifeInv` ties each thread's place to the table; evicting the oldest drops its opening with it |
| `IndexIsExact` | CallRegistryProofs | entries lead to calls and calls are found by keys that are not shadowed, together inductive: a key once shadowed stays so, and of two calls with one key the later would not have been inserted |
| `CreatesOnce` | CallRegistryProofs | the refinement of `IdempotentCreation`: a lookup or an insertion maps to `Create`, `Repeat` or a stutter, everything else to a stutter |
| `EachReportedOnce`, `OutcomeIsStable` | CallResultWriterProofs | `PlaceInv`: a payload is in one place of the loop's callbacks, the queue, the task and the outcomes, and a refused one in none; `ReceivedInv`: of the one that is published the engine has received no more than its attempts |
| `TrueIsWritten`, `SuccessWritten` | CallResultWriterProofs | `RowInv` and `SuccessInv`: an open row was changed by nobody, and a transcript being uploaded completed its row |
| `MarkedIsStored` | CallResultWriterProofs | `UploadInv`: each step of the upload finds what the one before it left |
| `TypeCorrect`, `InOrder`, `Quiet` | DoubaoSessionProofs | `TurnOrder`: the turns completed, being answered, awaiting an answer and being spoken are in this order and below the next number; after `close` the reader only goes back |
| `DeferredOnlyToHandoff` | PhoneSessionProofs | `AskedInv`: who has asked waits, was promised a human or did not hear the refusal |
| `NoAnswerOnceHuman` | PhoneSessionProofs | `HumanInv`: from the request on no answer plays and no audio is kept; with the types, what is sent is of the turn that plays |
| `RememberedOnce`, `OnlyLiveSent` | PhoneSessionProofs | `TalkInv` while the call is not strained; see below |
| `IdsGrow` | PartsProofs | `IdRemembered`: an id is the remembered millisecond and sequence number, and a later millisecond outweighs any sequence number; assumes positive widths |
| `SocketSafe` | PartsProofs | `SocketInv`: who uses the connection holds the lock; a command or reply on it belongs to a request that is over, unless it is the last of all and its request is reading, and one that has its answer leaves another behind only after somebody gave up |
| `OneAgent`, `OneAnalyst` | PartsProofs | `ProcessesInv` and `ResultsInv`: a living process is the one remembered for its room; nobody holds a task of a result that has yet to be posted |
| `WholeTranscript` | PartsProofs | `TranscriptInv`, per conversation: what the worker, the polling thread and the provider know of each side agree, a side being judged only after its query |
| `WholeBodies` | PartsProofs | `RecordingInv`: the range is cut to the size seen, a file only grows, so what is still to be copied is there unless the file was removed |
| `NoSpeechLost` | PartsProofs | `VoiceInv`: the counters are the voiced frames and the silence at the end of the buffer; the frames cut off are no more than that silence |
| `AllSeen` | PartsProofs | `EventsInv`: the store is the newest events in order, numbered as they came; what it holds for a room after a browser's mark is what that browser has not asked for |
| `HeardWhole` | PartsProofs | `PlayoutInv`: frames are numbered in their order and those of the active response come last, so that more may follow; the samples of its frames, queued or drained, and of its buffer are what was fed to it, give or take half a sample for each chunk; padding the rest adds less than a frame |

`Untouched` is needed because the bound of `HandoffCallbackOnce` counts
requests: without it a claim thread could complete a handoff that nobody
requested.  `SavedNotFailed` is needed because `EnqueueResult` restores an older
status without looking at the callback.

`CommittedOnce` and `OnlyLiveAnswersSent` are far from inductive.  `HistoryInv`
says that a turn in the history is settled: closed, or asked for a human, or
known to the session no more and without a pending text, so that it cannot be
completed again, and that the turn that plays is not closed.  To keep that,
`BufferedInv` says of whom audio may be kept: of the turn that plays or is being
answered, of a closed turn only if its end is known to have been cut off, and,
while a repair is about to restart the session, only of the turn that plays.
`SessionInv` ties the speech session to the repairs: its numbers go beyond every
turn begun, and one that is not open knows no turn and is in no callback.

`PartsProofs` first shows that a behaviour of the whole is one of every part
(`PartsInit`, `PartsStep`); each invariant is then proved of its part and carried
over.  Its lemmas about operators are of general use.  A set of places taken out
of a sequence by rank loses none and keeps the order (`OnlyThins`: ranks are an
injection into as many numbers, hence onto them), a set of numbers with a bound
has a greatest member (`GreatestExists`, from the well-foundedness of the
naturals), and voiced or queued frames are counted as cardinalities
(`VoicedFrames`, `ThinnedCounts`, `FramesJoin`), which needs no induction over
the sequence.

Only model-checked: the liveness properties (`FailedHandoffHangsUp`,
`TranscriptSettles`, `FailedCallClosesRow`, `HandedOverCallReported`,
`AcceptedIsDialed`, `AcceptedIsReported`, `LockReleased`, `RepairIsOver`,
`ShutdownIsOver`), because TLAPS does not prove fairness arguments, and the
four expected violations, which are counterexamples.  Every safety invariant
and every action property that a passing run checks is also a theorem.  No
module here declares a recursive operator.

## 10. Not modelled

The components marked `not_modelled` in `PROJECT.json`, each with its reason:
the layout of media frames, codecs and WAV files are encoding and sample
arithmetic; settings, logging and start-up are parsing and wiring, whose
switches are constants here; the browser prompt test is text.  Of the components
marked `partly`: the LiveKit agent worker runs in a process of its own on a
framework whose scheduling is not in this repository; the Doubao client encodes
and decodes the provider's frames; the health server's parsing and rendering
have no state; `shutdown` of call control cancels timers of calls that are not
looked at any more; prompt lookups only read.
