---------------------------- MODULE PhoneSession ----------------------------
(***************************************************************************)
(* One phone call in FreeSwitchRealtimeGatewayServer                       *)
(* (app/realtime_phone_gateway.py): the handler of its media websocket,    *)
(* the worker that plays what is queued, the callbacks of the speech       *)
(* session's reader, the tasks that repair an interrupted conversation,    *)
(* the opening, and the handoff to a human inside a callback.  All run on  *)
(* one event loop: an action goes from one await to the next.  Of the      *)
(* speech session it knows what DoubaoSession promises and where it raises.*)
(***************************************************************************)
EXTENDS Naturals, Sequences, FiniteSets

CONSTANTS
  HasPlaybackControl, \* playback_control is not None
  PrefillFrames,      \* playback_prefill_frames
  TailFrames,         \* frames of silence after an answer
  MaxTurns,           \* bound on the turns of the call
  MaxTurnsAfterOpening, \* when it begins with a prepared opening
  MaxFrames,          \* bound on what the model has queued
  Textless,           \* bound on the turns whose answer may come without its text
  Repairs,            \* names for the repair tasks there may be at once
  NoTurn,             \* None, for a turn
  End                 \* None, in the playback queue

ASSUME SwitchesAssumption == HasPlaybackControl \in BOOLEAN
ASSUME BoundsAssumption ==
  /\ {PrefillFrames, TailFrames, MaxTurns, MaxTurnsAfterOpening, MaxFrames} \subseteq Nat
  /\ PrefillFrames > 0 /\ MaxTurnsAfterOpening <= MaxTurns
ASSUME NamesAssumption == NoTurn \notin Nat \cup {End} /\ End \notin Nat

Opening == 0 \* OPENING_TURN_ID
Turns == 1..MaxTurns

VARIABLES
  handler,    \* where _handle_connection stands
  opening,    \* the prepared opening
  registered, \* _realtime_sessions has a session for the call
  provider,   \* the speech session last created: its link and its turns
  callback,   \* the callback its reader is in
  asks,       \* turns in which the customer has asked for a human (external)
  requested,  \* handoff_requested
  requester,  \* the thread of the last handoff request
  repairs,    \* where each repair task stands
  repairing,  \* interruption_repair_active
  lock,       \* the repair that holds realtime_lock
  strained,   \* history: two repairs were to restart the session at once, or the
              \* opening began over an answer
  capture,    \* current_capture_turn_id
  output,     \* current_output_turn_id
  begun,      \* turns whose speech has started; the highest is last_realtime_turn_id
  queue,      \* playback_queue: the turn of each frame
  worker,     \* where _playback_worker stands, and the frames it holds
  playing,    \* playback_active
  buffers,    \* playback_buffers
  modelDone,  \* model_done_turns
  fsDone,     \* freeswitch_completed_turns
  prefilled,  \* jitter_prefilled_turns
  fsOwes,     \* FreeSWITCH will say that its queue is completed (external)
  closed,     \* closed_output_turn_ids
  texts,      \* turns in output_transcripts_by_turn
  pending,    \* pending_exchanges: the turns' texts known so far
  committed,  \* committed_exchanges
  result      \* what became of the call's result

callVars   == <<handler, opening, result>>
aiVars     == <<registered, provider, callback, asks>>
handoffVars == <<requested, requester>>
repairVars == <<repairs, repairing, lock, strained>>
turnVars   == <<capture, output, begun>>
playVars   == <<queue, worker, playing, fsOwes>>
markVars   == <<buffers, modelDone, fsDone, prefilled>>
bookVars   == <<closed, texts, pending, committed>>
vars == <<callVars, aiVars, handoffVars, repairVars, turnVars, playVars, markVars, bookVars>>

NoCallback == [at |-> "none", turn |-> NoTurn, status |-> "none"]
In(at, t, status) == [at |-> at, turn |-> t, status |-> status]

Transitioning == callback.at = "transitioning" \* handoff_transitioning
HasPlayback == playing \/ queue # <<>>

-----------------------------------------------------------------------------
(* The history of the conversation                                         *)

Parts(t, exchanges) == {part \in {"input", "output"} : <<t, part>> \in exchanges}
Without(t, exchanges) == {e \in exchanges : e[1] # t}
Committed(t, status) == [turn |-> t, status |-> status]
IsCommitted(t, history) == \E i \in DOMAIN history : history[i].turn = t

\* Variant: what is committed of the turn is not looked for.
AbandonAgain(t, exchanges, outputs, history) ==
  IF t \in {NoTurn, Opening}
    THEN pending' = exchanges /\ committed' = history /\ UNCHANGED closed
    ELSE /\ closed' = closed \cup {t}
         /\ pending' = Without(t, exchanges)
         /\ committed' = IF Parts(t, exchanges) # {} \/ t \in outputs
                         THEN Append(history, Committed(t, "interrupted")) ELSE history

\* _abandon_pending_turn: the turn is closed to late audio, and what was said
\* in it is committed as interrupted, or merged into what is committed.
Abandon(t, exchanges, outputs, history) ==
  IF t \in {NoTurn, Opening}
    THEN pending' = exchanges /\ committed' = history /\ UNCHANGED closed
    ELSE /\ closed' = closed \cup {t}
         /\ pending' = Without(t, exchanges)
         /\ committed' = IF /\ Parts(t, exchanges) # {} \/ t \in outputs
                            /\ ~IsCommitted(t, history)
                         THEN Append(history, Committed(t, "interrupted")) ELSE history

\* _commit_handoff_request_turn
RequestCommitted(t) ==
  IF IsCommitted(t, committed) THEN committed
  ELSE Append(committed, Committed(t, "handoff_requested"))

\* The turn is over once the model, the queue and FreeSWITCH are done with it.
Over(t, stillPlaying, played) ==
  /\ output = t
  /\ t \in modelDone
  /\ ~stillPlaying /\ queue = <<>>
  /\ HasPlaybackControl => t \in played

\* _complete_played_turn_if_ready and _commit_played_turn
CompleteIfReady(t, stillPlaying, played) ==
  IF Over(t, stillPlaying, played)
    THEN /\ committed' = IF t # Opening /\ Parts(t, pending) = {"input", "output"}
                         THEN Append(committed, Committed(t, "completed")) ELSE committed
         /\ pending' = Without(t, pending)
         /\ output' = NoTurn
         /\ modelDone' = modelDone \ {t}
         /\ fsDone' = played \ {t}
         /\ prefilled' = prefilled \ {t}
    ELSE fsDone' = played /\ UNCHANGED <<output, modelDone, prefilled, pending, committed>>

OpeningAfter(over, t) == IF over /\ t = Opening THEN "over" ELSE opening

\* What a repair and a handoff have in common: the queue, the turn that is
\* playing and everything known of it are dropped.
StopPlayback(exchanges, history) ==
  /\ opening' = IF output = Opening THEN "over" ELSE opening
  /\ queue' = <<>>
  /\ Abandon(output, exchanges, texts, history)
  /\ output' = NoTurn
  /\ buffers' = {}
  /\ modelDone' = {}
  /\ fsDone' = {}
  /\ prefilled' = {}
  /\ playing' = FALSE

ProviderClosed == [link |-> "closed", issued |-> 0, open |-> {}, input |-> NoTurn,
                   reply |-> NoTurn, cut |-> FALSE]
NewProvider(start) == [ProviderClosed EXCEPT !.link = "connecting", !.issued = start]

\* close by another task awaits the reader: if that died when its connection
\* broke it raises what the reader raised, now and every time it is called.
CloseRaises == provider.link = "broken"

\* Else the reader is cancelled, inside the callback it may be in.
CloseProvider ==
  /\ provider' = IF provider.link = "open" THEN ProviderClosed ELSE provider
  /\ callback' = NoCallback

-----------------------------------------------------------------------------
(* _handle_connection                                                      *)

ConnectReturns ==
  /\ handler = "connecting"
  /\ handler' = "serving"
  /\ provider' = [provider EXCEPT !.link = "open"]
  /\ opening' \in {"none", "scheduled"}
  /\ UNCHANGED <<result, registered, callback, asks, handoffVars, repairVars, turnVars,
                 playVars, markVars, bookVars>>

ConnectFails ==
  /\ handler = "connecting"
  /\ handler' = "closing"
  /\ provider' = ProviderClosed
  /\ UNCHANGED <<opening, result, registered, callback, asks, handoffVars, repairVars,
                 turnVars, playVars, markVars, bookVars>>

\* _start_opening_playback, once the call is answered.
StartOpening ==
  /\ opening = "scheduled"
  /\ opening' = "queued"
  /\ output' = Opening
  /\ modelDone' = modelDone \cup {Opening}
  /\ queue' = Append(queue, Opening)
  /\ strained' = (strained \/ output # NoTurn)
  /\ UNCHANGED <<handler, result, aiVars, handoffVars, repairs, repairing, lock, capture, begun,
                 worker, playing, fsOwes, buffers, fsDone, prefilled, bookVars>>

\* A repair in one of these places has cleared the playback and has the
\* session yet to restart.
Restarting == {"locking", "closing", "connecting"}

\* create_task(_run_interruption_repair)
StartRepair ==
  /\ \E r \in Repairs :
       /\ repairs[r] = "idle"
       /\ repairs' = [repairs EXCEPT ![r] = "created"]
  /\ strained' = (strained \/ \E r \in Repairs : repairs[r] \in {"created"} \cup Restarting)
  /\ repairing' = TRUE
  /\ UNCHANGED lock

\* _handle_local_opening_barge_in: the customer speaks over the opening.
BargeIn ==
  /\ handler = "serving"
  /\ output = Opening
  /\ opening = "audible"
  /\ ~repairing
  /\ StartRepair
  /\ UNCHANGED <<callVars, aiVars, handoffVars, turnVars, playVars, markVars, bookVars>>

\* _handle_audio_frame: appending to a session that is not connected raises,
\* and the exception ends the handler.
AppendRaises ==
  /\ handler = "serving"
  /\ lock = NoTurn
  /\ ~requested /\ ~Transitioning /\ ~repairing
  /\ registered
  /\ provider.link # "open"
  /\ handler' = "closing"
  /\ UNCHANGED <<opening, result, aiVars, handoffVars, repairVars, turnVars, playVars,
                 markVars, bookVars>>

\* FreeSWITCH closes the websocket.
MediaCloses ==
  /\ handler = "serving"
  /\ handler' = "closing"
  /\ UNCHANGED <<opening, result, aiVars, handoffVars, repairVars, turnVars, playVars,
                 markVars, bookVars>>

\* _shutdown_session cancels the background tasks and closes the session,
\* unless that is still being connected by a repair.  If close raises, so does
\* the handler: the rest of the shutdown is skipped.
ShutdownCloses ==
  /\ handler = "closing"
  /\ opening' = IF opening = "scheduled" THEN "over" ELSE opening
  /\ IF registered /\ CloseRaises
       THEN handler' = "failed" /\ UNCHANGED <<provider, callback>>
       ELSE /\ handler' = "releasing"
            /\ IF registered THEN CloseProvider ELSE UNCHANGED <<provider, callback>>
  /\ UNCHANGED <<result, registered, asks, handoffVars, repairVars, turnVars, playVars,
                 markVars, bookVars>>

\* The end of the queue is put.  A task created before has begun by then: the
\* loop runs its tasks in the order they became ready.
ShutdownJoins ==
  /\ handler = "releasing"
  /\ \A r \in Repairs : repairs[r] # "created"
  /\ handler' = "joining"
  /\ queue' = Append(queue, End)
  /\ UNCHANGED <<opening, result, aiVars, handoffVars, repairVars, turnVars, worker, playing,
                 fsOwes, markVars, bookVars>>

\* Variant: every result waits for a handoff that was once asked for.
ShutdownDefers ==
  /\ handler = "joining"
  /\ worker.at = "ended"
  /\ handler' = "done"
  /\ registered' = FALSE
  /\ result' = IF requester # "none" THEN "deferred" ELSE "offered"
  /\ UNCHANGED <<opening, provider, callback, asks, handoffVars, repairVars, turnVars,
                 playVars, markVars, bookVars>>

\* The playback task is over: the result is left to the handoff, or offered to
\* the writer, which may refuse it: then it is lost.
ShutdownEnds ==
  /\ handler = "joining"
  /\ worker.at = "ended"
  /\ handler' = "done"
  /\ registered' = FALSE
  /\ result' = IF requested THEN "deferred" ELSE "offered"
  /\ UNCHANGED <<opening, provider, callback, asks, handoffVars, repairVars, turnVars,
                 playVars, markVars, bookVars>>

-----------------------------------------------------------------------------
(* The callbacks of the speech session's reader                            *)

WithinBound(t) ==
  t \in Turns /\ (opening = "none" \/ requested \/ t <= MaxTurnsAfterOpening)

Reads == provider.link = "open" /\ callback = NoCallback
LastTurn == IF begun = {} THEN 0 ELSE CHOOSE t \in begun : \A u \in begun : u <= t

\* _handle_server_vad_speech_started: speech while the gateway is busy gives
\* up the turn that is still without an answer and starts a repair.
SpeechStarted ==
  LET t == provider.issued + 1
      busy == capture # NoTurn \/ output # NoTurn \/ HasPlayback
  IN /\ Reads
     /\ provider.input = NoTurn
     /\ WithinBound(t)
     /\ provider' = [provider EXCEPT !.issued = t, !.open = @ \cup {t}, !.input = t,
                                     !.cut = provider.reply # NoTurn]
     /\ asks' = asks \ {t}
     /\ begun' = begun \cup {t}
     /\ capture' = t
     /\ IF busy /\ capture \notin {t, output}
          THEN Abandon(capture, pending, texts, committed)
          ELSE UNCHANGED <<closed, pending, committed>>
     /\ IF busy /\ ~repairing THEN StartRepair ELSE UNCHANGED repairVars
     /\ UNCHANGED <<callVars, registered, callback, handoffVars, output, playVars, markVars,
                    texts>>

\* The provider's connection breaks: the reader dies of what recv raises.
ProviderBreaks ==
  /\ Reads
  /\ provider' = [ProviderClosed EXCEPT !.link = "broken"]
  /\ UNCHANGED <<callVars, registered, callback, asks, handoffVars, repairVars, turnVars,
                 playVars, markVars, bookVars>>

\* The customer has finished speaking, as the provider hears it.
InputEnds ==
  /\ Reads
  /\ provider.input # NoTurn
  /\ provider' = [provider EXCEPT !.input = NoTurn]
  /\ UNCHANGED <<callVars, registered, callback, asks, handoffVars, repairVars, turnVars,
                 playVars, markVars, bookVars>>

\* _ensure_response_turn, as DoubaoSession promises: the turn being answered,
\* else the oldest one, else one that nobody has begun.
Answered(t) ==
  \/ t = provider.reply
  \/ /\ provider.reply = NoTurn
     /\ t \in provider.open
     /\ \A u \in provider.open : t <= u
  \/ /\ provider.open = {}
     /\ t = provider.issued + 1

Answering(t) ==
  [provider EXCEPT !.reply = t, !.open = @ \cup {t},
                   !.issued = IF t > @ THEN t ELSE @,
                   !.input = IF t = @ THEN NoTurn ELSE @]

\* Variant: a closed turn may still be played.
QueueAudioLate(t) ==
  IF requested \/ output \notin {NoTurn, t}
    THEN UNCHANGED <<output, buffers, queue>>
    ELSE /\ output' = t
         /\ buffers' = buffers \cup {t}
         /\ queue' \in {queue, Append(queue, t)}

\* _queue_audio_delta: audio of a closed turn, beside the turn that is playing
\* or during a handoff is dropped; it may fill a frame or not.
QueueAudio(t) ==
  IF requested \/ t \in closed \/ output \notin {NoTurn, t}
    THEN UNCHANGED <<output, buffers, queue>>
    ELSE /\ output' = t
         /\ buffers' = buffers \cup {t}
         /\ queue' \in {queue, Append(queue, t)}

AudioDelta ==
  \E t \in Turns :
    /\ Reads
    /\ Answered(t)
    /\ WithinBound(t)
    /\ Len(queue) < MaxFrames
    /\ provider' = Answering(t)
    /\ IF provider.cut THEN UNCHANGED <<output, buffers, queue>> ELSE QueueAudio(t)
    /\ UNCHANGED <<callVars, registered, callback, asks, handoffVars, repairVars, capture,
                   begun, worker, playing, fsOwes, modelDone, fsDone, prefilled, bookVars>>

\* _finalize_server_vad_turn, up to the thread that may record a takeover
\* suggestion.
TurnCompleted ==
  /\ Reads
  /\ provider.reply \notin asks \cup {NoTurn}
  /\ capture' = NoTurn
  /\ callback' = In("suggesting", provider.reply,
                    IF provider.cut THEN "cancelled" ELSE "completed")
  /\ UNCHANGED <<callVars, registered, provider, asks, handoffVars, repairVars, output, begun,
                 playVars, markVars, bookVars>>

\* The provider lets go of a turn whose callback has returned.
Returned ==
  /\ callback' = NoCallback
  /\ provider' = IF callback.status = "transcript" \/ provider.link # "open" THEN provider
                 ELSE [provider EXCEPT !.reply = NoTurn, !.cut = FALSE,
                                       !.open = @ \ {callback.turn}]

Silence(t) == [i \in 1..TailFrames |-> t]

\* The rest of _finalize_server_vad_turn.
FinalizeTurn ==
  LET t == callback.turn
      done == callback.status = "completed"
      heard == {part \in {"input"} : t \in begun}
      flush == done /\ t \in buffers /\ output \in {NoTurn, t}
  IN /\ callback.at = "suggesting"
     /\ buffers' = buffers \ {t}
     /\ queue' = IF flush THEN queue \o Silence(t) ELSE queue
     /\ \E said \in {heard \cup {"output"}} \cup (IF t \in Textless THEN {heard} ELSE {}) :
          /\ texts' = texts \cup {u \in {t} : "output" \in said}
          /\ LET exchanges == pending \cup {<<t, part>> : part \in said}
             IN IF done THEN pending' = exchanges /\ UNCHANGED <<closed, committed>>
                ELSE IF t \in closed THEN Abandon(t, exchanges, texts', committed)
                ELSE pending' = Without(t, exchanges) /\ UNCHANGED <<closed, committed>>
     /\ LET out == IF flush THEN t ELSE output
            over == out = t /\ ~playing /\ queue' = <<>>
        IN /\ output' = IF over THEN NoTurn ELSE out
           /\ modelDone' = IF over THEN modelDone \ {t} ELSE modelDone \cup {t}
           /\ prefilled' = IF over THEN prefilled \ {t} ELSE prefilled
     /\ Returned
     /\ UNCHANGED <<callVars, registered, asks, handoffVars, repairVars, capture, begun, worker,
                    playing, fsOwes, fsDone>>

-----------------------------------------------------------------------------
(* A handoff, inside a callback                                            *)

\* _commit_handoff_request_turn, _trigger_handoff_from_turn and
\* _stop_ai_playback_for_handoff up to its first await.
TriggerHandoff(t, status) ==
  /\ Reads
  /\ ~requested
  /\ callback' = In("transitioning", t, status)
  /\ repairing' = FALSE
  /\ provider' = [provider EXCEPT !.cut = provider.reply # NoTurn]
  /\ StopPlayback(Without(t, pending), RequestCommitted(t))
  /\ asks' = asks \cup {t}
  /\ UNCHANGED <<handler, result, registered, handoffVars, repairs, lock, strained, begun, worker,
                 fsOwes, texts>>

\* _handle_input_transcript_available: the customer asks for a human.
HumanAskedFor ==
  /\ provider.input \in begun
  /\ TriggerHandoff(provider.input, "transcript")
  /\ UNCHANGED capture

\* _finalize_handoff_request_turn: the completed turn asks for one, again
\* perhaps.
HumanAskedForInTurn ==
  /\ provider.reply \in begun
  /\ TriggerHandoff(provider.reply, "completed")
  /\ capture' = NoTurn

\* A request is under way already.
DuplicateHandoff ==
  LET t == provider.reply
  IN /\ Reads
     /\ t \in begun
     /\ requested
     /\ asks' = asks \cup {t}
     /\ capture' = NoTurn
     /\ modelDone' = modelDone \cup {t}
     /\ pending' = Without(t, pending)
     /\ committed' = RequestCommitted(t)
     /\ provider' = [provider EXCEPT !.reply = NoTurn, !.cut = FALSE, !.open = @ \ {t}]
     /\ UNCHANGED <<callVars, registered, callback, handoffVars, repairVars, output, begun,
                    playVars, buffers, fsDone, prefilled, closed, texts>>

\* FreeSWITCH's playback is broken off, and a thread asks call control for a
\* human.  _play_handoff_connecting_prompt has waited for an end of the prompt
\* that only the reader could hear, which is in this callback (DoubaoSession
\* shows it): it timed out, and the prompt is never put into the history.
RequestHuman ==
  /\ Transitioning
  /\ callback' = [callback EXCEPT !.at = "requesting"]
  /\ requested' = TRUE
  /\ requester' = "running"
  /\ UNCHANGED <<callVars, registered, provider, asks, repairVars, turnVars, playVars,
                 markVars, bookVars>>

\* The call is handed over, and the session is closed by its own callback.
HumanPromised ==
  /\ requester = "running"
  /\ requester' = "accepted"
  /\ IF callback.at = "requesting"
       THEN registered' = FALSE /\ provider' = ProviderClosed /\ callback' = NoCallback
       ELSE UNCHANGED <<registered, provider, callback>>
  /\ UNCHANGED <<callVars, asks, requested, repairVars, turnVars, playVars, markVars, bookVars>>

\* It is not.  If the callback has been cancelled meanwhile, nobody hears.
HumanRefused ==
  /\ requester = "running"
  /\ IF callback.at = "requesting"
       THEN requester' = "refused" /\ requested' = FALSE /\ Returned
       ELSE requester' = "refused_unheard" /\ UNCHANGED <<requested, provider, callback>>
  /\ UNCHANGED <<callVars, registered, asks, repairVars, turnVars, playVars, markVars, bookVars>>

-----------------------------------------------------------------------------
(* _run_interruption_repair                                                *)

Goes(r, from, to) == repairs[r] = from /\ repairs' = [repairs EXCEPT ![r] = to]

\* _clear_current_playback
RepairClears(r) ==
  /\ Goes(r, "created", IF registered THEN "locking" ELSE "breaking")
  /\ StopPlayback(pending, committed)
  /\ UNCHANGED <<handler, result, aiVars, handoffVars, repairing, lock, strained, capture,
                 begun, worker, fsOwes, texts>>

\* _restart_realtime_session_after_interruption gets realtime_lock and closes
\* the session that is current by now; it gives up if close raises.
RepairCloses(r) ==
  /\ lock = NoTurn
  /\ registered
  /\ IF CloseRaises
       THEN Goes(r, "locking", "breaking") /\ UNCHANGED <<lock, provider, callback>>
       ELSE Goes(r, "locking", "closing") /\ lock' = r /\ CloseProvider
  /\ UNCHANGED <<callVars, registered, asks, handoffVars, repairing, strained, turnVars, playVars,
                 markVars, bookVars>>

RepairFindsNone(r) ==
  /\ lock = NoTurn
  /\ ~registered
  /\ Goes(r, "locking", "breaking")
  /\ UNCHANGED <<callVars, aiVars, handoffVars, repairing, lock, strained, turnVars, playVars,
                 markVars, bookVars>>

RepairReplaces(r) ==
  /\ Goes(r, "closing", "connecting")
  /\ capture' = NoTurn
  /\ provider' = NewProvider(LastTurn)
  /\ registered' = TRUE
  /\ UNCHANGED <<callVars, callback, asks, handoffVars, repairing, lock, strained, output, begun,
                 playVars, markVars, bookVars>>

\* connect returns: from here on the reader runs.
RepairConnects(r) ==
  /\ Goes(r, "connecting", "replaying")
  /\ provider' = [provider EXCEPT !.link = "open"]
  /\ UNCHANGED <<callVars, registered, callback, asks, handoffVars, repairing, lock, strained,
                 turnVars, playVars, markVars, bookVars>>

\* _replay_repair_audio_locked: what was heard meanwhile has been sent.
RepairReplays(r) ==
  /\ Goes(r, "replaying", "breaking")
  /\ repairing' = FALSE
  /\ lock' = NoTurn
  /\ UNCHANGED <<callVars, aiVars, handoffVars, strained, turnVars, playVars, markVars, bookVars>>

\* Closing, connecting or replaying fails, or the eight seconds for all of it
\* are over.  A session that is connected stays.
RepairGivesUp(r) ==
  /\ repairs[r] \in Restarting \cup {"replaying"}
  /\ repairs' = [repairs EXCEPT ![r] = "breaking"]
  /\ lock' = IF lock = r THEN NoTurn ELSE lock
  /\ provider' = IF repairs[r] = "connecting" THEN ProviderClosed ELSE provider
  /\ UNCHANGED <<callVars, registered, callback, asks, handoffVars, repairing, strained, turnVars,
                 playVars, markVars, bookVars>>

\* Variant: only a repair that replayed the audio says that it is over.
RepairLeaves(r) ==
  /\ Goes(r, "breaking", "idle")
  /\ UNCHANGED <<callVars, aiVars, handoffVars, repairing, lock, strained, turnVars, playVars,
                 markVars, bookVars>>

\* FreeSWITCH's playback is broken off too, or a second has passed.
RepairEnds(r) ==
  /\ Goes(r, "breaking", "idle")
  /\ repairing' = FALSE
  /\ UNCHANGED <<callVars, aiVars, handoffVars, lock, strained, turnVars, playVars, markVars,
                 bookVars>>

Repair(r) ==
  \/ RepairClears(r) \/ RepairCloses(r) \/ RepairFindsNone(r)
  \/ RepairReplaces(r) \/ RepairConnects(r) \/ RepairReplays(r)
  \/ RepairGivesUp(r) \/ RepairEnds(r)

-----------------------------------------------------------------------------
(* _playback_worker and FreeSWITCH                                         *)

Waiting == [at |-> "waiting", held |-> <<>>]

\* The frames of a turn, which are all alike.
FramesOf(t, frames) == [i \in 1..Cardinality({j \in DOMAIN frames : frames[j] = t}) |-> t]

\* What the worker holds is sent frame by frame while its turn is the one that
\* plays; sending raises when the websocket is closed.
SendNext(frames, playsNow, openingNow) ==
  LET live == FramesOf(playsNow, frames)
  IN IF live = <<>>
       THEN /\ worker' = Waiting
            /\ playing' = FALSE
            /\ opening' = openingNow
            /\ UNCHANGED fsOwes
       ELSE \/ /\ worker' = [at |-> "sending", held |-> live]
               /\ playing' = TRUE
               /\ opening' = IF playsNow = Opening /\ openingNow = "queued" THEN "audible"
                             ELSE openingNow
               /\ fsOwes' = HasPlaybackControl
            \/ /\ handler # "connecting"
               /\ worker' = [at |-> "ended", held |-> <<>>]
               /\ playing' = FALSE
               /\ opening' = openingNow
               /\ UNCHANGED fsOwes

\* A frame of the turn that plays, or the end, is taken from the queue.
TakeFrame ==
  LET t == Head(queue)
  IN /\ worker.at = "waiting"
     /\ queue # <<>>
     /\ queue' = Tail(queue)
     /\ IF t \in prefilled /\ t = output THEN SendNext(<<t>>, output, opening)
        ELSE /\ worker' = IF t = End THEN [worker EXCEPT !.at = "ended"]
                          ELSE IF t # output THEN worker
                          ELSE [at |-> "prefilling", held |-> <<t>>]
             /\ UNCHANGED <<opening, playing, fsOwes>>
     /\ UNCHANGED <<handler, result, aiVars, handoffVars, repairVars, turnVars, markVars,
                    bookVars>>

Collecting == worker.at = "prefilling" /\ Len(worker.held) < PrefillFrames

\* Variant: the end is swallowed.
PrefillSwallowsEnd ==
  LET t == Head(queue)
      first == Head(worker.held)
  IN /\ Collecting
     /\ queue # <<>>
     /\ first \in modelDone => first = Opening
     /\ queue' = Tail(queue)
     /\ worker' = IF t = End THEN Waiting
                  ELSE IF t # output THEN worker
                  ELSE [worker EXCEPT !.held = Append(@, t)]
     /\ UNCHANGED <<callVars, aiVars, handoffVars, repairVars, turnVars, playing, fsOwes,
                    markVars, bookVars>>

\* _prefill_playback_frames takes one more, unless the model is done; the end
\* goes back into the queue.
PrefillFrame ==
  LET t == Head(queue)
      first == Head(worker.held)
  IN /\ Collecting
     /\ queue # <<>>
     /\ first \in modelDone => first = Opening
     /\ queue' = IF t = End THEN Append(Tail(queue), End) ELSE Tail(queue)
     /\ worker' = IF t = End THEN Waiting
                  ELSE IF t # output THEN worker
                  ELSE [worker EXCEPT !.held = Append(@, t)]
     /\ UNCHANGED <<callVars, aiVars, handoffVars, repairVars, turnVars, playing, fsOwes,
                    markVars, bookVars>>

\* There are enough, or no more are waited for.
Prefilled ==
  LET first == Head(worker.held)
  IN /\ worker.at = "prefilling"
     /\ Collecting /\ first = Opening /\ first \in modelDone => queue = <<>>
     /\ prefilled' = prefilled \cup {first}
     /\ SendNext(worker.held, output, opening)
     /\ UNCHANGED <<handler, result, aiVars, handoffVars, repairVars, turnVars, queue, buffers,
                    modelDone, fsDone, bookVars>>

\* The pause after a frame is over.  If nothing is queued behind it its turn
\* may be over, whatever the worker still holds.
FrameSent ==
  LET t == Head(worker.held)
      over == Over(t, FALSE, fsDone)
  IN /\ worker.at = "sending"
     /\ CompleteIfReady(t, FALSE, fsDone)
     /\ SendNext(Tail(worker.held), IF over THEN NoTurn ELSE output, OpeningAfter(over, t))
     /\ UNCHANGED <<handler, result, aiVars, handoffVars, repairVars, capture, begun, queue,
                    buffers, closed, texts>>

\* _handle_freeswitch_playback_event: whatever FreeSWITCH has played, the
\* turn that is playing by now has been.
QueueCompleted ==
  /\ fsOwes
  /\ fsOwes' = FALSE
  /\ IF handler # "done" /\ output # NoTurn
       THEN /\ CompleteIfReady(output, playing, fsDone \cup {output})
            /\ opening' = OpeningAfter(Over(output, playing, fsDone \cup {output}), output)
       ELSE UNCHANGED <<opening, output, modelDone, fsDone, prefilled, pending, committed>>
  /\ UNCHANGED <<handler, result, aiVars, handoffVars, repairVars, capture, begun, queue,
                 worker, playing, buffers, closed, texts>>

-----------------------------------------------------------------------------
Init ==
  /\ handler = "connecting" /\ opening = "none" /\ result = "none"
  /\ registered = TRUE
  /\ provider = NewProvider(0)
  /\ callback = NoCallback
  /\ asks = {}
  /\ requested = FALSE /\ requester = "none"
  /\ repairs = [r \in Repairs |-> "idle"]
  /\ repairing = FALSE /\ lock = NoTurn /\ strained = FALSE
  /\ capture = NoTurn /\ output = NoTurn /\ begun = {}
  /\ queue = <<>> /\ worker = Waiting /\ playing = FALSE /\ fsOwes = FALSE
  /\ buffers = {} /\ modelDone = {} /\ fsDone = {} /\ prefilled = {}
  /\ closed = {} /\ texts = {} /\ pending = {} /\ committed = <<>>

Handler ==
  \/ ConnectReturns \/ ConnectFails \/ StartOpening \/ BargeIn \/ AppendRaises \/ MediaCloses

Shutdown == ShutdownCloses \/ ShutdownJoins \/ ShutdownEnds

Callback ==
  \/ SpeechStarted \/ ProviderBreaks \/ InputEnds \/ AudioDelta \/ TurnCompleted
  \/ FinalizeTurn

Handoff ==
  \/ HumanAskedFor \/ HumanAskedForInTurn \/ DuplicateHandoff \/ RequestHuman
  \/ HumanPromised \/ HumanRefused

Worker ==
  \/ TakeFrame \/ PrefillFrame \/ Prefilled \/ FrameSent

Next ==
  \/ Handler \/ Shutdown \/ Callback \/ Handoff
  \/ \E r \in Repairs : Repair(r)
  \/ Worker \/ QueueCompleted

Spec == Init /\ [][Next]_vars

\* The event loop runs its tasks on: each of their awaits ends, if only by a
\* timeout.  Nothing is assumed of the provider, the customer or the requester.
FairSpec ==
  /\ Spec
  /\ WF_vars(Shutdown)
  /\ WF_vars(Worker)
  /\ \A r \in Repairs : WF_vars(Repair(r))

-----------------------------------------------------------------------------
(* Properties                                                              *)

TurnsOrNone == Turns \cup {NoTurn}
Played == Turns \cup {Opening}

\* What the customer hears is never of a turn that was given up, however late
\* its audio and its end arrive and however often the session is restarted,
\* as long as the call was not strained; and never the model's once a human is
\* on the way.
OnlyLiveAnswersSent ==
  [][worker'.at = "sending" /\ worker' # worker =>
       /\ output \notin closed \/ strained
       /\ output = Opening \/ ~requested]_vars

\* A turn is in the history once, whether the worker, FreeSWITCH, a repair or
\* a handoff put it there, and also when a restarted session counts anew, as
\* long as the call was not strained.
CommittedOnce ==
  strained \/ \A i, j \in DOMAIN committed : committed[i].turn = committed[j].turn => i = j

\* A result is left to the handoff only when a human was asked for and the
\* session has not heard a refusal.
DeferredToHandoff ==
  [][result' = "deferred" /\ result # "deferred" =>
       requester \in {"running", "accepted", "refused_unheard"}]_vars

\* A repair is always over in the end, and the customer is listened to again.
RepairIsOver == []<>~repairing

\* Once the media is gone the session is done with, and its result left to the
\* handoff or offered to the writer.  The code has two exceptions: the speech
\* connection has broken, and the shutdown fails with it; or a repair has
\* connected another speech session meanwhile, whose speech may clear the end
\* from the playback queue.
ShutdownIsOver ==
  handler = "closing" ~>
    \/ handler = "done" /\ result # "none"
    \/ handler = "failed" /\ provider.link = "broken"
    \/ handler = "joining" /\ provider.link = "open"
=============================================================================
