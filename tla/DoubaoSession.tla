--------------------------- MODULE DoubaoSession ---------------------------
(***************************************************************************)
(* DoubaoS2SServerVadSession (app/doubao_s2s_realtime.py): one connection  *)
(* to the speech provider.  A reader task turns the provider's events into *)
(* turns and runs the gateway's callbacks itself; a seed of the dialogue   *)
(* context and a direct text-to-speech request wait, under one lock, for   *)
(* the end of speech that only the reader delivers; anybody may close the  *)
(* session, the reader's own callbacks included.                           *)
(***************************************************************************)
EXTENDS Naturals, Sequences

CONSTANTS
  TurnIdStart,    \* turn_id_start: the last turn of the session it replaces
  MaxUtterances,  \* bound on what the customer says
  MaxWire,        \* bound on the events on their way
  ProviderInTime, \* no wait of eight seconds ends before the provider has spoken
  NoTurn          \* None

ASSUME BoundsAssumption ==
  /\ TurnIdStart \in Nat
  /\ MaxUtterances \in Nat
  /\ MaxWire \in Nat
  /\ ProviderInTime \in BOOLEAN
ASSUME NoTurnAssumption == NoTurn \notin Nat

\* What the provider says, and the events that tell of it and of the customer.
Sources == {"answer", "seed", "prompt"}
AsrEvents == {"asr", "asr_final", "asr_ended"}
ResponseEvents == {"response", "audio", "finished"}
Event == AsrEvents \cup ResponseEvents \cup {"idle", "session_finished"}

VARIABLES
  wire,       \* events the reader has not received (external)
  agenda,     \* what the provider has to say; it is saying the first (external)
  speaking,   \* it has begun to (external)
  utterance,  \* utterances begun, and whether one is going on (external)
  connected,  \* self._session is not None
  reader,     \* where _read_events stands: in which callback, for which turn
  lock,       \* who holds _session_restart_lock
  next,       \* _next_turn_id
  input,      \* _active_input_turn_id
  response,   \* _active_response_turn_id
  awaiting,   \* _awaiting_response_turn_ids
  turns,      \* keys of _turns
  invalid,    \* turns whose state is invalidated
  seed,       \* the task in seed_assistant_context
  seedDone,   \* _pending_context_seed_finished has a result
  suppress,   \* _late_context_seed_suppression_active
  prompt,     \* the send_tts_text of a handoff
  heard,      \* turns whose audio went to on_audio_delta
  completed   \* turns passed to on_turn_completed, in order

provider == <<wire, agenda, speaking, utterance>>
turnVars == <<next, input, response, awaiting, turns, invalid>>
seedVars == <<seed, seedDone, suppress>>
told     == <<heard, completed>>
vars == <<provider, connected, reader, lock, turnVars, seedVars, prompt, told>>

Stand(at, turn, then) == [at |-> at, turn |-> turn, then |-> then, handoff |-> "none"]
Reading == Stand("reading", NoTurn, "reading")
Ended   == Stand("ended", NoTurn, "ended")
Broken  == Stand("ended", NoTurn, "broken") \* by what close does not suppress

-----------------------------------------------------------------------------
(* The provider and the customer (external)                                *)

Emit(e) == Len(wire) < MaxWire /\ wire' = Append(wire, e)

\* Recognition of an utterance begins or goes on.
Recognise ==
  /\ ~utterance.going => utterance.count < MaxUtterances
  /\ utterance' = IF utterance.going THEN utterance
                  ELSE [count |-> utterance.count + 1, going |-> TRUE]
  /\ Emit("asr") \/ Emit("asr_final")
  /\ UNCHANGED <<agenda, speaking>>

\* The utterance is over and will be answered; its end may stay unsaid.
EndUtterance ==
  /\ utterance.going
  /\ utterance' = [utterance EXCEPT !.going = FALSE]
  /\ agenda' = Append(agenda, "answer")
  /\ Emit("asr_ended") \/ UNCHANGED wire
  /\ UNCHANGED speaking

Speak ==
  /\ agenda # <<>>
  /\ speaking' = TRUE
  /\ Emit("response") \/ Emit("audio")
  /\ UNCHANGED <<agenda, utterance>>

FinishSpeaking ==
  /\ speaking
  /\ Emit("finished")
  /\ agenda' = Tail(agenda)
  /\ speaking' = FALSE
  /\ UNCHANGED utterance

\* DialogAudioIdleTimeoutError, or the end of the provider's session.
EndSession ==
  /\ agenda = <<>>
  /\ ~utterance.going
  /\ Emit("idle") \/ Emit("session_finished")
  /\ UNCHANGED <<agenda, speaking, utterance>>

Provider ==
  /\ connected
  /\ reader.at # "ended" \* nobody reads any more
  /\ Recognise \/ EndUtterance \/ Speak \/ FinishSpeaking \/ EndSession
  /\ UNCHANGED <<connected, reader, lock, turnVars, seedVars, prompt, told>>

-----------------------------------------------------------------------------
(* Turns                                                                   *)

\* _invalidate_active_response
Invalidated == invalid \cup ({response} \cap turns)

\* Stale turns are skipped: the first turn awaiting an answer that still exists.
Live(i) == awaiting[i] \in turns /\ \A j \in 1..(i - 1) : awaiting[j] \notin turns

\* No turn awaits an answer: the answer is to the turn still being spoken, or
\* begins a turn nobody has asked for.
AnswerUnasked(t) ==
  /\ \A i \in DOMAIN awaiting : awaiting[i] \notin turns
  /\ awaiting' = <<>>
  /\ input' = NoTurn
  /\ IF input # NoTurn THEN t = input /\ next' = next
                       ELSE t = next + 1 /\ next' = next + 1
  /\ turns' = turns \cup {t}

\* Variant: any turn that waits may be answered.
EnsureAnyResponse(t) ==
  IF response \in turns
    THEN t = response /\ UNCHANGED <<next, input, response, awaiting, turns>>
    ELSE /\ response' = t
         /\ \/ /\ \E i \in DOMAIN awaiting :
                   /\ t = awaiting[i]
                   /\ awaiting' = SelectSeq(awaiting, LAMBDA u : u # t)
              /\ UNCHANGED <<next, input, turns>>
            \/ AnswerUnasked(t)

\* _ensure_response_turn: the active response, even if it was interrupted;
\* else the oldest turn that waits, the turn still being spoken, or a new one.
EnsureResponse(t) ==
  IF response \in turns
    THEN t = response /\ UNCHANGED <<next, input, response, awaiting, turns>>
    ELSE /\ response' = t
         /\ \/ /\ \E i \in DOMAIN awaiting :
                   /\ Live(i)
                   /\ t = awaiting[i]
                   /\ awaiting' = SubSeq(awaiting, i + 1, Len(awaiting))
              /\ UNCHANGED <<next, input, turns>>
            \/ AnswerUnasked(t)

\* _mark_input_finished
FinishInput(t) ==
  /\ awaiting' = IF \E i \in DOMAIN awaiting : awaiting[i] = t THEN awaiting
                 ELSE Append(awaiting, t)
  /\ input' = IF input = t THEN NoTurn ELSE input

\* close: nothing of the turns is left.
ForgetTurns ==
  /\ turns' = {}
  /\ awaiting' = <<>>
  /\ input' = NoTurn
  /\ response' = NoTurn
  /\ UNCHANGED <<next, invalid>>

-----------------------------------------------------------------------------
(* _read_events                                                            *)

Seeding == seed = "waiting"

Receive(e) ==
  /\ reader.at = "reading"
  /\ connected
  /\ wire # <<>>
  /\ e = Head(wire)
  /\ wire' = Tail(wire)
  /\ UNCHANGED <<agenda, speaking, utterance, connected, lock, prompt>>

\* _handle_context_seed_event: during a seed every event but the end of
\* speech is dropped, and any end of speech is taken for the seed's.
DropWhileSeeding ==
  \E e \in Event :
    /\ Receive(e)
    /\ e \notin {"idle", "session_finished"}
    /\ Seeding
    /\ seedDone' = (seedDone \/ e = "finished")
    /\ UNCHANGED <<reader, turnVars, seed, suppress, told>>

\* _suppress_late_context_seed_event
SuppressLateSeed ==
  \E e \in Event :
    /\ Receive(e)
    /\ e \in ResponseEvents
    /\ ~Seeding /\ suppress
    /\ suppress' = (e # "finished")
    /\ UNCHANGED <<reader, turnVars, seed, seedDone, told>>

\* Its window of fifteen seconds is over.
SuppressionExpires ==
  /\ suppress
  /\ suppress' = FALSE
  /\ UNCHANGED <<provider, connected, reader, lock, turnVars, seed, seedDone, prompt, told>>

\* _notify_input_transcript of turn t, unless the text is empty or known,
\* and what follows it.
Notify(t, then) ==
  reader' = Stand("transcript", t, then)

\* _handle_asr_event: the first one of an utterance opens a turn and
\* interrupts the response.
HandleAsr ==
  \E e \in Event :
    /\ Receive(e)
    /\ e \in {"asr", "asr_final"}
    /\ ~Seeding
    /\ suppress' = FALSE
    /\ IF input \in turns
         THEN /\ reader' = reader \/ (e = "asr_final" /\ Notify(input, "reading"))
              /\ UNCHANGED turnVars
         ELSE /\ invalid' = Invalidated
              /\ next' = next + 1
              /\ turns' = turns \cup {next + 1}
              /\ input' = next + 1
              /\ reader' = Stand("started", next + 1, IF e = "asr_final" THEN "transcript" ELSE "reading")
              /\ UNCHANGED <<response, awaiting>>
    /\ UNCHANGED <<seed, seedDone, told>>

\* on_speech_started returns.
StartedReturns ==
  /\ reader.at = "started"
  /\ \/ reader' = Reading
     \/ reader.then = "transcript" /\ Notify(reader.turn, "reading")
  /\ UNCHANGED <<provider, connected, lock, turnVars, seedVars, prompt, told>>

\* _handle_asr_ended
HandleAsrEnded ==
  \E e \in Event :
    /\ Receive(e)
    /\ e = "asr_ended"
    /\ ~Seeding
    /\ suppress' = FALSE
    /\ \/ input \notin turns /\ UNCHANGED <<reader, turnVars>>
       \/ input \in turns /\ Notify(input, "finish_input") /\ UNCHANGED turnVars
       \/ /\ input \in turns
          /\ FinishInput(input)
          /\ UNCHANGED <<reader, next, response, turns, invalid>>
    /\ UNCHANGED <<seed, seedDone, told>>

HandingOver == reader.handoff # "none"

\* on_input_transcript returns, maybe after it has closed the session.
TranscriptReturns ==
  /\ reader.at = "transcript"
  /\ ~HandingOver
  /\ reader' = Reading
  /\ IF reader.then = "finish_input"
       THEN FinishInput(reader.turn) /\ UNCHANGED <<next, response, turns, invalid>>
       ELSE UNCHANGED turnVars
  /\ UNCHANGED <<provider, connected, lock, seedVars, prompt, told>>

\* _handle_response_event and _handle_audio_delta
HandleAudio ==
  \E e \in Event :
    /\ Receive(e)
    /\ e \in {"response", "audio"}
    /\ ~Seeding /\ ~suppress
    /\ \E t \in 0..(next + 1) :
         /\ EnsureResponse(t)
         /\ heard' = IF e = "audio" /\ t \notin invalid
                     THEN heard \cup {t} ELSE heard
    /\ UNCHANGED <<reader, invalid, seedVars, completed>>

\* _handle_response_done: the result goes to on_turn_completed before the
\* turn is dropped.
HandleFinished ==
  \E e \in Event :
    /\ Receive(e)
    /\ \/ e = "session_finished"
       \/ e = "finished" /\ ~Seeding /\ ~suppress
    /\ IF response \in turns
         THEN /\ completed' = Append(completed, response)
              /\ reader' = Stand("completing", response, "reading")
         ELSE UNCHANGED <<reader, completed>>
    /\ UNCHANGED <<turnVars, seedVars, heard>>

\* An idle timeout completes the response that has been heard; it ends the reader.
HandleIdle ==
  \E e \in Event :
    /\ Receive(e)
    /\ e = "idle"
    /\ IF response \in turns \cap heard
         THEN /\ completed' = Append(completed, response)
              /\ reader' = Stand("completing", response, "ended")
         ELSE reader' = Ended /\ UNCHANGED completed
    /\ UNCHANGED <<turnVars, seedVars, heard>>

\* on_turn_completed returns; whoever waits for a direct text to be spoken
\* is told, whatever was spoken.
CompletedReturns ==
  /\ reader.at = "completing"
  /\ ~HandingOver
  /\ prompt' = IF prompt = "waiting" THEN "spoken" ELSE prompt
  /\ response' = IF response = reader.turn THEN NoTurn ELSE response
  /\ turns' = turns \ {reader.turn}
  /\ reader' = IF reader.then = "ended" THEN Ended ELSE Reading
  /\ UNCHANGED <<provider, connected, lock, next, input, awaiting, invalid, seedVars, told>>

\* The provider reports an error, the session is gone, or the connection
\* breaks: the reader ends.
ReaderEnds ==
  /\ reader.at = "reading"
  /\ reader' = Ended \/ (connected /\ reader' = Broken)
  /\ UNCHANGED <<provider, connected, lock, turnVars, seedVars, prompt, told>>

-----------------------------------------------------------------------------
(* A handoff, run by the gateway inside a callback of the reader            *)

\* The gateway cancels the response and has the connecting prompt spoken:
\* cancel_response, then send_tts_text, which waits for the lock.
HandOver ==
  /\ reader.at \in {"transcript", "completing"}
  /\ prompt = "none" \* bound: one handoff
  /\ ~HandingOver
  /\ invalid' = Invalidated
  /\ reader' = [reader EXCEPT !.handoff = "lock"]
  /\ UNCHANGED <<provider, connected, lock, next, input, response, awaiting, turns,
                 seedVars, prompt, told>>

SendPrompt ==
  /\ reader.handoff = "lock"
  /\ lock = "free"
  /\ lock' = "reader"
  /\ prompt' = "waiting"
  /\ agenda' = Append(agenda, "prompt")
  /\ reader' = [reader EXCEPT !.handoff = "speaking"]
  /\ UNCHANGED <<wire, speaking, utterance, connected, turnVars, seedVars, told>>

\* Variant: nothing bounds the wait.
AwaitPromptForEver ==
  /\ reader.handoff = "speaking"
  /\ prompt = "spoken"
  /\ lock' = "free"
  /\ reader' = [reader EXCEPT !.handoff = "requesting"]
  /\ UNCHANGED <<provider, connected, turnVars, seedVars, prompt, told>>

\* send_tts_text returns, or its eight seconds are over (ten with the wait for
\* the lock); the callback goes on all the same.
AwaitPrompt ==
  /\ reader.handoff \in {"lock", "speaking"}
  /\ ProviderInTime /\ prompt # "spoken" =>
       /\ reader.handoff = "speaking"
       /\ \A i \in DOMAIN agenda : agenda[i] # "prompt"
  /\ prompt' = IF prompt = "spoken" THEN prompt ELSE "timed_out"
  /\ lock' = IF lock = "reader" THEN "free" ELSE lock
  /\ reader' = [reader EXCEPT !.handoff = "requesting"]
  /\ UNCHANGED <<provider, connected, turnVars, seedVars, told>>

\* The requester fails, and the callback returns into the session.
HandoffFails ==
  /\ reader.handoff = "requesting"
  /\ reader' = [reader EXCEPT !.handoff = "none"]
  /\ UNCHANGED <<provider, connected, lock, turnVars, seedVars, prompt, told>>

\* It succeeds, and the callback closes the session it was called from.
CloseFromCallback ==
  /\ reader.handoff = "requesting"
  /\ connected' = FALSE
  /\ ForgetTurns
  /\ reader' = [reader EXCEPT !.handoff = "none"]
  /\ UNCHANGED <<provider, lock, seedVars, prompt, told>>

-----------------------------------------------------------------------------
(* Other tasks                                                             *)

\* seed_assistant_context takes the lock and says the text.
StartSeed ==
  /\ seed = "none"
  /\ connected
  /\ lock = "free"
  /\ lock' = "seed"
  /\ seed' = "waiting"
  /\ agenda' = Append(agenda, "seed")
  /\ UNCHANGED <<wire, speaking, utterance, connected, reader, turnVars, seedDone,
                 suppress, prompt, told>>

SeedCompletes ==
  /\ Seeding
  /\ seedDone
  /\ seed' = "completed"
  /\ suppress' = FALSE
  /\ lock' = "free"
  /\ UNCHANGED <<provider, connected, reader, turnVars, seedDone, prompt, told>>

\* Its eight seconds are over, or its task is cancelled.
SeedFails ==
  /\ Seeding
  /\ seed' = "failed"
  /\ suppress' = TRUE
  /\ lock' = "free"
  /\ UNCHANGED <<provider, connected, reader, turnVars, seedDone, prompt, told>>

\* handle_playback_interruption; the provider may then drop what it says.
Interrupt ==
  /\ connected
  /\ lock = "free"
  /\ invalid' = Invalidated
  /\ \/ UNCHANGED <<agenda, speaking>>
     \/ speaking /\ agenda' = Tail(agenda) /\ speaking' = FALSE
  /\ UNCHANGED <<wire, utterance, connected, reader, lock, next, input, response,
                 awaiting, turns, seedVars, prompt, told>>

\* Variant: close does not wait for the reader.
CloseBesideReader ==
  /\ connected /\ reader # Broken
  /\ connected' = FALSE
  /\ ForgetTurns
  /\ UNCHANGED <<provider, reader, lock, seedVars, prompt, told>>

\* close by a task other than the reader, which is cancelled wherever it is.
\* If it died of a broken connection, close raises that and changes nothing.
Close ==
  /\ connected /\ reader # Broken
  /\ connected' = FALSE
  /\ reader' = Ended
  /\ lock' = IF lock = "reader" THEN "free" ELSE lock
  /\ ForgetTurns
  /\ UNCHANGED <<provider, seedVars, prompt, told>>

-----------------------------------------------------------------------------
Init ==
  /\ wire = <<>>
  /\ agenda = <<>>
  /\ speaking = FALSE
  /\ utterance = [count |-> 0, going |-> FALSE]
  /\ connected = TRUE
  /\ reader = Reading
  /\ lock = "free"
  /\ next = TurnIdStart
  /\ input = NoTurn
  /\ response = NoTurn
  /\ awaiting = <<>>
  /\ turns = {}
  /\ invalid = {}
  /\ seed = "none"
  /\ seedDone = FALSE
  /\ suppress = FALSE
  /\ prompt = "none"
  /\ heard = {}
  /\ completed = <<>>

ReadEvent ==
  \/ DropWhileSeeding \/ SuppressLateSeed
  \/ HandleAsr \/ HandleAsrEnded
  \/ HandleAudio \/ HandleFinished \/ HandleIdle

CallbackReturns == StartedReturns \/ TranscriptReturns \/ CompletedReturns

Handoff ==
  \/ HandOver \/ SendPrompt \/ AwaitPrompt
  \/ HandoffFails \/ CloseFromCallback

Next ==
  \/ Provider
  \/ ReadEvent \/ CallbackReturns \/ ReaderEnds
  \/ Handoff
  \/ StartSeed \/ SeedCompletes \/ SeedFails \/ SuppressionExpires
  \/ Interrupt \/ Close

Spec == Init /\ [][Next]_vars

\* The waits are bounded by asyncio.wait_for.
FairSpec ==
  /\ Spec
  /\ WF_vars(AwaitPrompt)
  /\ WF_vars(SeedCompletes \/ SeedFails)

-----------------------------------------------------------------------------
(* Properties                                                              *)

TurnIds == Nat \ {0}

Idle == [at : {"reading", "ended"}, turn : {NoTurn},
         then : {"reading", "ended", "broken"}, handoff : {"none"}]
InCallback == [at : {"started", "transcript", "completing"}, turn : TurnIds,
               then : {"reading", "transcript", "finish_input", "ended"},
               handoff : {"none", "lock", "speaking", "requesting"}]

\* Every variable has the type the code gives it.
TypeOK ==
  /\ wire \in Seq(Event)
  /\ agenda \in Seq(Sources) /\ (speaking => agenda # <<>>)
  /\ speaking \in BOOLEAN /\ connected \in BOOLEAN
  /\ utterance \in [count : Nat, going : BOOLEAN]
  /\ reader \in Idle \cup InCallback
  /\ lock \in {"free", "seed", "reader"}
  /\ next \in Nat
  /\ input \in TurnIds \cup {NoTurn} /\ response \in TurnIds \cup {NoTurn}
  /\ awaiting \in Seq(TurnIds)
  /\ turns \in SUBSET TurnIds /\ invalid \in SUBSET TurnIds
  /\ seed \in {"none", "waiting", "completed", "failed"}
  /\ seedDone \in BOOLEAN /\ suppress \in BOOLEAN
  /\ prompt \in {"none", "waiting", "spoken", "timed_out"}
  /\ heard \in SUBSET TurnIds
  /\ completed \in Seq(TurnIds)

\* Turns are completed in the order they began, each once, however answers,
\* interruptions, missing ends of speech and seeds interleave: the gateway
\* commits a turn to the history when it is told that it is complete.
CompletedInOrder ==
  \A i, j \in DOMAIN completed : i < j => completed[i] < completed[j]

\* Once close has let go of the connection, no callback of the gateway is
\* begun: a shut down phone session is not told of another turn.
NoCallbackAfterClose ==
  [][~connected =>
       /\ UNCHANGED told
       /\ reader'.at # reader.at => reader'.at \in {"reading", "ended"}]_vars

\* The lock on which the customer's audio waits is always given back: a
\* prompt sent by a callback waits for the reader that runs the callback, and
\* a seed for an end of speech that may never come.
LockReleased == lock # "free" ~> lock = "free"

\* What test_realtime_gateway_triggers_handoff_and_suppresses_model_output
\* asserts with a fake session: the connecting prompt is spoken before the
\* handoff is requested, if the provider speaks in time.
ConnectingPromptSpoken == reader.handoff = "requesting" => prompt = "spoken"
=============================================================================
