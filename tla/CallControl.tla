---------------------------- MODULE CallControl ----------------------------
(***************************************************************************)
(* One outbound call as OutboundCallManager (app/call_control.py) drives   *)
(* it: the originate worker, the hangup workers, the Event Socket          *)
(* listener, the media callbacks, the human handoff (request, claim,       *)
(* timeout, release, recording, transcript) and the call_record row and    *)
(* the flow callbacks these threads produce.                               *)
(*                                                                         *)
(* Every block the code runs under OutboundCallManager._lock is one        *)
(* action; every call that leaves the process (Event Socket, PostgreSQL,   *)
(* the result writer) ends one action, so that all other threads may run   *)
(* before the next.  Worker threads of the executor are anonymous: "work"  *)
(* counts, for each kind of step, the threads whose next step is of that   *)
(* kind.  FreeSWITCH, the result queue and the media gateway are external  *)
(* and are modelled by the replies and calls the manager sees.             *)
(***************************************************************************)
EXTENDS Naturals, Sequences

CONSTANTS
  Agents,               \* agent softphones that may claim the handoff
  NoAgent,              \* handoff.agent_uuid is None
  Causes,               \* hangup causes of a call that is never answered
  MaxHandoffs,          \* bound: accepted handoff requests
  MaxHangups,           \* bound: hangup requests over HTTP
  MaxPosts,             \* bound: POST /handoff/transcript calls
  RecordingEnabled,     \* features.recording_enabled
  TranscriptProcessor,  \* a handoff_transcript_processor is configured
  HttpHandoff,          \* handoffs are also requested over HTTP
  Faults                \* sockets and database calls may fail or time out

AllCauses == {"normal", "busy", "no_answer", "originator_cancel", "other"}

ASSUME AgentsAssumption == NoAgent \notin Agents
ASSUME CausesAssumption == Causes \subseteq AllCauses
ASSUME BoundsAssumption ==
  MaxHandoffs \in Nat /\ MaxHangups \in Nat /\ MaxPosts \in Nat
ASSUME SwitchesAssumption ==
  {RecordingEnabled, TranscriptProcessor, HttpHandoff, Faults} \subseteq BOOLEAN

VARIABLES
  status,    \* record.status
  engaged,   \* record.answered_at_ms or record.media_connected_at_ms is set
  handoff,   \* record.handoff; state "none" stands for None
  gen,       \* handoff requests accepted so far
  orig,      \* next step of the originate worker
  work,      \* number of executor threads about to take each kind of step
  sweep,     \* agent legs an agent-cleanup worker is about to hang up
  listener,  \* what the event listener still has to do after the lock, and
             \* (history) how often it has had recordings stopped
  claim,     \* the HTTP thread of each agent's claim
  unsched,   \* request_handoff threads that have yet to arm their timer
  timers,    \* armed threading.Timers, by handoff request
  entry,     \* the timer registered in _handoff_timeout_timers, 0 for none
  saving,    \* complete_handoff_transcript between its lock and the enqueue
  hangups,   \* request_hangup calls so far
  posts,     \* transcript posts so far
  results,   \* payloads queued for the call-result writer
  db,        \* call_record.status in PostgreSQL
  sent,      \* terminal flow callbacks published, by origin
  chan,      \* the customer's FreeSWITCH channel
  cause,     \* its hangup cause
  evq,       \* channel events on the way to the listener
  leg,       \* the FreeSWITCH channel of each agent
  media      \* the call's media session in the realtime gateway

recVars   == <<status, engaged, handoff, gen>>
timerVars == <<unsched, timers, entry>>
bookVars  == <<db, sent, results>>
fsVars    == <<chan, cause, evq, leg>>
vars == <<recVars, orig, work, sweep, listener, claim, timerVars, saving,
          hangups, posts, bookVars, fsVars, media>>

-----------------------------------------------------------------------------
(* The record                                                              *)

TerminalStatuses ==
  {"completed", "failed", "busy", "no_answer", "canceled", "hangup_failed"}
InactiveStatuses == TerminalStatuses \cup {"hangup_requested", "hangup_sent"}
Statuses == InactiveStatuses \cup
  {"queued", "originating", "originated", "ringing", "answered",
   "media_connected", "waiting_agent", "agent_claimed", "agent_ringing",
   "bridging", "human_active", "handoff_failed"}

Connecting == {"agent_claimed", "agent_ringing", "bridging"}
Unbridged  == Connecting \cup {"waiting_agent"}
HandoffStates ==
  Unbridged \cup {"none", "human_active", "completed", "handoff_failed"}
RecordingStatuses ==
  {"none", "disabled", "recording", "stopping", "completed", "failed"}
TranscriptStatuses == {"none", "pending", "processing", "completed", "failed"}

Handoffs == [state : HandoffStates, agent : Agents \cup {NoAgent},
             recording : RecordingStatuses, transcript : TranscriptStatuses,
             callback : {"none", "FAILED"}, expired : BOOLEAN]

Handoff(state) == [state |-> state, agent |-> NoAgent, recording |-> "none",
                   transcript |-> "none", callback |-> "none",
                   expired |-> FALSE]

\* _terminal_status_for_cause
TerminalStatusForCause(c, isEngaged) ==
  CASE c = "normal"            -> IF isEngaged THEN "completed" ELSE "canceled"
    [] c = "busy"              -> "busy"
    [] c = "no_answer"         -> "no_answer"
    [] c = "originator_cancel" -> "canceled"
    [] OTHER                   -> "failed"

\* Variant: only an unanswered call reaches the database.
SyncNoAnswerOnly(st) == IF st = "no_answer" THEN "3" ELSE "none"

\* _sync_call_record_terminal: the update the listener owes the database
SyncFor(st) ==
  CASE st = "no_answer" -> "3"
    [] st = "completed" -> "none"
    [] OTHER            -> "2"

\* _handoff_customer_inactive_error is not None
CustomerInactive ==
  status \in InactiveStatuses \/ handoff.state \notin Connecting

\* Variant: a handoff an agent is already being connected to is claimed too.
ClaimableAgain == status \notin InactiveStatuses /\ handoff.state \in Unbridged

\* claim_handoff accepts
Claimable == status \notin InactiveStatuses /\ handoff.state = "waiting_agent"

\* Variant: terminal_callback_status is not looked at.
TranscriptFailureAlwaysDue(h) == h.state = "completed" /\ h.transcript = "failed"

\* _handoff_failed_callback_locked: this handoff now owes its only callback
TranscriptFailureDue(h) ==
  h.state = "completed" /\ h.transcript = "failed" /\ h.callback = "none"

\* Variant: a completed call needs no failure callback.
ConnectionFailureOfFailedCall(h, st) ==
  /\ h.state = "handoff_failed"
  /\ st \in TerminalStatuses \ {"completed"}
  /\ h.callback = "none"

\* _handoff_connection_failed_callback_locked
ConnectionFailureDue(h, st) ==
  /\ h.state = "handoff_failed"
  /\ st \in TerminalStatuses
  /\ h.callback = "none"

-----------------------------------------------------------------------------
(* Executor threads and flow callbacks                                     *)

WorkKinds ==
  {"cancel_kill",     \* request_hangup after its lock: cancel timer, submit
   "kill",            \* _hangup about to send uuid_kill
   "kill_ok",         \* _hangup with an accepted reply
   "kill_err",        \* _hangup with "-ERR No such channel"
   "crash",           \* the worker's exception handler: _mark_failed
   "sync_failed",     \* _sync_call_record_failed and its callback
   "notice",          \* _play_handoff_failure_notice_then_hangup
   "stop_recording",  \* _stop_handoff_recording
   "submit_asr",      \* _maybe_submit_handoff_transcript_processor
   "transcribe",      \* _run_handoff_transcript_processor_worker
   "asr_failed"}      \* _mark_handoff_transcript_failed

Origins == {"call_failed",     \* "FAILED" gated by a call_record update
            "handoff_failed",  \* "FAILED" gated by terminal_callback_status
            "success",         \* "SUCCESS" gated by a call_record update
            "result_failed"}   \* "FAILED" of the result writer, not gated

Submit(kind) == work' = [work EXCEPT ![kind] = @ + 1]
\* Variant: a worker finishes that was never counted.
FinishUncounted(kind) == work' = [work EXCEPT ![kind] = @ - 1]

Finish(kind) == work[kind] > 0 /\ work' = [work EXCEPT ![kind] = @ - 1]
Advance(kind, next) ==
  /\ work[kind] > 0
  /\ work' = [work EXCEPT ![kind] = @ - 1, ![next] = @ + 1]

Publish(origin) == sent' = [sent EXCEPT ![origin] = @ + 1]

\* Variant: the transcript fails without the callback.
SetHandoffSilently(h) == handoff' = h /\ UNCHANGED sent

\* handoff' = h, with the transcript-failure callback when h owes one.
\* The callback is marked under the lock and published right after it.
SetHandoff(h) ==
  IF TranscriptFailureDue(h)
    THEN handoff' = [h EXCEPT !.callback = "FAILED"] /\ Publish("handoff_failed")
    ELSE handoff' = h /\ UNCHANGED sent

\* Variant: the update has no status in ('0', '1').
UpdateAnyRow(to) == db' = to

\* One guarded update of the call_record row, status in ('0', '1').
UpdateRow(to) == db \in {"0", "1"} /\ db' = to

\* _cancel_handoff_timeout.  A timer that is already running is not stopped.
CancelTimer ==
  /\ entry' = 0
  /\ \/ timers' = timers \ {entry}
     \/ handoff.expired /\ entry = gen /\ UNCHANGED timers

\* _schedule_handoff_timeout
ScheduleTimer(g) ==
  /\ timers' = (timers \ {entry}) \cup {g}
  /\ entry' = g

-----------------------------------------------------------------------------
(* The customer's FreeSWITCH channel (external)                            *)

Live == chan \in {"dialing", "alerting", "up"}

\* The channel ends: FreeSWITCH emits CHANNEL_HANGUP and _HANGUP_COMPLETE.
EndChannel(c) ==
  /\ chan' = IF chan = "up" THEN "ended" ELSE "failed"
  /\ cause' = c
  /\ evq' = evq \o <<"hangup", "hangup_complete">>

ChannelAlerts ==
  /\ chan = "dialing"
  /\ chan' = "alerting"
  /\ evq' = Append(evq, "progress")
  /\ UNCHANGED <<recVars, orig, work, sweep, listener, claim, timerVars, saving,
                 hangups, posts, bookVars, cause, leg, media>>

ChannelAnswers ==
  /\ chan \in {"dialing", "alerting"}
  /\ chan' = "up"
  /\ evq' = Append(evq, "answer")
  /\ UNCHANGED <<recVars, orig, work, sweep, listener, claim, timerVars, saving,
                 hangups, posts, bookVars, cause, leg, media>>

ChannelFails ==
  /\ chan \in {"dialing", "alerting"}
  /\ \E c \in Causes : EndChannel(c)
  /\ UNCHANGED <<recVars, orig, work, sweep, listener, claim, timerVars, saving,
                 hangups, posts, bookVars, leg, media>>

CustomerHangsUp ==
  /\ chan = "up"
  /\ \E c \in {"normal", "other"} : EndChannel(c)
  /\ UNCHANGED <<recVars, orig, work, sweep, listener, claim, timerVars, saving,
                 hangups, posts, bookVars, leg, media>>

\* The agent closes the softphone; leaving a bridge ends the customer's leg.
AgentHangsUp(a) ==
  /\ leg[a] # "none"
  /\ leg' = [leg EXCEPT ![a] = "none"]
  /\ IF leg[a] = "bridged" /\ chan = "up"
       THEN EndChannel("normal")
       ELSE UNCHANGED <<chan, cause, evq>>
  /\ UNCHANGED <<recVars, orig, work, sweep, listener, claim, timerVars, saving,
                 hangups, posts, bookVars, media>>

\* The listener's socket breaks: _event_listener_loop reconnects and the
\* events of the meantime never reach it.
EventsLost ==
  /\ Faults
  /\ evq # <<>>
  /\ evq' = <<>>
  /\ UNCHANGED <<recVars, orig, work, sweep, listener, claim, timerVars, saving,
                 hangups, posts, bookVars, chan, cause, leg, media>>

-----------------------------------------------------------------------------
(* The originate worker                                                    *)

OriginateStarts ==
  /\ orig = "queued"
  /\ status' = "originating"
  /\ orig' = "mark_started"
  /\ UNCHANGED <<engaged, handoff, gen, work, sweep, listener, claim, timerVars,
                 saving, hangups, posts, bookVars, fsVars, media>>

MarkStarted ==
  /\ orig = "mark_started"
  /\ UpdateRow("1") \/ ((Faults \/ db \notin {"0", "1"}) /\ UNCHANGED db)
  /\ orig' = "resolve"
  /\ UNCHANGED <<recVars, work, sweep, listener, claim, timerVars, saving,
                 hangups, posts, sent, results, fsVars, media>>

\* resolve_endpoint: FreeSWITCH knows the contact, rejects it, or is unreachable.
ResolveEndpoint ==
  /\ orig = "resolve"
  /\ \/ /\ orig' = "dial"
        /\ UNCHANGED <<recVars, work>>
     \/ /\ orig' = "done"
        /\ status' = "failed"
        /\ Submit("sync_failed")
        /\ UNCHANGED <<engaged, handoff, gen>>
     \/ /\ Faults
        /\ orig' = "done"
        /\ Submit("crash")
        /\ UNCHANGED recVars
  /\ UNCHANGED <<sweep, listener, claim, timerVars, saving, hangups, posts,
                 bookVars, fsVars, media>>

DialCustomer ==
  /\ orig = "dial"
  /\ chan' = "dialing"
  /\ orig' = "answering"
  /\ UNCHANGED <<recVars, work, sweep, listener, claim, timerVars, saving,
                 hangups, posts, bookVars, cause, evq, leg, media>>

\* The originate call returns: +OK once answered, -ERR if it never was, and
\* an exception if the socket breaks while FreeSWITCH goes on dialing.
OriginateReturns ==
  /\ orig = "answering"
  /\ orig' = "done"
  /\ \/ /\ chan \in {"up", "ended"}
        /\ status' = IF status \in {"originating", "queued"}
                       THEN "originated" ELSE status
        /\ UNCHANGED work
     \/ /\ chan = "failed"
        /\ status' = "failed"
        /\ Submit("sync_failed")
     \/ /\ Faults
        /\ Submit("crash")
        /\ UNCHANGED status
  /\ UNCHANGED <<engaged, handoff, gen, sweep, listener, claim, timerVars,
                 saving, hangups, posts, bookVars, fsVars, media>>

\* _mark_failed
WorkerCrash ==
  /\ Advance("crash", "sync_failed")
  /\ status' = "failed"
  /\ UNCHANGED <<engaged, handoff, gen, orig, sweep, listener, claim, timerVars,
                 saving, hangups, posts, bookVars, fsVars, media>>

\* _sync_call_record_failed, and the FAILED callback if it changed the row.
\* A lost connection leaves the row alone; a timeout may leave it updated.
SyncFailed ==
  /\ Finish("sync_failed")
  /\ \/ UpdateRow("2") /\ Publish("call_failed")
     \/ Faults /\ UpdateRow("2") /\ UNCHANGED sent
     \/ (Faults \/ db \notin {"0", "1"}) /\ UNCHANGED <<db, sent>>
  /\ UNCHANGED <<recVars, orig, sweep, listener, claim, timerVars, saving,
                 hangups, posts, results, fsVars, media>>

-----------------------------------------------------------------------------
(* Hanging up                                                              *)

RequestHangup ==
  /\ hangups < MaxHangups
  /\ hangups' = hangups + 1
  /\ status' = "hangup_requested"
  /\ IF handoff.state \in Unbridged
       THEN /\ handoff' = [handoff EXCEPT !.state = "handoff_failed"]
            /\ Submit("cancel_kill")
       ELSE /\ Submit("kill")
            /\ UNCHANGED handoff
  /\ UNCHANGED <<engaged, gen, orig, sweep, listener, claim, timerVars, saving,
                 posts, bookVars, fsVars, media>>

CancelAndSubmitHangup ==
  /\ Advance("cancel_kill", "kill")
  /\ CancelTimer
  /\ UNCHANGED <<recVars, orig, sweep, listener, claim, unsched, saving,
                 hangups, posts, bookVars, fsVars, media>>

\* uuid_kill as FreeSWITCH executes it: "from" is the step that sends it.
UuidKill(from) ==
  \/ /\ Live
     /\ Advance(from, "kill_ok")
     /\ EndChannel("normal")
  \/ /\ ~Live
     /\ Advance(from, "kill_err")
     /\ UNCHANGED <<chan, cause, evq>>

HangupSent ==
  /\ \/ UuidKill("kill")
     \/ /\ Faults
        /\ Advance("kill", "crash")
        /\ IF Live THEN EndChannel("normal") \/ UNCHANGED <<chan, cause, evq>>
                   ELSE UNCHANGED <<chan, cause, evq>>
  /\ UNCHANGED <<recVars, orig, sweep, listener, claim, timerVars, saving,
                 hangups, posts, bookVars, leg, media>>

\* _hangup after its reply
HangupAccepted ==
  /\ Finish("kill_ok")
  /\ status' = "hangup_sent"
  /\ UNCHANGED <<engaged, handoff, gen, orig, sweep, listener, claim, timerVars,
                 saving, hangups, posts, bookVars, fsVars, media>>

HangupRejected ==
  /\ Advance("kill_err", "sync_failed")
  /\ status' = "hangup_failed"
  /\ UNCHANGED <<engaged, handoff, gen, orig, sweep, listener, claim, timerVars,
                 saving, hangups, posts, bookVars, fsVars, media>>

\* The busy notice is played (or cannot be), then the customer is hung up;
\* if that raises, a plain hangup worker is submitted instead.
NoticePlayed ==
  /\ \/ UuidKill("notice")
     \/ /\ Faults
        /\ Advance("notice", "kill")
        /\ IF Live THEN EndChannel("normal") \/ UNCHANGED <<chan, cause, evq>>
                   ELSE UNCHANGED <<chan, cause, evq>>
  /\ UNCHANGED <<recVars, orig, sweep, listener, claim, timerVars, saving,
                 hangups, posts, bookVars, leg, media>>

\* Variant: the agent's leg is forgotten.
ForgetLeg(a) == leg' = [leg EXCEPT ![a] = @]

\* The agent's leg is killed, if the socket lets it be; errors are swallowed.
DropLeg(a) ==
  \/ leg' = [leg EXCEPT ![a] = "none"]
  \/ Faults /\ UNCHANGED leg

\* _run_handoff_agent_cleanup_hangup_worker
SweepAgent(a) ==
  /\ a \in sweep
  /\ sweep' = sweep \ {a}
  /\ DropLeg(a)
  /\ UNCHANGED <<recVars, orig, work, listener, claim, timerVars, saving,
                 hangups, posts, bookVars, chan, cause, evq, media>>

-----------------------------------------------------------------------------
(* The event listener                                                      *)

Idle(stops) == [busy |-> FALSE, cancel |-> FALSE, sync |-> "none", silent |-> FALSE,
                stops |-> stops]

\* _apply_channel_event_locked: the status and the handoff after event e
StatusAfter(e) ==
  CASE status \in TerminalStatuses -> status
    [] e = "progress" -> IF status \in {"queued", "originating", "originated"}
                           THEN "ringing" ELSE status
    [] e = "answer" -> IF status \in {"queued", "originating", "originated",
                                      "ringing"}
                         THEN "answered" ELSE status
    [] OTHER -> TerminalStatusForCause(cause, engaged)

HandoffAfter(e) ==
  IF status \in TerminalStatuses \/ e \in {"progress", "answer"} THEN handoff
  ELSE IF handoff.state = "human_active"
         THEN [handoff EXCEPT !.state = "completed"]
  ELSE IF handoff.state \in Unbridged
         THEN [handoff EXCEPT !.state = "handoff_failed"]
  ELSE handoff

\* Variant: recordings already being stopped are stopped again.
StopDueAgain(h) ==
  h.state = "completed" /\ h.recording \in {"recording", "stopping"}

\* Variant: the recordings are looked at before the hangup is applied.
StopDueEarly(h) == h.state = "human_active" /\ h.recording = "recording"

\* The recordings of a finished conversation are still running.
StopDue(h) == h.state = "completed" /\ h.recording = "recording"

\* handle_channel_event up to the end of its lock, with the worker it submits
\* and the handoff callback it publishes.
HandleChannelEvent ==
  /\ ~listener.busy /\ evq # <<>>
  /\ LET e == Head(evq)
         st == StatusAfter(e)
         ended == status \notin TerminalStatuses /\ st \in TerminalStatuses
         h == HandoffAfter(e)
         h2 == IF StopDue(h) THEN [h EXCEPT !.recording = "stopping"] ELSE h
         due == TranscriptFailureDue(h2) \/ ConnectionFailureDue(h2, st)
         stops == listener.stops + (IF StopDue(h) THEN 1 ELSE 0)
     IN /\ evq' = Tail(evq)
        /\ status' = st
        /\ engaged' = (engaged \/ (e = "answer" /\ status \notin TerminalStatuses))
        /\ handoff' = IF due THEN [h2 EXCEPT !.callback = "FAILED"] ELSE h2
        /\ IF due THEN Publish("handoff_failed") ELSE UNCHANGED sent
        /\ IF StopDue(h) THEN Submit("stop_recording") ELSE UNCHANGED work
        /\ sweep' = IF ended /\ h.state = "completed" /\ h.agent # NoAgent
                      THEN sweep \cup {h.agent} ELSE sweep
        /\ listener' = IF ended
             THEN [busy |-> TRUE, cancel |-> handoff.state # "none",
                   sync |-> SyncFor(st), silent |-> due, stops |-> stops]
             ELSE Idle(stops)
  /\ UNCHANGED <<gen, orig, claim, timerVars, saving, hangups, posts, results, db,
                 chan, cause, leg, media>>

\* After the lock the timer is cancelled, whichever is registered by then.
ListenerCancels ==
  /\ listener.busy /\ listener.cancel
  /\ listener' = [listener EXCEPT !.cancel = FALSE]
  /\ CancelTimer
  /\ UNCHANGED <<recVars, orig, work, sweep, claim, unsched, saving, hangups,
                 posts, bookVars, fsVars, media>>

\* The rest of handle_channel_event: update the row, and publish the failure
\* unless a handoff callback has just been sent.
ListenerFinishes ==
  /\ listener.busy /\ ~listener.cancel
  /\ listener' = Idle(listener.stops)
  /\ \/ /\ listener.sync # "none"
        /\ UpdateRow(listener.sync)
        /\ IF listener.silent THEN UNCHANGED sent
                              ELSE Publish("call_failed") \/ (Faults /\ UNCHANGED sent)
     \/ /\ listener.sync = "none" \/ db \notin {"0", "1"} \/ Faults
        /\ UNCHANGED <<db, sent>>
  /\ UNCHANGED <<recVars, orig, work, sweep, claim, timerVars, saving, hangups,
                 posts, results, fsVars, media>>

-----------------------------------------------------------------------------
(* The media session (external, realtime_phone_gateway.py) and its calls   *)

MediaOpens ==
  /\ media = "none" /\ chan = "up"
  /\ media' = "opening"
  /\ UNCHANGED <<recVars, orig, work, sweep, listener, claim, timerVars, saving,
                 hangups, posts, bookVars, fsVars>>

MarkMediaConnected ==
  /\ media = "opening"
  /\ media' = "connected"
  /\ IF status \in TerminalStatuses
       THEN UNCHANGED <<status, engaged>>
       ELSE status' = "media_connected" /\ engaged' = TRUE
  /\ UNCHANGED <<handoff, gen, orig, work, sweep, listener, claim, timerVars,
                 saving, hangups, posts, bookVars, fsVars>>

\* The session ends and hands its result to the writer, unless the session
\* itself asked for the handoff: then the result waits for the transcript.
MediaEnds ==
  /\ media \in {"connected", "deferred"}
  /\ media' = "closed"
  /\ IF media = "connected"
       THEN \E r \in DOMAIN results : results' = [results EXCEPT ![r] = @ + 1]
       ELSE UNCHANGED results
  /\ UNCHANGED <<recVars, orig, work, sweep, listener, claim, timerVars, saving,
                 hangups, posts, db, sent, fsVars>>

-----------------------------------------------------------------------------
(* The handoff: request, timeout, claim                                    *)

RequestHandoff ==
  /\ gen < MaxHandoffs
  /\ \/ media = "connected" /\ media' = "deferred"
     \/ HttpHandoff /\ UNCHANGED media
  /\ status \notin InactiveStatuses
  /\ handoff.state \notin Unbridged \cup {"human_active"}
  /\ handoff' = Handoff("waiting_agent")
  /\ gen' = gen + 1
  /\ status' = "waiting_agent"
  /\ unsched' = unsched \cup {gen + 1}
  /\ UNCHANGED <<engaged, orig, work, sweep, listener, claim, timers, entry,
                 saving, hangups, posts, bookVars, fsVars>>

ArmTimer(g) ==
  /\ g \in unsched
  /\ unsched' = unsched \ {g}
  /\ ScheduleTimer(g)
  /\ UNCHANGED <<recVars, orig, work, sweep, listener, claim, saving, hangups,
                 posts, bookVars, fsVars, media>>

\* handoff.expires_at_ms passes
DeadlinePasses ==
  /\ handoff.state \in Unbridged \cup {"handoff_failed"}
  /\ ~handoff.expired
  /\ handoff' = [handoff EXCEPT !.expired = TRUE]
  /\ UNCHANGED <<status, engaged, gen, orig, work, sweep, listener, claim,
                 timerVars, saving, hangups, posts, bookVars, fsVars, media>>

\* Variant: the handoff fails and the customer is left waiting.
GiveUpHandoffQuietly ==
  /\ handoff' = [handoff EXCEPT !.state = "handoff_failed"]
  /\ status' = "handoff_failed"
  /\ UNCHANGED work

\* An expired handoff fails, and a worker says so and hangs up.
GiveUpHandoff ==
  /\ handoff' = [handoff EXCEPT !.state = "handoff_failed"]
  /\ status' = "handoff_failed"
  /\ Submit("notice")

\* _expire_handoff_request: the timer of handoff request g fires.  Whatever
\* timer is registered by then is dropped from the table.
TimerFires(g) ==
  /\ g \in timers
  /\ IF \/ handoff.state # "waiting_agent" \/ g # gen
        \/ status \in TerminalStatuses
       THEN /\ timers' = timers \ {g} /\ entry' = 0
            /\ UNCHANGED <<status, handoff, work>>
     ELSE IF ~handoff.expired
       THEN /\ entry' = g
            /\ UNCHANGED <<timers, status, handoff, work>>
     ELSE /\ timers' = timers \ {g} /\ entry' = 0
          /\ GiveUpHandoff
  /\ UNCHANGED <<engaged, gen, orig, sweep, listener, claim, unsched, saving,
                 hangups, posts, bookVars, fsVars, media>>

Goto(a, pc) == claim' = [claim EXCEPT ![a].pc = pc]

\* claim_handoff up to the end of its lock
ClaimHandoff(a) ==
  /\ claim[a].pc = "idle"
  /\ Claimable
  /\ IF handoff.expired
       THEN /\ handoff' = [handoff EXCEPT !.state = "handoff_failed"]
            /\ status' = "handoff_failed"
            /\ Submit("cancel_kill")
            /\ UNCHANGED claim
       ELSE /\ handoff' = [handoff EXCEPT !.state = "agent_claimed", !.agent = a]
            /\ status' = "agent_claimed"
            /\ claim' = [claim EXCEPT ![a].pc = "cancel", ![a].gen = gen]
            /\ UNCHANGED work
  /\ UNCHANGED <<engaged, gen, orig, sweep, listener, timerVars, saving, hangups,
                 posts, bookVars, fsVars, media>>

ClaimCancelsTimer(a) ==
  /\ claim[a].pc = "cancel"
  /\ CancelTimer
  /\ Goto(a, "resolve")
  /\ UNCHANGED <<recVars, orig, work, sweep, listener, unsched, saving, hangups,
                 posts, bookVars, fsVars, media>>

\* Variant: an error while resolving ends the request thread there.
ResolveAgentOrQuit(a) ==
  /\ claim[a].pc = "resolve"
  /\ \/ Goto(a, "idle")
     \/ ~CustomerInactive /\ Goto(a, "ring")
  /\ UNCHANGED <<recVars, orig, work, sweep, listener, timerVars, saving, hangups,
                 posts, bookVars, fsVars, media>>

\* _handoff: the agent's endpoint is resolved, then the customer is checked.
ResolveAgent(a) ==
  /\ claim[a].pc = "resolve"
  /\ \/ Goto(a, "release")
     \/ ~CustomerInactive /\ Goto(a, "ring")
  /\ UNCHANGED <<recVars, orig, work, sweep, listener, timerVars, saving, hangups,
                 posts, bookVars, fsVars, media>>

\* The check has released the lock: nothing is tested again here.
SetAgentRinging(a) ==
  /\ claim[a].pc = "ring"
  /\ Goto(a, "originate")
  /\ handoff' = [handoff EXCEPT !.state = "agent_ringing"]
  /\ status' = "agent_ringing"
  /\ UNCHANGED <<engaged, gen, orig, work, sweep, listener, timerVars, saving,
                 hangups, posts, bookVars, fsVars, media>>

\* The agent's leg is originated: it answers, is refused, or the socket
\* breaks, before or after FreeSWITCH has the leg up.
OriginateAgent(a) ==
  /\ claim[a].pc = "originate"
  /\ \/ /\ leg' = [leg EXCEPT ![a] = "up"]
        /\ Goto(a, IF CustomerInactive THEN "cleanup" ELSE "answered")
     \/ /\ UNCHANGED leg
        /\ Goto(a, "release")
     \/ /\ Faults
        /\ leg' = [leg EXCEPT ![a] = "up"]
        /\ Goto(a, "release")
  /\ UNCHANGED <<recVars, orig, work, sweep, listener, timerVars, saving, hangups,
                 posts, bookVars, chan, cause, evq, media>>

SetBridging(a) ==
  /\ claim[a].pc = "answered"
  /\ Goto(a, "break")
  /\ handoff' = [handoff EXCEPT !.state = "bridging"]
  /\ status' = "bridging"
  /\ UNCHANGED <<engaged, gen, orig, work, sweep, listener, timerVars, saving,
                 hangups, posts, bookVars, fsVars, media>>

\* break_audio_stream; its "-ERR" is not an error.
BreakAudioStream(a) ==
  /\ claim[a].pc = "break"
  /\ \/ Goto(a, IF CustomerInactive THEN "cleanup" ELSE "bridge")
     \/ Faults /\ Goto(a, "cleanup")
  /\ UNCHANGED <<recVars, orig, work, sweep, listener, timerVars, saving, hangups,
                 posts, bookVars, fsVars, media>>

\* uuid_bridge succeeds only while both channels exist.
BridgeCall(a) ==
  /\ claim[a].pc = "bridge"
  /\ \/ /\ chan = "up" /\ leg[a] = "up"
        /\ leg' = [leg EXCEPT ![a] = "bridged"]
        /\ \/ Goto(a, IF CustomerInactive THEN "cleanup" ELSE "record")
           \/ Faults /\ Goto(a, "cleanup")
     \/ Goto(a, "cleanup") /\ UNCHANGED leg
  /\ UNCHANGED <<recVars, orig, work, sweep, listener, timerVars, saving, hangups,
                 posts, bookVars, chan, cause, evq, media>>

\* start_recording on both legs; a failure does not abort the handoff.
StartRecording(a) ==
  /\ claim[a].pc = "record"
  /\ \E r \in IF RecordingEnabled THEN {"recording", "failed"} ELSE {"disabled"} :
       claim' = [claim EXCEPT ![a].recording = r,
                              ![a].pc = IF CustomerInactive THEN "cleanup"
                                                            ELSE "activate"]
  /\ UNCHANGED <<recVars, orig, work, sweep, listener, timerVars, saving, hangups,
                 posts, bookVars, fsVars, media>>

\* The last block of _handoff
ActivateHuman(a) ==
  /\ claim[a].pc = "activate"
  /\ LET wanted == IF handoff.transcript = "none" THEN "pending"
                                                  ELSE handoff.transcript
     IN handoff' = [handoff EXCEPT
          !.state = "human_active",
          !.recording = claim[a].recording,
          !.transcript = IF claim[a].recording = "failed" /\ wanted = "pending"
                           THEN "failed" ELSE wanted]
  /\ status' = "human_active"
  /\ Goto(a, "idle")
  /\ UNCHANGED <<engaged, gen, orig, work, sweep, listener, timerVars, saving,
                 hangups, posts, bookVars, fsVars, media>>

\* _cleanup_aborted_agent_call
CleanupAgent(a) ==
  /\ claim[a].pc = "cleanup"
  /\ Goto(a, "release")
  /\ DropLeg(a)
  /\ UNCHANGED <<recVars, orig, work, sweep, listener, timerVars, saving, hangups,
                 posts, bookVars, chan, cause, evq, media>>

\* _release_or_fail_handoff_claim
ReleaseClaim(a) ==
  /\ claim[a].pc = "release"
  /\ IF status \in InactiveStatuses
       THEN /\ handoff' = [handoff EXCEPT !.state = "handoff_failed"]
            /\ Goto(a, "idle")
            /\ UNCHANGED <<status, work>>
     ELSE IF ~handoff.expired
       THEN /\ handoff' = [handoff EXCEPT !.state = "waiting_agent",
                                          !.agent = NoAgent]
            /\ status' = "waiting_agent"
            /\ claim' = [claim EXCEPT ![a].pc = "schedule", ![a].gen = gen]
            /\ UNCHANGED work
     ELSE /\ GiveUpHandoff
          /\ Goto(a, "idle")
  /\ UNCHANGED <<engaged, gen, orig, sweep, listener, timerVars, saving, hangups,
                 posts, bookVars, fsVars, media>>

RearmTimer(a) ==
  /\ claim[a].pc = "schedule"
  /\ ScheduleTimer(claim[a].gen)
  /\ Goto(a, "idle")
  /\ UNCHANGED <<recVars, orig, work, sweep, listener, unsched, saving, hangups,
                 posts, bookVars, fsVars, media>>

-----------------------------------------------------------------------------
(* The human transcript                                                    *)

RecordingFailed(h) ==
  [h EXCEPT !.recording = "failed",
            !.transcript = IF @ = "pending" THEN "failed" ELSE @]

\* _stop_handoff_recording, or its worker's exception handler.  Recording
\* paths exist exactly when a claim got as far as starting the recordings.
StopRecording ==
  /\ \/ /\ handoff.recording \notin {"none", "disabled"}
        /\ handoff.agent # NoAgent
        /\ handoff' = [handoff EXCEPT !.recording = "completed"]
        /\ Advance("stop_recording", "submit_asr")
        /\ UNCHANGED sent
     \/ /\ SetHandoff(RecordingFailed(handoff))
        /\ Finish("stop_recording")
  /\ UNCHANGED <<status, engaged, gen, orig, sweep, listener, claim, timerVars,
                 saving, hangups, posts, results, db, fsVars, media>>

SubmitTranscription ==
  /\ IF /\ TranscriptProcessor
        /\ handoff.state = "completed" /\ handoff.transcript = "pending"
        /\ handoff.recording = "completed"
       THEN IF handoff.agent = NoAgent
              THEN /\ Finish("submit_asr")
                   /\ SetHandoff([handoff EXCEPT !.transcript = "failed"])
              ELSE /\ Advance("submit_asr", "transcribe")
                   /\ handoff' = [handoff EXCEPT !.transcript = "processing"]
                   /\ UNCHANGED sent
       ELSE Finish("submit_asr") /\ UNCHANGED <<handoff, sent>>
  /\ UNCHANGED <<status, engaged, gen, orig, sweep, listener, claim, timerVars,
                 saving, hangups, posts, results, db, fsVars, media>>

\* complete_handoff_transcript with turns, up to the end of its lock: by the
\* transcription worker ("asr") or by POST /handoff/transcript ("api").
TranscriptSettled ==
  handoff.transcript = "completed" \/ handoff.callback = "FAILED"

AcceptTranscript(x) ==
  /\ saving[x] = "idle"
  /\ handoff' = [handoff EXCEPT !.transcript = "completed"]
  /\ saving' = [saving EXCEPT ![x] = handoff.transcript]

AsrFinishes ==
  /\ \/ Advance("transcribe", "asr_failed") /\ UNCHANGED <<handoff, saving>>
     \/ /\ handoff.state = "completed"
        /\ Finish("transcribe")
        /\ IF TranscriptSettled THEN UNCHANGED <<handoff, saving>>
                                ELSE AcceptTranscript("asr")
  /\ UNCHANGED <<status, engaged, gen, orig, sweep, listener, claim, timerVars,
                 hangups, posts, bookVars, fsVars, media>>

PostTranscript ==
  /\ posts < MaxPosts
  /\ posts' = posts + 1
  /\ handoff.state = "completed"
  /\ ~TranscriptSettled
  /\ \/ AcceptTranscript("api") /\ UNCHANGED sent
     \/ /\ SetHandoff([handoff EXCEPT !.transcript = "failed"])
        /\ UNCHANGED saving
  /\ UNCHANGED <<status, engaged, gen, orig, work, sweep, listener, claim,
                 timerVars, hangups, results, db, fsVars, media>>

\* enqueue_nowait: accepted; refused, and the transcript is rolled back; or
\* timed out, which is taken for refused although the payload gets queued.
EnqueueResult(x) ==
  /\ saving[x] # "idle"
  /\ saving' = [saving EXCEPT ![x] = "idle"]
  /\ \/ /\ results' = [results EXCEPT !["completed"] = @ + 1]
        /\ UNCHANGED <<handoff, work>>
     \/ /\ results' \in {results} \cup
             (IF Faults THEN {[results EXCEPT !["completed"] = @ + 1]} ELSE {})
        /\ handoff' = IF handoff.transcript = "completed"
                        THEN [handoff EXCEPT !.transcript = saving[x]]
                        ELSE handoff
        /\ IF x = "asr" THEN Submit("asr_failed") ELSE UNCHANGED work
  /\ UNCHANGED <<status, engaged, gen, orig, sweep, listener, claim, timerVars,
                 hangups, posts, db, sent, fsVars, media>>

\* _mark_handoff_transcript_failed
MarkTranscriptFailed ==
  /\ Finish("asr_failed")
  /\ SetHandoff([handoff EXCEPT !.transcript = "failed"])
  /\ UNCHANGED <<status, engaged, gen, orig, sweep, listener, claim, timerVars,
                 saving, hangups, posts, results, db, fsVars, media>>

\* One round of PostgresCallResultWriter._run
WriteResult(r) ==
  /\ results[r] > 0
  /\ results' = [results EXCEPT ![r] = @ - 1]
  /\ IF r = "completed"
       THEN \/ db = "1" /\ db' = "4" /\ Publish("success")
            \/ db = "1" /\ Faults /\ db' = "4" /\ Publish("result_failed")
            \/ (db # "1" \/ Faults) /\ UNCHANGED db /\ Publish("result_failed")
       ELSE /\ Publish("result_failed")
            /\ UpdateRow("2") \/ ((Faults \/ db \notin {"0", "1"}) /\ UNCHANGED db)
  /\ UNCHANGED <<recVars, orig, work, sweep, listener, claim, timerVars, saving,
                 hangups, posts, fsVars, media>>

-----------------------------------------------------------------------------
Init ==
  /\ status = "queued" /\ engaged = FALSE
  /\ handoff = Handoff("none") /\ gen = 0
  /\ orig = "queued"
  /\ work = [k \in WorkKinds |-> 0]
  /\ sweep = {}
  /\ listener = Idle(0)
  /\ claim = [a \in Agents |-> [pc |-> "idle", recording |-> "none", gen |-> 0]]
  /\ unsched = {} /\ timers = {} /\ entry = 0
  /\ saving = [x \in {"asr", "api"} |-> "idle"]
  /\ hangups = 0 /\ posts = 0
  /\ results = [r \in {"completed", "failed"} |-> 0]
  /\ db = "0"
  /\ sent = [o \in Origins |-> 0]
  /\ chan = "none" /\ cause = "normal" /\ evq = <<>>
  /\ leg = [a \in Agents |-> "none"]
  /\ media = "none"

Outside ==
  \/ ChannelAlerts \/ ChannelAnswers \/ ChannelFails \/ CustomerHangsUp
  \/ \E a \in Agents : AgentHangsUp(a)
  \/ EventsLost \/ MediaOpens \/ MediaEnds \/ DeadlinePasses

Originating ==
  \/ OriginateStarts \/ MarkStarted \/ ResolveEndpoint \/ DialCustomer
  \/ OriginateReturns

HangingUp ==
  \/ CancelAndSubmitHangup \/ HangupSent \/ HangupAccepted \/ HangupRejected
  \/ NoticePlayed \/ WorkerCrash \/ SyncFailed
  \/ \E a \in Agents : SweepAgent(a)

Listening == HandleChannelEvent \/ ListenerCancels \/ ListenerFinishes

Claiming(a) ==
  \/ ClaimCancelsTimer(a) \/ ResolveAgent(a) \/ SetAgentRinging(a)
  \/ OriginateAgent(a) \/ SetBridging(a) \/ BreakAudioStream(a) \/ BridgeCall(a)
  \/ StartRecording(a) \/ ActivateHuman(a) \/ CleanupAgent(a) \/ ReleaseClaim(a)
  \/ RearmTimer(a)

Timing == \E g \in 1..MaxHandoffs : ArmTimer(g) \/ TimerFires(g)

Transcribing ==
  \/ StopRecording \/ SubmitTranscription \/ AsrFinishes \/ MarkTranscriptFailed
  \/ \E x \in {"asr", "api"} : EnqueueResult(x)
  \/ \E r \in {"completed", "failed"} : WriteResult(r)

Requests ==
  \/ RequestHangup \/ RequestHandoff \/ PostTranscript \/ MarkMediaConnected
  \/ \E a \in Agents : ClaimHandoff(a)

Next ==
  \/ Outside \/ Originating \/ HangingUp \/ Listening \/ Timing \/ Transcribing
  \/ Requests
  \/ \E a \in Agents : Claiming(a)

Spec == Init /\ [][Next]_vars

\* Every thread of the manager keeps running, deadlines pass and FreeSWITCH
\* ends an originate; nothing is assumed of customers, agents or HTTP clients.
Threads ==
  \/ Originating \/ HangingUp \/ Listening \/ Timing \/ Transcribing
  \/ \E a \in Agents : Claiming(a)

Fairness ==
  /\ WF_vars(Threads)
  /\ WF_vars(DeadlinePasses)
  /\ WF_vars(ChannelAnswers \/ ChannelFails)

FairSpec == Spec /\ Fairness

-----------------------------------------------------------------------------
ClaimSteps == {"idle", "cancel", "resolve", "ring", "originate", "answered",
               "break", "bridge", "record", "activate", "cleanup", "release",
               "schedule"}

RecordType ==
  /\ status \in Statuses /\ engaged \in BOOLEAN
  /\ handoff \in Handoffs /\ gen \in 0..MaxHandoffs

ClaimType ==
  claim \in [Agents -> [pc : ClaimSteps, recording : RecordingStatuses,
                        gen : 0..MaxHandoffs]]

ThreadType ==
  /\ orig \in {"queued", "mark_started", "resolve", "dial", "answering", "done"}
  /\ work \in [WorkKinds -> Nat]
  /\ sweep \subseteq Agents
  /\ listener \in [busy : BOOLEAN, cancel : BOOLEAN, sync : {"none", "2", "3"},
                   silent : BOOLEAN, stops : Nat]
  /\ saving \in [{"asr", "api"} -> TranscriptStatuses \cup {"idle"}]
  /\ hangups \in 0..MaxHangups /\ posts \in 0..MaxPosts

TimerType ==
  /\ unsched \subseteq 1..MaxHandoffs /\ timers \subseteq 0..MaxHandoffs
  /\ entry \in 0..MaxHandoffs

BookType ==
  /\ db \in {"0", "1", "2", "3", "4"}
  /\ sent \in [Origins -> Nat]
  /\ results \in [{"completed", "failed"} -> Nat]

SwitchType ==
  /\ chan \in {"none", "dialing", "alerting", "up", "ended", "failed"}
  /\ cause \in AllCauses
  /\ evq \in Seq({"progress", "answer", "hangup", "hangup_complete"})
  /\ leg \in [Agents -> {"none", "up", "bridged"}]
  /\ media \in {"none", "opening", "connected", "deferred", "closed"}

\* Every variable has the type its declaration promises.
TypeOK ==
  RecordType /\ ClaimType /\ ThreadType /\ TimerType /\ BookType /\ SwitchType

-----------------------------------------------------------------------------
(* Safety                                                                  *)

Final == {"2", "3", "4"}
Terminated == sent["call_failed"] + sent["handoff_failed"] + sent["success"]
              + sent["result_failed"]

\* The threads of one claim between claim_handoff's lock and the end of
\* _handoff, its release included.
Working(a) == claim[a].pc \notin {"idle", "schedule"}

\* _originate, _hangup, _mark_failed, the listener and the result writer all
\* end a call through one guarded update of its row, so however they race the
\* callbacks they gate on it are at most one, and none while the row is open.
GatedCallbackOnce ==
  /\ sent["call_failed"] <= IF db \in {"2", "3"} THEN 1 ELSE 0
  /\ sent["success"] <= IF db = "4" THEN 1 ELSE 0

\* Each handoff request publishes its own FAILED callback at most once, from
\* whichever of the five places that look at terminal_callback_status.
HandoffCallbackOnce ==
  sent["handoff_failed"] <= IF handoff.callback = "none" /\ gen > 0
                              THEN gen - 1 ELSE gen

\* A finished human conversation whose transcript failed has told the flow so,
\* in the same locked block, whichever thread failed it: the recording stop,
\* the processor, a post, or a rollback onto an earlier failure.
TranscriptFailureReported ==
  handoff.state = "completed" /\ handoff.transcript = "failed"
    => handoff.callback = "FAILED"

\* An agent's leg that is up and not bridged belongs to the claim that
\* originated it: no exit of _handoff leaves a softphone ringing in nothing.
AgentLegOwned ==
  \A a \in Agents : leg[a] = "up" =>
    claim[a].pc \in {"answered", "break", "bridge", "cleanup"}

\* While a handoff is connecting no timer guards it, so some claim thread must
\* still be there to activate, release or fail it.
ConnectingHasOwner ==
  handoff.state \in Connecting => \E a \in Agents : Working(a)

\* Two agents never work on the first handoff request, although releases and
\* expiries move it in and out of waiting_agent under a running claim.  A later
\* request is less lucky: see OneClaimEach.
OneClaim ==
  gen = 1 => \A a, b \in Agents : Working(a) /\ Working(b) => a = b

\* In the whole call recordings are stopped, and a worker sent to transcribe
\* them, no more often than a human was asked for, although every hangup event
\* looks at them again and a claim of an earlier request may activate its
\* conversation late.
RecordingStoppedOnce == listener.stops <= gen

\* A row in a final status ('2', '3', '4') is never written again: a late
\* START, failure or transcript finds it closed.
RowStaysFinal == [][(db \in Final) => (db' = db)]_db

-----------------------------------------------------------------------------
(* Liveness, under FairSpec                                                *)

\* A handoff nobody took in time ends the customer's call: every path into
\* handoff_failed submits a worker that kills the channel or knows it gone.
\* An HTTP hangup is left out: its kill may run before the channel exists.
FailedHandoffHangsUp ==
  (handoff.state = "handoff_failed" /\ hangups = 0)
    ~> (~Live \/ handoff.state # "handoff_failed" \/ hangups > 0)

\* The transcript of a finished conversation is completed or failed in the
\* end: the chain listener, stop worker, processor has no silent exit.  It is
\* broken where a FAILED callback was sent before, which settles the call too.
TranscriptSettles ==
  (handoff.state = "completed" /\ handoff.transcript = "pending"
     /\ handoff.callback = "none")
    ~> (handoff.transcript \in {"completed", "failed"})

\* A call the manager reports failed, busy, unanswered or canceled closes its
\* row, whoever sets the status and whatever overwrites it afterwards.
FailedCallClosesRow ==
  (status \in {"failed", "busy", "no_answer", "canceled"}) ~> (db \in Final)

\* A call whose media session left its result to the handoff is reported once
\* the customer has gone: the transcript, its failure or the failed connection.
HandedOverCallReported ==
  (media = "deferred" /\ chan = "ended") ~> (Terminated > 0)

-----------------------------------------------------------------------------
(* What the documentation says and the code does not keep                  *)

\* One taskId has one terminal callback
\* (docs/flow_external_callback_integration.md:536).
OneOutcome == Terminated <= 1

\* Claiming a handoff is atomic, so that two agents never take the same one
\* (docs/property-fee-human-handoff-technical-design.md:445).
OneClaimEach ==
  \A a, b \in Agents :
    Working(a) /\ Working(b) /\ claim[a].gen = claim[b].gen => a = b

\* A customer who hangs up before an agent is connected fails the handoff for
\* good (docs/property-fee-human-handoff-technical-design.md:1160-1166).
AbandonedHandoffFails ==
  (handoff.state \in Unbridged /\ chan = "ended")
    ~> (handoff.state = "handoff_failed")
=============================================================================
