---------------------- MODULE CallControlHandoffProofs ----------------------
(***************************************************************************)
(* What CallControl guarantees of the human handoff: its one callback, the *)
(* report of a failed transcript, the owner of a connecting handoff and of *)
(* an agent's leg.                                                         *)
(***************************************************************************)
EXTENDS CallControlProofs

\* How one step may change what the handoff callbacks depend on.
Same ==
  /\ gen' = gen
  /\ sent'["handoff_failed"] = sent["handoff_failed"]
  /\ handoff'.callback = handoff.callback

\* The handoff keeps its state and transcript.
Keeps == /\ Same
         /\ handoff'.state = handoff.state
         /\ handoff'.transcript = handoff.transcript

\* A claim thread, or the end of a wait, gives it another unfinished state.
Restates == /\ Same
            /\ handoff'.state \notin {"none", "completed"}
            /\ gen > 0

\* A new handoff request.
Opens == /\ gen' = gen + 1
         /\ sent'["handoff_failed"] = sent["handoff_failed"]
         /\ handoff'.callback = "none" /\ handoff'.state = "waiting_agent"

\* The handoff publishes its callback.
Reports == /\ gen' = gen /\ handoff.state # "none"
           /\ sent'["handoff_failed"] = sent["handoff_failed"] + 1
           /\ handoff.callback = "none" /\ handoff'.callback = "FAILED"

\* The handoff ends or its transcript changes, and no callback is due.
Settles == /\ Same
           /\ handoff.state = "none" => handoff'.state = "none"
           /\ ~TranscriptFailureDue(handoff')

HandoffMove == Keeps \/ Restates \/ Opens \/ Reports \/ Settles

\* Nothing has touched the handoff before the first request.
Untouched ==
  gen = 0 => /\ handoff.state = "none"
             /\ \A a \in Agents : claim[a].pc = "idle"

\* A transcript being saved was not failed before, so that giving it back its
\* old status after a refused enqueue cannot fail it without a callback.
SavedNotFailed == \A x \in {"asr", "api"} : saving[x] # "failed"

\* The inductive invariant of the callbacks.
CallbackInv ==
  /\ TypeOK
  /\ Untouched
  /\ SavedNotFailed
  /\ HandoffCallbackOnce
  /\ TranscriptFailureReported

-----------------------------------------------------------------------------
(* Every step is one of these moves.                                       *)

LEMMA SentType == TypeOK => /\ sent \in [Origins -> Nat]
                            /\ "handoff_failed" \in Origins
                            /\ {"call_failed", "success", "result_failed"}
                                 \subseteq Origins \ {"handoff_failed"}
BY DEF TypeOK, BookType, Origins

LEMMA OtherPublish ==
  ASSUME TypeOK, NEW o \in {"call_failed", "success", "result_failed"},
         Publish(o)
  PROVE  sent'["handoff_failed"] = sent["handoff_failed"]
BY SentType DEF Publish

LEMMA KeepMove ==
  ASSUME UNCHANGED <<handoff, gen>>,
         sent'["handoff_failed"] = sent["handoff_failed"]
  PROVE  HandoffMove
BY DEF Keeps, Same, HandoffMove

LEMMA RestateMove ==
  ASSUME TypeOK, gen > 0, UNCHANGED <<gen, sent>>,
         NEW h \in Handoffs, handoff' = h, h.callback = handoff.callback,
         h.state \notin {"none", "completed"}
  PROVE  HandoffMove
BY DEF Restates, Same, HandoffMove

LEMMA SetHandoffMove ==
  ASSUME TypeOK, UNCHANGED gen, NEW h \in Handoffs, SetHandoff(h),
         h.state = handoff.state, h.callback = handoff.callback
  PROVE  HandoffMove
<1>1. CASE TranscriptFailureDue(h)
  <2>1. handoff' = [h EXCEPT !.callback = "FAILED"] /\ Publish("handoff_failed")
    BY <1>1 DEF SetHandoff
  <2>2. handoff'.callback = "FAILED"
    BY <2>1 DEF Handoffs
  <2>3. handoff.state # "none" /\ handoff.callback = "none"
    BY <1>1 DEF TranscriptFailureDue
  <2>4. sent'["handoff_failed"] = sent["handoff_failed"] + 1
    BY <2>1, SentType DEF Publish
  <2> QED BY <2>2, <2>3, <2>4 DEF Reports, HandoffMove
<1>2. CASE ~TranscriptFailureDue(h)
  <2>1. handoff' = h /\ UNCHANGED sent
    BY <1>2 DEF SetHandoff
  <2> QED BY <1>2, <2>1 DEF Settles, Same, HandoffMove
<1> QED BY <1>1, <1>2

\* The transcript moves to a status that is not a failure.
LEMMA TranscriptMove ==
  ASSUME TypeOK, NEW t \in TranscriptStatuses \ {"failed"},
         handoff' = [handoff EXCEPT !.transcript = t], UNCHANGED <<gen, sent>>
  PROVE  HandoffMove
<1>1. handoff \in Handoffs
  BY DEF TypeOK, RecordType
<1>2. /\ handoff'.transcript = t /\ handoff'.state = handoff.state
      /\ handoff'.callback = handoff.callback
  BY <1>1 DEF Handoffs
<1> QED BY <1>2 DEF Settles, Same, TranscriptFailureDue, HandoffMove

LEMMA HandoffAfterMove ==
  ASSUME handoff \in Handoffs, NEW e
  PROVE  /\ HandoffAfter(e).callback = handoff.callback
         /\ (HandoffAfter(e).state = "none") <=> (handoff.state = "none")
<1>1. HandoffAfter(e) \in {handoff, [handoff EXCEPT !.state = "completed"],
                           [handoff EXCEPT !.state = "handoff_failed"]}
  BY DEF HandoffAfter
<1>2. HandoffAfter(e) # handoff
        => handoff.state \in Unbridged \cup {"human_active"}
  BY DEF HandoffAfter
<1>3. handoff.state \in Unbridged \cup {"human_active"} => handoff.state # "none"
  BY DEF Unbridged, Connecting
<1> QED BY <1>1, <1>2, <1>3 DEF Handoffs

LEMMA ListeningMove == ASSUME TypeOK, Listening PROVE HandoffMove
<1>0. handoff \in Handoffs
  BY DEF TypeOK, RecordType
<1>1. CASE HandleChannelEvent
  <2> DEFINE e == Head(evq)
             st == StatusAfter(e)
             h == HandoffAfter(e)
             h2 == IF StopDue(h) THEN [h EXCEPT !.recording = "stopping"] ELSE h
             due == TranscriptFailureDue(h2) \/ ConnectionFailureDue(h2, st)
  <2>1. h \in Handoffs /\ h.callback = handoff.callback
        /\ (h.state = "none" <=> handoff.state = "none")
    BY <1>0, HandoffAfterType, HandoffAfterMove
  <2>2. /\ h2 \in Handoffs /\ h2.callback = handoff.callback
        /\ (h2.state = "none" <=> handoff.state = "none")
    <3> HIDE DEF h
    <3>1. /\ [h EXCEPT !.recording = "stopping"] \in Handoffs
          /\ [h EXCEPT !.recording = "stopping"].callback = h.callback
          /\ [h EXCEPT !.recording = "stopping"].state = h.state
      BY <2>1 DEF Handoffs, RecordingStatuses
    <3> QED BY <2>1, <3>1
  <2> HIDE DEF st, h, h2, due, e
  <2>3. /\ handoff' = IF due THEN [h2 EXCEPT !.callback = "FAILED"] ELSE h2
        /\ IF due THEN Publish("handoff_failed") ELSE UNCHANGED sent
        /\ UNCHANGED gen
    BY <1>1 DEF HandleChannelEvent, st, h, h2, due, e
  <2>4. CASE due
    <3>1. h2.callback = "none" /\ h2.state # "none"
      BY <2>4 DEF due, TranscriptFailureDue, ConnectionFailureDue
    <3>2. handoff'.callback = "FAILED"
      BY <2>2, <2>3, <2>4 DEF Handoffs
    <3>3. sent'["handoff_failed"] = sent["handoff_failed"] + 1
      BY <2>3, <2>4, SentType DEF Publish
    <3> QED BY <2>2, <2>3, <3>1, <3>2, <3>3 DEF Reports, HandoffMove
  <2>5. CASE ~due
    <3>1. handoff' = h2 /\ UNCHANGED <<sent, gen>> /\ ~TranscriptFailureDue(h2)
      BY <2>3, <2>5 DEF due
    <3> QED BY <2>2, <3>1 DEF Settles, Same, HandoffMove
  <2> QED BY <2>4, <2>5
<1>2. CASE ListenerFinishes
  <2>1. Publish("call_failed") \/ UNCHANGED sent
    BY <1>2 DEF ListenerFinishes
  <2>2. sent'["handoff_failed"] = sent["handoff_failed"]
    BY <2>1, OtherPublish
  <2> QED BY <1>2, <2>2, KeepMove DEF ListenerFinishes, recVars
<1>3. CASE ListenerCancels
  BY <1>3, KeepMove DEF ListenerCancels, bookVars, recVars
<1> QED BY <1>1, <1>2, <1>3 DEF Listening

LEMMA OutsideMove == ASSUME TypeOK, Outside PROVE HandoffMove
<1>1. CASE DeadlinePasses
  <2>1. handoff \in Handoffs
    BY DEF TypeOK, RecordType
  <2>2. UNCHANGED <<gen, sent>> /\ handoff' = [handoff EXCEPT !.expired = TRUE]
    BY <1>1 DEF DeadlinePasses, bookVars
  <2> QED BY <2>1, <2>2 DEF Handoffs, Keeps, Same, HandoffMove
<1>2. CASE ~DeadlinePasses
  BY <1>2, KeepMove DEF Outside, ChannelAlerts, ChannelAnswers, ChannelFails,
     CustomerHangsUp, AgentHangsUp, EventsLost, MediaOpens, MediaEnds, recVars,
     bookVars
<1> QED BY <1>1, <1>2

LEMMA OriginatingMove == ASSUME TypeOK, Originating PROVE HandoffMove
BY KeepMove DEF Originating, OriginateStarts, MarkStarted, ResolveEndpoint,
   DialCustomer, OriginateReturns, recVars, bookVars

LEMMA HangingUpMove == ASSUME TypeOK, HangingUp PROVE HandoffMove
<1>1. CASE SyncFailed
  <2>1. Publish("call_failed") \/ UNCHANGED sent
    BY <1>1 DEF SyncFailed
  <2>2. sent'["handoff_failed"] = sent["handoff_failed"]
    BY <2>1, OtherPublish
  <2> QED BY <1>1, <2>2, KeepMove DEF SyncFailed, recVars
<1>2. CASE ~SyncFailed
  BY <1>2, KeepMove DEF HangingUp, CancelAndSubmitHangup, HangupSent,
     HangupAccepted, HangupRejected, NoticePlayed, WorkerCrash, SweepAgent,
     recVars, bookVars
<1> QED BY <1>1, <1>2

\* A claim thread at work, or an unfinished handoff, means a request was made.
LEMMA RequestMade ==
  ASSUME TypeOK, Untouched,
         handoff.state # "none" \/ \E a \in Agents : claim[a].pc # "idle"
  PROVE  gen > 0
BY DEF Untouched, TypeOK, RecordType

LEMMA StateMove ==
  ASSUME TypeOK, gen > 0, UNCHANGED <<gen, sent>>,
         NEW st \in HandoffStates \ {"none", "completed"},
         handoff' = [handoff EXCEPT !.state = st]
  PROVE  HandoffMove
<1>1. handoff \in Handoffs
  BY DEF TypeOK, RecordType
<1>2. handoff' \in Handoffs /\ handoff'.callback = handoff.callback
      /\ handoff'.state = st
  BY <1>1 DEF Handoffs
<1> QED BY <1>2 DEF Restates, Same, HandoffMove

LEMMA TimingMove == ASSUME TypeOK, Untouched, Timing PROVE HandoffMove
<1>1. PICK g \in 1..MaxHandoffs : ArmTimer(g) \/ TimerFires(g)
  BY DEF Timing
<1>2. CASE ArmTimer(g)
  BY <1>2, KeepMove DEF ArmTimer, recVars, bookVars
<1>3. CASE TimerFires(g)
  <2>1. UNCHANGED <<gen, sent>>
    BY <1>3 DEF TimerFires, bookVars
  <2>2. UNCHANGED handoff \/ (handoff.state = "waiting_agent" /\ GiveUpHandoff)
    BY <1>3 DEF TimerFires
  <2>3. CASE UNCHANGED handoff
    BY <2>1, <2>3, KeepMove
  <2>4. CASE handoff.state = "waiting_agent" /\ GiveUpHandoff
    BY <2>1, <2>4, RequestMade, StateMove DEF GiveUpHandoff, HandoffStates
  <2> QED BY <2>2, <2>3, <2>4
<1> QED BY <1>1, <1>2, <1>3

LEMMA ClaimingMove ==
  ASSUME TypeOK, Untouched, NEW a \in Agents, Claiming(a)
  PROVE  HandoffMove
<1>0. handoff \in Handoffs /\ {"handoff_failed", "agent_ringing", "bridging"}
        \subseteq HandoffStates \ {"none", "completed"}
  BY DEF TypeOK, RecordType, HandoffStates, Unbridged, Connecting
<1>1. gen > 0
  BY RequestMade DEF Claiming, ClaimCancelsTimer, ResolveAgent, SetAgentRinging,
     OriginateAgent, SetBridging, BreakAudioStream, BridgeCall, StartRecording,
     ActivateHuman, CleanupAgent, ReleaseClaim, RearmTimer
<1>2. UNCHANGED <<gen, sent>>
  BY DEF Claiming, ClaimCancelsTimer, ResolveAgent, SetAgentRinging,
     OriginateAgent, SetBridging, BreakAudioStream, BridgeCall, StartRecording,
     ActivateHuman, CleanupAgent, ReleaseClaim, RearmTimer, recVars, bookVars
<1>3. CASE SetAgentRinging(a)
  BY <1>0, <1>1, <1>2, <1>3, StateMove DEF SetAgentRinging
<1>4. CASE SetBridging(a)
  BY <1>0, <1>1, <1>2, <1>4, StateMove DEF SetBridging
<1>5. CASE ActivateHuman(a)
  <2>1. PICK r, t : handoff' = [handoff EXCEPT !.state = "human_active",
                                               !.recording = r,
                                               !.transcript = t]
    BY <1>5 DEF ActivateHuman
  <2>2. handoff'.state = "human_active" /\ handoff'.callback = handoff.callback
    BY <1>0, <2>1 DEF Handoffs
  <2> QED BY <1>1, <1>2, <2>2 DEF Restates, Same, HandoffMove
<1>6. CASE ReleaseClaim(a)
  <2>1. \/ handoff' = [handoff EXCEPT !.state = "handoff_failed"]
        \/ handoff' = [handoff EXCEPT !.state = "waiting_agent", !.agent = NoAgent]
    BY <1>6 DEF ReleaseClaim, GiveUpHandoff
  <2>2. /\ handoff'.state \in {"handoff_failed", "waiting_agent"}
        /\ handoff'.callback = handoff.callback
    BY <1>0, <2>1 DEF Handoffs
  <2> QED BY <1>1, <1>2, <2>2 DEF Restates, Same, HandoffMove
<1>7. CASE UNCHANGED handoff
  BY <1>2, <1>7, KeepMove
<1> QED BY <1>3, <1>4, <1>5, <1>6, <1>7 DEF Claiming, ClaimCancelsTimer,
  ResolveAgent, OriginateAgent, BreakAudioStream, BridgeCall, StartRecording,
  CleanupAgent, RearmTimer, recVars

LEMMA TranscriptFailureMove ==
  ASSUME TypeOK, UNCHANGED gen,
         SetHandoff([handoff EXCEPT !.transcript = "failed"])
  PROVE  HandoffMove
<1>1. handoff \in Handoffs /\ "failed" \in TranscriptStatuses
  BY DEF TypeOK, RecordType, TranscriptStatuses
<1>2. /\ [handoff EXCEPT !.transcript = "failed"] \in Handoffs
      /\ [handoff EXCEPT !.transcript = "failed"].state = handoff.state
      /\ [handoff EXCEPT !.transcript = "failed"].callback = handoff.callback
  BY <1>1 DEF Handoffs
<1> QED BY <1>2, SetHandoffMove

LEMMA TranscribingMove ==
  ASSUME TypeOK, SavedNotFailed, Transcribing
  PROVE  HandoffMove
<1>0. handoff \in Handoffs
      /\ {"completed", "processing"} \subseteq TranscriptStatuses \ {"failed"}
  BY DEF TypeOK, RecordType, TranscriptStatuses
<1>1. CASE StopRecording
  <2>1. UNCHANGED gen
    BY <1>1 DEF StopRecording
  <2>2. CASE handoff' = [handoff EXCEPT !.recording = "completed"] /\ UNCHANGED sent
    BY <1>0, <2>1, <2>2 DEF Handoffs, Keeps, Same, HandoffMove
  <2>3. CASE SetHandoff(RecordingFailed(handoff))
    <3>1. /\ RecordingFailed(handoff).state = handoff.state
          /\ RecordingFailed(handoff).callback = handoff.callback
      BY <1>0 DEF RecordingFailed, Handoffs
    <3> QED BY <1>0, <2>1, <2>3, <3>1, RecordingFailedType, SetHandoffMove
  <2> QED BY <1>1, <2>2, <2>3 DEF StopRecording
<1>2. CASE SubmitTranscription
  <2>1. UNCHANGED gen
    BY <1>2 DEF SubmitTranscription
  <2>2. CASE SetHandoff([handoff EXCEPT !.transcript = "failed"])
    BY <2>1, <2>2, TranscriptFailureMove
  <2>3. CASE handoff' = [handoff EXCEPT !.transcript = "processing"] /\ UNCHANGED sent
    BY <1>0, <2>1, <2>3, TranscriptMove
  <2>4. CASE UNCHANGED <<handoff, sent>>
    BY <2>1, <2>4, KeepMove
  <2> QED BY <1>2, <2>2, <2>3, <2>4 DEF SubmitTranscription
<1>3. CASE AsrFinishes
  <2>1. UNCHANGED <<gen, sent>>
    BY <1>3 DEF AsrFinishes, bookVars
  <2>2. CASE UNCHANGED handoff
    BY <2>1, <2>2, KeepMove
  <2>3. CASE handoff' = [handoff EXCEPT !.transcript = "completed"]
    BY <1>0, <2>1, <2>3, TranscriptMove
  <2> QED BY <1>3, <2>2, <2>3 DEF AsrFinishes, AcceptTranscript
<1>4. CASE MarkTranscriptFailed
  BY <1>4, TranscriptFailureMove DEF MarkTranscriptFailed
<1>5. ASSUME NEW x \in {"asr", "api"}, EnqueueResult(x) PROVE HandoffMove
  <2>1. saving[x] \in TranscriptStatuses \ {"failed"}
    BY <1>5 DEF EnqueueResult, SavedNotFailed, TypeOK, ThreadType
  <2>2. UNCHANGED <<gen, sent>>
    BY <1>5 DEF EnqueueResult
  <2>3. \/ UNCHANGED handoff
        \/ handoff' = [handoff EXCEPT !.transcript = saving[x]]
    BY <1>5 DEF EnqueueResult
  <2> QED BY <2>1, <2>2, <2>3, KeepMove, TranscriptMove
<1>6. ASSUME NEW r \in {"completed", "failed"}, WriteResult(r) PROVE HandoffMove
  <2>1. Publish("success") \/ Publish("result_failed")
    BY <1>6 DEF WriteResult
  <2>2. sent'["handoff_failed"] = sent["handoff_failed"]
    BY <2>1, OtherPublish
  <2> QED BY <1>6, <2>2, KeepMove DEF WriteResult, recVars
<1> QED BY <1>1, <1>2, <1>3, <1>4, <1>5, <1>6 DEF Transcribing

LEMMA RequestsMove == ASSUME TypeOK, Untouched, Requests PROVE HandoffMove
<1>0. handoff \in Handoffs /\ "completed" \in TranscriptStatuses \ {"failed"}
      /\ "handoff_failed" \in HandoffStates \ {"none", "completed"}
  BY DEF TypeOK, RecordType, TranscriptStatuses, HandoffStates
<1>1. CASE RequestHangup
  <2>1. UNCHANGED <<gen, sent>>
    BY <1>1 DEF RequestHangup, bookVars
  <2>2. CASE UNCHANGED handoff
    BY <2>1, <2>2, KeepMove
  <2>3. CASE /\ handoff.state \in Unbridged
             /\ handoff' = [handoff EXCEPT !.state = "handoff_failed"]
    <3>1. gen > 0
      BY <2>3, RequestMade DEF Unbridged, Connecting
    <3> QED BY <1>0, <2>1, <2>3, <3>1, StateMove
  <2> QED BY <1>1, <2>2, <2>3 DEF RequestHangup
<1>2. CASE RequestHandoff
  BY <1>2 DEF RequestHandoff, Handoff, bookVars, Opens, HandoffMove
<1>3. CASE PostTranscript
  <2>1. UNCHANGED gen
    BY <1>3 DEF PostTranscript
  <2>2. CASE handoff' = [handoff EXCEPT !.transcript = "completed"] /\ UNCHANGED sent
    BY <1>0, <2>1, <2>2, TranscriptMove
  <2>3. CASE SetHandoff([handoff EXCEPT !.transcript = "failed"])
    BY <2>1, <2>3, TranscriptFailureMove
  <2> QED BY <1>3, <2>2, <2>3 DEF PostTranscript, AcceptTranscript
<1>4. CASE MarkMediaConnected
  BY <1>4, KeepMove DEF MarkMediaConnected, bookVars
<1>5. ASSUME NEW a \in Agents, ClaimHandoff(a) PROVE HandoffMove
  <2>1. UNCHANGED <<gen, sent>> /\ handoff.state = "waiting_agent"
    BY <1>5 DEF ClaimHandoff, Claimable, bookVars
  <2>2. gen > 0
    BY <2>1, RequestMade
  <2>3. CASE handoff' = [handoff EXCEPT !.state = "handoff_failed"]
    BY <1>0, <2>1, <2>2, <2>3, StateMove
  <2>4. CASE handoff' = [handoff EXCEPT !.state = "agent_claimed", !.agent = a]
    <3>1. /\ handoff'.state = "agent_claimed"
          /\ handoff'.callback = handoff.callback
      BY <1>0, <2>4 DEF Handoffs
    <3> QED BY <2>1, <2>2, <3>1 DEF Restates, Same, HandoffMove
  <2> QED BY <1>5, <2>3, <2>4 DEF ClaimHandoff
<1> QED BY <1>1, <1>2, <1>3, <1>4, <1>5 DEF Requests

LEMMA HandoffMoves ==
  ASSUME TypeOK, Untouched, SavedNotFailed, [Next]_vars
  PROVE  HandoffMove
<1>1. CASE Next
  BY <1>1, OutsideMove, OriginatingMove, HangingUpMove, ListeningMove,
     TimingMove, TranscribingMove, RequestsMove, ClaimingMove DEF Next
<1>2. CASE UNCHANGED vars
  BY <1>2, KeepMove DEF vars, recVars, bookVars
<1> QED BY <1>1, <1>2

-----------------------------------------------------------------------------
(* The callbacks of the handoff                                            *)

LEMMA UntouchedStep ==
  ASSUME TypeOK, Untouched, SavedNotFailed, [Next]_vars
  PROVE  Untouched'
<1>1. HandoffMove
  BY HandoffMoves
<1>2. gen \in Nat
  BY BoundsAssumption DEF TypeOK, RecordType
<1>3. gen' # 0 \/ (gen = 0 /\ gen' = 0 /\ handoff'.state = handoff.state)
  BY <1>1, <1>2 DEF HandoffMove, Keeps, Restates, Opens, Reports, Settles, Same,
     Untouched
<1>4. ASSUME gen = 0 PROVE UNCHANGED claim
  <2>1. \A a \in Agents : ~Claiming(a) /\ ~ClaimHandoff(a)
    BY <1>4 DEF Untouched, Claiming, ClaimCancelsTimer, ResolveAgent,
       SetAgentRinging, OriginateAgent, SetBridging, BreakAudioStream, BridgeCall,
       StartRecording, ActivateHuman, CleanupAgent, ReleaseClaim, RearmTimer,
       ClaimHandoff, Claimable
  <2>2. CASE Outside
    BY <2>2 DEF Outside, ChannelAlerts, ChannelAnswers, ChannelFails,
       CustomerHangsUp, AgentHangsUp, EventsLost, MediaOpens, MediaEnds,
       DeadlinePasses
  <2>3. CASE Originating
    BY <2>3 DEF Originating, OriginateStarts, MarkStarted, ResolveEndpoint,
       DialCustomer, OriginateReturns
  <2>4. CASE HangingUp
    BY <2>4 DEF HangingUp, CancelAndSubmitHangup, HangupSent, HangupAccepted,
       HangupRejected, NoticePlayed, WorkerCrash, SyncFailed, SweepAgent
  <2>5. CASE Listening
    BY <2>5 DEF Listening, HandleChannelEvent, ListenerCancels, ListenerFinishes
  <2>6. CASE Timing
    BY <2>6 DEF Timing, ArmTimer, TimerFires
  <2>7. CASE Transcribing
    BY <2>7 DEF Transcribing, StopRecording, SubmitTranscription, AsrFinishes,
       MarkTranscriptFailed, EnqueueResult, WriteResult
  <2>8. CASE Requests
    BY <2>1, <2>8 DEF Requests, RequestHangup, RequestHandoff, PostTranscript,
       MarkMediaConnected
  <2>9. CASE UNCHANGED vars
    BY <2>9 DEF vars
  <2> QED BY <2>1, <2>2, <2>3, <2>4, <2>5, <2>6, <2>7, <2>8, <2>9 DEF Next
<1> QED BY <1>3, <1>4 DEF Untouched

\* A failed transcript of a finished conversation has been reported, and so is
\* settled: what is accepted, and saved, was not failed.
LEMMA AcceptNotFailed ==
  ASSUME TypeOK, SavedNotFailed, TranscriptFailureReported,
         NEW x \in {"asr", "api"}, handoff.state = "completed",
         ~TranscriptSettled, AcceptTranscript(x)
  PROVE  SavedNotFailed'
<1>1. handoff.transcript # "failed"
  BY DEF TranscriptSettled, TranscriptFailureReported
<1>2. saving' = [saving EXCEPT ![x] = handoff.transcript]
      /\ saving \in [{"asr", "api"} -> TranscriptStatuses \cup {"idle"}]
  BY DEF AcceptTranscript, TypeOK, ThreadType
<1> QED BY <1>1, <1>2 DEF SavedNotFailed

LEMMA SavedStep ==
  ASSUME TypeOK, SavedNotFailed, TranscriptFailureReported, [Next]_vars
  PROVE  SavedNotFailed'
<1>1. CASE UNCHANGED saving
  BY <1>1 DEF SavedNotFailed
<1>2. CASE AsrFinishes
  <2>1. \/ UNCHANGED saving
        \/ /\ handoff.state = "completed" /\ ~TranscriptSettled
           /\ AcceptTranscript("asr")
    BY <1>2 DEF AsrFinishes
  <2> QED BY <1>1, <2>1, AcceptNotFailed
<1>3. CASE PostTranscript
  <2>1. \/ UNCHANGED saving
        \/ /\ handoff.state = "completed" /\ ~TranscriptSettled
           /\ AcceptTranscript("api")
    BY <1>3 DEF PostTranscript
  <2> QED BY <1>1, <2>1, AcceptNotFailed
<1>4. ASSUME NEW x \in {"asr", "api"}, EnqueueResult(x) PROVE SavedNotFailed'
  <2>1. saving' = [saving EXCEPT ![x] = "idle"]
        /\ saving \in [{"asr", "api"} -> TranscriptStatuses \cup {"idle"}]
    BY <1>4 DEF EnqueueResult, TypeOK, ThreadType
  <2> QED BY <2>1 DEF SavedNotFailed
<1>5. CASE Outside
  BY <1>1, <1>5 DEF Outside, ChannelAlerts, ChannelAnswers, ChannelFails,
     CustomerHangsUp, AgentHangsUp, EventsLost, MediaOpens, MediaEnds,
     DeadlinePasses
<1>6. CASE Originating
  BY <1>1, <1>6 DEF Originating, OriginateStarts, MarkStarted, ResolveEndpoint,
     DialCustomer, OriginateReturns
<1>7. CASE HangingUp
  BY <1>1, <1>7 DEF HangingUp, CancelAndSubmitHangup, HangupSent, HangupAccepted,
     HangupRejected, NoticePlayed, WorkerCrash, SyncFailed, SweepAgent
<1>8. CASE Listening
  BY <1>1, <1>8 DEF Listening, HandleChannelEvent, ListenerCancels, ListenerFinishes
<1>9. CASE Timing
  BY <1>1, <1>9 DEF Timing, ArmTimer, TimerFires
<1>10. CASE Transcribing
  BY <1>1, <1>2, <1>4, <1>10 DEF Transcribing, StopRecording,
     SubmitTranscription, MarkTranscriptFailed, WriteResult
<1>11. CASE Requests
  BY <1>1, <1>3, <1>11 DEF Requests, RequestHangup, RequestHandoff,
     MarkMediaConnected, ClaimHandoff
<1>12. ASSUME NEW a \in Agents, Claiming(a) PROVE SavedNotFailed'
  BY <1>1, <1>12 DEF Claiming, ClaimCancelsTimer, ResolveAgent, SetAgentRinging,
     OriginateAgent, SetBridging, BreakAudioStream, BridgeCall, StartRecording,
     ActivateHuman, CleanupAgent, ReleaseClaim, RearmTimer
<1>13. CASE UNCHANGED vars
  BY <1>1, <1>13 DEF vars
<1> QED BY <1>5, <1>6, <1>7, <1>8, <1>9, <1>10, <1>11, <1>12, <1>13 DEF Next

LEMMA CallbackStep ==
  ASSUME CallbackInv, [Next]_vars
  PROVE  CallbackInv'
<1>0. TypeOK /\ TypeOK'
  BY TypeStep DEF CallbackInv
<1>1. HandoffMove
  BY HandoffMoves DEF CallbackInv
<1>2. /\ gen \in Nat /\ sent["handoff_failed"] \in Nat
      /\ handoff.callback \in {"none", "FAILED"}
  BY <1>0, BoundsAssumption DEF TypeOK, RecordType, BookType, Origins, Handoffs
<1>3. handoff.state # "none" => gen > 0
  BY <1>2 DEF CallbackInv, Untouched
<1>4. HandoffCallbackOnce'
  <2>1. CASE Keeps \/ Restates \/ Settles
    BY <2>1 DEF CallbackInv, Keeps, Restates, Settles, Same, HandoffCallbackOnce
  <2>2. CASE Opens
    BY <1>2, <2>2 DEF CallbackInv, Opens, HandoffCallbackOnce
  <2>3. CASE Reports
    BY <1>2, <1>3, <2>3 DEF CallbackInv, Reports, HandoffCallbackOnce
  <2> QED BY <1>1, <2>1, <2>2, <2>3 DEF HandoffMove
<1>5. TranscriptFailureReported'
  <2>1. CASE Keeps
    BY <2>1 DEF CallbackInv, Keeps, Same, TranscriptFailureReported
  <2>2. CASE Restates \/ Opens \/ Reports
    BY <2>2 DEF Restates, Opens, Reports, TranscriptFailureReported
  <2>3. CASE Settles
    BY <1>2, <2>3 DEF Settles, Same, TranscriptFailureDue,
       TranscriptFailureReported
  <2> QED BY <1>1, <2>1, <2>2, <2>3 DEF HandoffMove
<1> QED BY <1>0, <1>4, <1>5, UntouchedStep, SavedStep DEF CallbackInv

LEMMA InitCallback == Init => CallbackInv
<1> SUFFICES ASSUME Init PROVE CallbackInv
  OBVIOUS
<1>1. Untouched
  BY DEF Init, Untouched, Handoff
<1>2. SavedNotFailed
  BY DEF Init, SavedNotFailed
<1>3. HandoffCallbackOnce
  BY DEF Init, HandoffCallbackOnce, Origins
<1>4. TranscriptFailureReported
  BY DEF Init, TranscriptFailureReported, Handoff
<1> QED BY <1>1, <1>2, <1>3, <1>4, InitType DEF CallbackInv

\* Each handoff request publishes its FAILED callback at most once, whichever
\* threads fail its connection, its recording and its transcript, and however
\* many handoffs the call has had before.
THEOREM HandoffReportedOnce == Spec => []HandoffCallbackOnce
<1>1. CallbackInv /\ [Next]_vars => CallbackInv'
  BY CallbackStep
<1>2. CallbackInv => HandoffCallbackOnce
  BY DEF CallbackInv
<1> QED BY InitCallback, <1>1, <1>2, PTL DEF Spec

\* The transcript of a finished human conversation is never failed without its
\* FAILED callback, also when a refused enqueue gives back an older status.
THEOREM TranscriptFailureTold == Spec => []TranscriptFailureReported
<1>1. CallbackInv /\ [Next]_vars => CallbackInv'
  BY CallbackStep
<1>2. CallbackInv => TranscriptFailureReported
  BY DEF CallbackInv
<1> QED BY InitCallback, <1>1, <1>2, PTL DEF Spec

-----------------------------------------------------------------------------
(* The owner of a connecting handoff and of an agent's leg                 *)

\* A step that no claim thread takes: only a new request puts a handoff into
\* waiting_agent.
Elsewhere ==
  /\ UNCHANGED claim
  /\ \/ /\ gen' = gen
        /\ handoff'.state = handoff.state \/ handoff'.state \notin Unbridged
     \/ gen' = gen + 1 /\ handoff'.state = "waiting_agent"
  /\ \A a \in Agents : leg'[a] # "up" \/ leg'[a] = leg[a]

LEMMA StateElsewhere ==
  ASSUME TypeOK, UNCHANGED <<claim, leg, gen>>,
         NEW h \in Handoffs, handoff' = h, h.state \notin Unbridged
  PROVE  Elsewhere
BY DEF Elsewhere

LEMMA HandoffElsewhere ==
  ASSUME TypeOK, UNCHANGED <<claim, leg, gen>>,
         NEW h \in Handoffs, h.state = handoff.state, SetHandoff(h)
  PROVE  Elsewhere
<1>1. handoff' \in {h, [h EXCEPT !.callback = "FAILED"]}
  BY DEF SetHandoff
<1> QED BY <1>1 DEF Handoffs, Elsewhere

LEMMA ListeningElsewhere == ASSUME TypeOK, Listening PROVE Elsewhere
<1>1. UNCHANGED <<claim, leg, gen>>
  BY DEF Listening, HandleChannelEvent, ListenerCancels, ListenerFinishes, recVars,
     fsVars
<1>2. CASE HandleChannelEvent
  <2> DEFINE h == HandoffAfter(Head(evq))
  <2>1. h \in Handoffs /\ (h.state = handoff.state \/ h.state \notin Unbridged)
    <3>1. handoff \in Handoffs
      BY DEF TypeOK, RecordType
    <3>2. h \in {handoff, [handoff EXCEPT !.state = "completed"],
                 [handoff EXCEPT !.state = "handoff_failed"]}
      BY DEF HandoffAfter
    <3> QED BY <3>1, <3>2, HandoffAfterType DEF Handoffs, Unbridged, Connecting
  <2> HIDE DEF h
  <2>2. handoff' \in {h, [h EXCEPT !.recording = "stopping"],
                      [h EXCEPT !.callback = "FAILED"],
                      [[h EXCEPT !.recording = "stopping"]
                         EXCEPT !.callback = "FAILED"]}
    BY <1>2 DEF HandleChannelEvent, h
  <2>3. handoff'.state = h.state
    <3>1. [h EXCEPT !.recording = "stopping"] \in Handoffs
          /\ [h EXCEPT !.recording = "stopping"].state = h.state
      BY <2>1 DEF Handoffs, RecordingStatuses
    <3> QED BY <2>1, <2>2, <3>1 DEF Handoffs
  <2> QED BY <1>1, <2>1, <2>3 DEF Elsewhere
<1>3. CASE ListenerCancels \/ ListenerFinishes
  BY <1>1, <1>3 DEF ListenerCancels, ListenerFinishes, recVars, Elsewhere
<1> QED BY <1>2, <1>3 DEF Listening

LEMMA TranscribingElsewhere == ASSUME TypeOK, Transcribing PROVE Elsewhere
<1>0. handoff \in Handoffs /\ {"completed", "processing", "failed"}
        \subseteq TranscriptStatuses
  BY DEF TypeOK, RecordType, TranscriptStatuses
<1>1. UNCHANGED <<claim, leg, gen>>
  BY DEF Transcribing, StopRecording, SubmitTranscription, AsrFinishes,
     MarkTranscriptFailed, EnqueueResult, WriteResult, recVars, fsVars
<1>2. ASSUME NEW t \in TranscriptStatuses,
             handoff' = [handoff EXCEPT !.transcript = t]
      PROVE  Elsewhere
  BY <1>0, <1>1, <1>2 DEF Handoffs, Elsewhere
<1>3. CASE UNCHANGED handoff
  BY <1>1, <1>3 DEF Elsewhere
<1>4. CASE SetHandoff([handoff EXCEPT !.transcript = "failed"])
  <2>1. [handoff EXCEPT !.transcript = "failed"] \in Handoffs
        /\ [handoff EXCEPT !.transcript = "failed"].state = handoff.state
    BY <1>0 DEF Handoffs
  <2> QED BY <1>1, <1>4, <2>1, HandoffElsewhere
<1>5. CASE SetHandoff(RecordingFailed(handoff))
  <2>1. RecordingFailed(handoff).state = handoff.state
    BY <1>0 DEF RecordingFailed, Handoffs
  <2> QED BY <1>0, <1>1, <1>5, <2>1, RecordingFailedType, HandoffElsewhere
<1>6. CASE handoff' = [handoff EXCEPT !.recording = "completed"]
  BY <1>0, <1>1, <1>6 DEF Handoffs, Elsewhere
<1>7. ASSUME NEW x \in {"asr", "api"}, EnqueueResult(x) PROVE Elsewhere
  <2>1. saving[x] \in TranscriptStatuses
    BY <1>7 DEF EnqueueResult, TypeOK, ThreadType
  <2>2. UNCHANGED handoff \/ handoff' = [handoff EXCEPT !.transcript = saving[x]]
    BY <1>7 DEF EnqueueResult
  <2> QED BY <1>2, <1>3, <2>1, <2>2
<1>8. CASE StopRecording
  BY <1>5, <1>6, <1>8 DEF StopRecording
<1>9. CASE SubmitTranscription
  BY <1>0, <1>2, <1>3, <1>4, <1>9 DEF SubmitTranscription
<1>10. CASE AsrFinishes
  BY <1>0, <1>2, <1>3, <1>10 DEF AsrFinishes, AcceptTranscript
<1>11. CASE MarkTranscriptFailed
  BY <1>4, <1>11 DEF MarkTranscriptFailed
<1>12. ASSUME NEW r \in {"completed", "failed"}, WriteResult(r) PROVE Elsewhere
  BY <1>3, <1>12 DEF WriteResult, recVars
<1> QED BY <1>7, <1>8, <1>9, <1>10, <1>11, <1>12 DEF Transcribing

LEMMA OutsideElsewhere == ASSUME TypeOK, Outside PROVE Elsewhere
<1>0. handoff \in Handoffs /\ leg \in [Agents -> {"none", "up", "bridged"}]
  BY DEF TypeOK, RecordType, SwitchType
<1>1. CASE DeadlinePasses
  BY <1>0, <1>1 DEF DeadlinePasses, fsVars, Handoffs, Elsewhere
<1>2. ASSUME NEW a \in Agents, AgentHangsUp(a) PROVE Elsewhere
  BY <1>0, <1>2 DEF AgentHangsUp, recVars, Elsewhere
<1>3. CASE UNCHANGED <<claim, leg, handoff, gen>>
  BY <1>3 DEF Elsewhere
<1> QED BY <1>1, <1>2, <1>3 DEF Outside, ChannelAlerts, ChannelAnswers,
  ChannelFails, CustomerHangsUp, EventsLost, MediaOpens, MediaEnds, recVars,
  fsVars

LEMMA HangingUpElsewhere == ASSUME TypeOK, HangingUp PROVE Elsewhere
<1>1. ASSUME NEW a \in Agents, SweepAgent(a) PROVE Elsewhere
  <2>1. leg \in [Agents -> {"none", "up", "bridged"}]
    BY DEF TypeOK, SwitchType
  <2> QED BY <1>1, <2>1 DEF SweepAgent, DropLeg, recVars, Elsewhere
<1>2. CASE UNCHANGED <<claim, leg, handoff, gen>>
  BY <1>2 DEF Elsewhere
<1> QED BY <1>1, <1>2 DEF HangingUp, CancelAndSubmitHangup, HangupSent,
  HangupAccepted, HangupRejected, NoticePlayed, WorkerCrash, SyncFailed, recVars,
  fsVars

LEMMA TimingElsewhere == ASSUME TypeOK, Timing PROVE Elsewhere
<1>1. UNCHANGED <<claim, leg, gen>>
  BY DEF Timing, ArmTimer, TimerFires, recVars, fsVars
<1>2. UNCHANGED handoff \/ GiveUpHandoff
  BY DEF Timing, ArmTimer, TimerFires, recVars
<1>3. handoff \in Handoffs
  BY DEF TypeOK, RecordType
<1> QED BY <1>1, <1>2, <1>3 DEF GiveUpHandoff, Handoffs, Unbridged, Connecting,
  Elsewhere

LEMMA RequestsElsewhere ==
  ASSUME TypeOK, Requests, \A a \in Agents : ~ClaimHandoff(a)
  PROVE  Elsewhere
<1>0. handoff \in Handoffs
  BY DEF TypeOK, RecordType
<1>1. UNCHANGED <<claim, leg>>
  BY DEF Requests, RequestHangup, RequestHandoff, PostTranscript,
     MarkMediaConnected, fsVars
<1>2. CASE RequestHangup
  BY <1>0, <1>1, <1>2 DEF RequestHangup, Handoffs, Unbridged, Connecting, Elsewhere
<1>3. CASE RequestHandoff
  BY <1>1, <1>3 DEF RequestHandoff, Handoff, Elsewhere
<1>4. CASE PostTranscript
  <2>0. gen' = gen
    BY <1>4 DEF PostTranscript
  <2>1. CASE handoff' = [handoff EXCEPT !.transcript = "completed"]
    BY <1>0, <1>1, <2>0, <2>1 DEF Handoffs, Elsewhere
  <2>2. CASE SetHandoff([handoff EXCEPT !.transcript = "failed"])
    <3>1. [handoff EXCEPT !.transcript = "failed"] \in Handoffs
          /\ [handoff EXCEPT !.transcript = "failed"].state = handoff.state
      BY <1>0 DEF Handoffs, TranscriptStatuses
    <3> QED BY <1>1, <2>0, <2>2, <3>1, HandoffElsewhere
  <2> QED BY <1>4, <2>1, <2>2 DEF PostTranscript, AcceptTranscript
<1>5. CASE MarkMediaConnected
  BY <1>1, <1>5 DEF MarkMediaConnected, Elsewhere
<1> QED BY <1>2, <1>3, <1>4, <1>5 DEF Requests

\* A step is taken by a claim thread, or it is elsewhere.
LEMMA ElsewhereOrClaim ==
  ASSUME TypeOK, [Next]_vars
  PROVE  Elsewhere \/ \E a \in Agents : Claiming(a) \/ ClaimHandoff(a)
<1>1. CASE Originating
  BY <1>1 DEF Originating, OriginateStarts, MarkStarted, ResolveEndpoint,
     DialCustomer, OriginateReturns, recVars, fsVars, Elsewhere
<1>2. CASE UNCHANGED vars
  BY <1>2 DEF vars, recVars, fsVars, Elsewhere
<1> QED BY <1>1, <1>2, OutsideElsewhere, HangingUpElsewhere, ListeningElsewhere,
  TimingElsewhere, TranscribingElsewhere, RequestsElsewhere DEF Next

\* After a step of a claim thread the handoff is not connecting, or the thread
\* still works on it, or it was arming a timer and another one works on it.
LEMMA ClaimKeepsOwner ==
  ASSUME TypeOK, ConnectingHasOwner, NEW a \in Agents,
         Claiming(a) \/ ClaimHandoff(a)
  PROVE  ConnectingHasOwner'
<1>0. /\ handoff \in Handoffs
      /\ claim \in [Agents -> [pc : ClaimSteps, recording : RecordingStatuses,
                               gen : 0..MaxHandoffs]]
  BY DEF TypeOK, RecordType, ClaimType
<1>1. ASSUME NEW pc \in ClaimSteps \ {"idle", "schedule"}, Goto(a, pc)
      PROVE  ConnectingHasOwner'
  <2>1. claim'[a].pc = pc
    BY <1>0, <1>1 DEF Goto
  <2> QED BY <1>1, <2>1 DEF Working, ConnectingHasOwner
<1>2. CASE ClaimHandoff(a)
  <2>1. CASE claim' = [claim EXCEPT ![a].pc = "cancel", ![a].gen = gen]
    <3>1. claim'[a].pc = "cancel"
      BY <1>0, <2>1
    <3> QED BY <3>1 DEF Working, ConnectingHasOwner
  <2>2. CASE handoff' = [handoff EXCEPT !.state = "handoff_failed"]
    BY <1>0, <2>2 DEF Handoffs, Connecting, ConnectingHasOwner
  <2> QED BY <1>2, <2>1, <2>2 DEF ClaimHandoff
<1>3. CASE ActivateHuman(a)
  <2>1. PICK r, t : handoff' = [handoff EXCEPT !.state = "human_active",
                                               !.recording = r,
                                               !.transcript = t]
    BY <1>3 DEF ActivateHuman
  <2>2. handoff'.state = "human_active"
    BY <1>0, <2>1 DEF Handoffs
  <2> QED BY <2>2 DEF Connecting, ConnectingHasOwner
<1>4. CASE ReleaseClaim(a)
  <2>1. \/ handoff' = [handoff EXCEPT !.state = "handoff_failed"]
        \/ handoff' = [handoff EXCEPT !.state = "waiting_agent", !.agent = NoAgent]
    BY <1>4 DEF ReleaseClaim, GiveUpHandoff
  <2>2. handoff'.state \in {"handoff_failed", "waiting_agent"}
    BY <1>0, <2>1 DEF Handoffs
  <2> QED BY <2>2 DEF Connecting, ConnectingHasOwner
<1>5. CASE RearmTimer(a)
  <2>1. UNCHANGED handoff /\ \A b \in Agents \ {a} : claim'[b] = claim[b]
    BY <1>0, <1>5 DEF RearmTimer, Goto, recVars
  <2>2. ~Working(a)
    BY <1>5 DEF RearmTimer, Working
  <2> QED BY <2>1, <2>2 DEF Working, ConnectingHasOwner
<1>6. CASE StartRecording(a)
  <2>1. PICK r \in RecordingStatuses, pc \in {"cleanup", "activate"} :
          claim' = [claim EXCEPT ![a].recording = r, ![a].pc = pc]
    BY <1>6 DEF StartRecording, RecordingStatuses
  <2>2. claim'[a].pc \in {"cleanup", "activate"}
    BY <1>0, <2>1
  <2> QED BY <2>2 DEF Working, ConnectingHasOwner
<1>7. CASE ClaimCancelsTimer(a) \/ ResolveAgent(a) \/ SetAgentRinging(a)
  BY <1>1, <1>7 DEF ClaimCancelsTimer, ResolveAgent, SetAgentRinging, ClaimSteps
<1>8. CASE OriginateAgent(a) \/ SetBridging(a) \/ BreakAudioStream(a)
  BY <1>1, <1>8 DEF OriginateAgent, SetBridging, BreakAudioStream, ClaimSteps
<1>9. CASE BridgeCall(a) \/ CleanupAgent(a)
  BY <1>1, <1>9 DEF BridgeCall, CleanupAgent, ClaimSteps
<1> QED BY <1>2, <1>3, <1>4, <1>5, <1>6, <1>7, <1>8, <1>9 DEF Claiming

LEMMA InitOwner == Init => ConnectingHasOwner /\ AgentLegOwned
BY DEF Init, Handoff, Connecting, ConnectingHasOwner, AgentLegOwned

LEMMA OwnerStep ==
  ASSUME TypeOK, ConnectingHasOwner, [Next]_vars
  PROVE  ConnectingHasOwner'
<1>1. CASE Elsewhere
  BY <1>1 DEF Elsewhere, Working, ConnectingHasOwner, Unbridged, Connecting
<1> QED BY <1>1, ClaimKeepsOwner, ElsewhereOrClaim

\* No handoff is left connecting with nobody to activate, release or fail it:
\* its timer is canceled by then, so only a claim thread can still end it.
THEOREM ConnectingOwned == Spec => []ConnectingHasOwner
<1>1. TypeOK /\ ConnectingHasOwner /\ [Next]_vars => ConnectingHasOwner'
  BY OwnerStep
<1> QED BY InitOwner, TypeCorrect, <1>1, PTL DEF Spec

\* Nobody works on the first request while it waits for an agent.
WaitsAlone ==
  gen = 1 /\ handoff.state = "waiting_agent" => \A a \in Agents : ~Working(a)

\* The inductive invariant of OneClaim: before the first request there is no
\* claim, and while it waits none is left.
ClaimInv == CallbackInv /\ WaitsAlone /\ OneClaim

\* A claim thread that goes on keeps the handoff out of waiting_agent; one that
\* puts it there has stopped working.
LEMMA ClaimKeepsAlone ==
  ASSUME ClaimInv, NEW a \in Agents, Claiming(a) \/ ClaimHandoff(a)
  PROVE  WaitsAlone' /\ OneClaim'
<1>0. /\ handoff \in Handoffs
      /\ claim \in [Agents -> [pc : ClaimSteps, recording : RecordingStatuses,
                               gen : 0..MaxHandoffs]]
  BY DEF ClaimInv, CallbackInv, TypeOK, RecordType, ClaimType
<1>1. gen' = gen /\ \A b \in Agents \ {a} : (Working(b)' <=> Working(b))
  <2>1. \A b \in Agents \ {a} : claim'[b] = claim[b]
    BY <1>0 DEF Claiming, ClaimCancelsTimer, ResolveAgent, SetAgentRinging,
       OriginateAgent, SetBridging, BreakAudioStream, BridgeCall, StartRecording,
       ActivateHuman, CleanupAgent, ReleaseClaim, RearmTimer, ClaimHandoff, Goto
  <2>2. gen' = gen
    BY DEF Claiming, ClaimCancelsTimer, ResolveAgent, SetAgentRinging,
       OriginateAgent, SetBridging, BreakAudioStream, BridgeCall, StartRecording,
       ActivateHuman, CleanupAgent, ReleaseClaim, RearmTimer, ClaimHandoff, recVars
  <2> QED BY <2>1, <2>2 DEF Working
<1>2. CASE ~Working(a)'
  <2>1. OneClaim'
    BY <1>1, <1>2 DEF ClaimInv, OneClaim
  <2>2. CASE Working(a)
    BY <1>1, <1>2, <2>2 DEF ClaimInv, OneClaim, WaitsAlone
  <2>3. CASE ~Working(a)
    <3>1. handoff'.state # "waiting_agent" \/ handoff'.state = handoff.state
      <4>1. CASE ClaimHandoff(a)
        BY <1>0, <4>1 DEF ClaimHandoff, Handoffs
      <4>2. CASE RearmTimer(a)
        BY <4>2 DEF RearmTimer, recVars
      <4> QED BY <2>3, <4>1, <4>2 DEF Working, Claiming, ClaimCancelsTimer,
        ResolveAgent, SetAgentRinging, OriginateAgent, SetBridging,
        BreakAudioStream, BridgeCall, StartRecording, ActivateHuman,
        CleanupAgent, ReleaseClaim
    <3> QED BY <1>1, <1>2, <2>1, <2>3, <3>1 DEF ClaimInv, WaitsAlone
  <2> QED BY <2>1, <2>2, <2>3
<1>3. CASE Working(a)'
  <2>1. CASE ClaimHandoff(a)
    <3>1. handoff.state = "waiting_agent"
      BY <2>1 DEF ClaimHandoff, Claimable
    <3>2. handoff'.state # "waiting_agent"
      BY <1>0, <2>1 DEF ClaimHandoff, Handoffs
    <3> QED BY <1>1, <3>1, <3>2 DEF ClaimInv, OneClaim, WaitsAlone
  <2>2. CASE Claiming(a)
    <3>1. Working(a)
      BY <1>0, <1>3, <2>2 DEF Working, Claiming, ClaimCancelsTimer, ResolveAgent,
         SetAgentRinging, OriginateAgent, SetBridging, BreakAudioStream,
         BridgeCall, StartRecording, ActivateHuman, CleanupAgent, ReleaseClaim,
         RearmTimer, Goto
    <3>2. handoff'.state # "waiting_agent" \/ handoff'.state = handoff.state
      <4>1. ~ReleaseClaim(a)
        BY <1>0, <1>3 DEF ReleaseClaim, Goto, Working
      <4>2. CASE SetAgentRinging(a) \/ SetBridging(a) \/ ActivateHuman(a)
        BY <1>0, <4>2 DEF SetAgentRinging, SetBridging, ActivateHuman, Handoffs
      <4> QED BY <2>2, <4>1, <4>2 DEF Claiming, ClaimCancelsTimer, ResolveAgent,
        OriginateAgent, BreakAudioStream, BridgeCall, StartRecording,
        CleanupAgent, RearmTimer, recVars
    <3> QED BY <1>1, <1>3, <3>1, <3>2 DEF ClaimInv, OneClaim, WaitsAlone
  <2> QED BY <2>1, <2>2
<1> QED BY <1>2, <1>3

LEMMA ClaimInvStep == ASSUME ClaimInv, [Next]_vars PROVE ClaimInv'
<1>1. CallbackInv'
  BY CallbackStep DEF ClaimInv
<1>2. WaitsAlone' /\ OneClaim'
  <2>1. CASE Elsewhere
    <3>1. \A a \in Agents : Working(a)' <=> Working(a)
      BY <2>1 DEF Elsewhere, Working
    <3>2. CASE gen' = gen
      <4>1. handoff'.state = handoff.state \/ handoff'.state # "waiting_agent"
        BY <2>1, <3>2 DEF Elsewhere, Unbridged, ClaimInv, CallbackInv, TypeOK,
           RecordType
      <4> QED BY <3>1, <3>2, <4>1 DEF ClaimInv, WaitsAlone, OneClaim
    <3>3. CASE gen' = gen + 1
      <4>1. gen' = 1 => gen = 0
        BY <3>3 DEF ClaimInv, CallbackInv, TypeOK, RecordType
      <4>2. gen = 0 => \A a \in Agents : ~Working(a)
        BY DEF ClaimInv, CallbackInv, Untouched, Working
      <4> QED BY <3>1, <4>1, <4>2 DEF WaitsAlone, OneClaim
    <3> QED BY <2>1, <3>2, <3>3 DEF Elsewhere
  <2>2. TypeOK
    BY DEF ClaimInv, CallbackInv
  <2> QED BY <2>1, <2>2, ClaimKeepsAlone, ElsewhereOrClaim
<1> QED BY <1>1, <1>2 DEF ClaimInv

\* The first handoff request of a call is never worked on by two claim threads,
\* for any number of agents: a thread gives the request back only when it stops
\* working on it, and nobody claims it otherwise.
THEOREM FirstClaimAlone == Spec => []OneClaim
<1>1. Init => ClaimInv
  BY InitCallback DEF Init, ClaimInv, WaitsAlone, OneClaim
<1>2. ClaimInv /\ [Next]_vars => ClaimInv'
  BY ClaimInvStep
<1>3. ClaimInv => OneClaim
  BY DEF ClaimInv
<1> QED BY <1>1, <1>2, <1>3, PTL DEF Spec

\* While no socket fails, a claim thread gives up the agent's leg before it
\* leaves the steps in which the leg may be up.
LEMMA ClaimKeepsLeg ==
  ASSUME TypeOK, AgentLegOwned, Faults = FALSE, NEW a \in Agents,
         Claiming(a) \/ ClaimHandoff(a)
  PROVE  AgentLegOwned'
<1> DEFINE Owner == {"answered", "break", "bridge", "cleanup"}
<1>0. /\ leg \in [Agents -> {"none", "up", "bridged"}]
      /\ claim \in [Agents -> [pc : ClaimSteps, recording : RecordingStatuses,
                               gen : 0..MaxHandoffs]]
  BY DEF TypeOK, SwitchType, ClaimType
<1>1. \A b \in Agents \ {a} : claim'[b] = claim[b] /\ leg'[b] = leg[b]
  BY <1>0 DEF Claiming, ClaimCancelsTimer, ResolveAgent, SetAgentRinging,
     OriginateAgent, SetBridging, BreakAudioStream, BridgeCall, StartRecording,
     ActivateHuman, CleanupAgent, ReleaseClaim, RearmTimer, ClaimHandoff, DropLeg,
     Goto, fsVars
<1>2. leg'[a] = "up" => claim'[a].pc \in Owner
  <2>1. CASE claim[a].pc \notin Owner /\ UNCHANGED leg
    BY <2>1 DEF AgentLegOwned
  <2>2. CASE OriginateAgent(a)
    <3>1. CASE leg' = [leg EXCEPT ![a] = "up"]
               /\ Goto(a, IF CustomerInactive THEN "cleanup" ELSE "answered")
      BY <1>0, <3>1 DEF Goto
    <3>2. CASE UNCHANGED leg
      BY <2>2, <3>2 DEF OriginateAgent, AgentLegOwned
    <3> QED BY <2>2, <3>1, <3>2 DEF OriginateAgent
  <2>3. CASE SetBridging(a) \/ BreakAudioStream(a)
    BY <1>0, <2>3 DEF SetBridging, BreakAudioStream, Goto
  <2>4. CASE BridgeCall(a)
    <3>1. CASE leg' = [leg EXCEPT ![a] = "bridged"]
      BY <1>0, <3>1
    <3>2. CASE Goto(a, "cleanup")
      BY <1>0, <3>2 DEF Goto
    <3> QED BY <2>4, <3>1, <3>2 DEF BridgeCall
  <2>5. CASE CleanupAgent(a)
    BY <1>0, <2>5 DEF CleanupAgent, DropLeg
  <2> QED BY <2>1, <2>2, <2>3, <2>4, <2>5 DEF Claiming, ClaimCancelsTimer,
    ResolveAgent, SetAgentRinging, StartRecording, ActivateHuman, ReleaseClaim,
    RearmTimer, ClaimHandoff, fsVars
<1> QED BY <1>1, <1>2 DEF AgentLegOwned

LEMMA LegStep ==
  ASSUME TypeOK, AgentLegOwned, Faults = FALSE, [Next]_vars
  PROVE  AgentLegOwned'
<1>1. CASE Elsewhere
  BY <1>1 DEF Elsewhere, AgentLegOwned
<1> QED BY <1>1, ClaimKeepsLeg, ElsewhereOrClaim

\* While no socket fails, no exit of _handoff leaves an agent's softphone up
\* without a caller: the leg is killed before the claim is released.
THEOREM LegOwned ==
  ASSUME Faults = FALSE
  PROVE  Spec => []AgentLegOwned
<1>1. TypeOK /\ AgentLegOwned /\ [Next]_vars => AgentLegOwned'
  BY LegStep
<1> QED BY InitOwner, TypeCorrect, <1>1, PTL DEF Spec
=============================================================================
