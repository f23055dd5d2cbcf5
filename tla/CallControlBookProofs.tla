----------------------- MODULE CallControlBookProofs -----------------------
(***************************************************************************)
(* What CallControl guarantees of the books of a call: the call_record row *)
(* and the flow callbacks published for it; and of its recordings, each    *)
(* conversation's stopped by one worker.                                   *)
(***************************************************************************)
EXTENDS CallControlProofs, FiniteSets, FiniteSetTheorems

\* How one step may move the row and the callbacks gated on it: not at all, to
\* started, to failed with at most one FAILED, to completed with at most one
\* SUCCESS.
RowMove ==
  \/ /\ db' = db
     /\ sent'["call_failed"] = sent["call_failed"]
     /\ sent'["success"] = sent["success"]
  \/ /\ db \in {"0", "1"} /\ db' = "1"
     /\ sent'["call_failed"] = sent["call_failed"]
     /\ sent'["success"] = sent["success"]
  \/ /\ db \in {"0", "1"} /\ db' \in {"2", "3"}
     /\ sent'["call_failed"] \in {sent["call_failed"], sent["call_failed"] + 1}
     /\ sent'["success"] = sent["success"]
  \/ /\ db \in {"0", "1"} /\ db' = "4"
     /\ sent'["call_failed"] = sent["call_failed"]
     /\ sent'["success"] \in {sent["success"], sent["success"] + 1}

LEMMA PublishOne ==
  ASSUME sent \in [Origins -> Nat], NEW o \in Origins, Publish(o)
  PROVE  /\ sent'[o] = sent[o] + 1
         /\ \A p \in Origins \ {o} : sent'[p] = sent[p]
BY DEF Publish

\* A callback of the handoff or of the result writer is not gated on the row.
LEMMA UngatedPublish ==
  ASSUME TypeOK, UNCHANGED db,
         NEW o \in {"handoff_failed", "result_failed"},
         Publish(o) \/ UNCHANGED sent
  PROVE  RowMove
<1>1. sent \in [Origins -> Nat] /\ o \in Origins
      /\ {"call_failed", "success"} \subseteq Origins \ {o}
  BY DEF TypeOK, BookType, Origins
<1> QED BY <1>1, PublishOne DEF RowMove

LEMMA SetHandoffMove ==
  ASSUME TypeOK, UNCHANGED db, NEW h, SetHandoff(h)
  PROVE  RowMove
<1>1. Publish("handoff_failed") \/ UNCHANGED sent
  BY DEF SetHandoff
<1> QED BY <1>1, UngatedPublish

LEMMA UnchangedMove == ASSUME UNCHANGED bookVars PROVE RowMove
BY DEF bookVars, RowMove

LEMMA FailedRowMove ==
  ASSUME TypeOK, NEW to \in {"2", "3"}, UpdateRow(to),
         Publish("call_failed") \/ UNCHANGED sent
  PROVE  RowMove
<1>1. sent \in [Origins -> Nat] /\ "call_failed" \in Origins
      /\ "success" \in Origins \ {"call_failed"}
  BY DEF TypeOK, BookType, Origins
<1>2. CASE Publish("call_failed")
  BY <1>1, <1>2, PublishOne DEF RowMove, UpdateRow
<1>3. CASE UNCHANGED sent
  BY <1>3 DEF RowMove, UpdateRow
<1> QED BY <1>2, <1>3

LEMMA SyncMove == ASSUME TypeOK, SyncFailed PROVE RowMove
<1>1. \/ UpdateRow("2") /\ (Publish("call_failed") \/ UNCHANGED sent)
      \/ UNCHANGED <<db, sent>>
  BY DEF SyncFailed
<1>2. CASE UNCHANGED <<db, sent>>
  BY <1>2 DEF RowMove
<1> QED BY <1>1, <1>2, FailedRowMove

LEMMA ListenerMove == ASSUME TypeOK, Listening PROVE RowMove
<1>1. CASE HandleChannelEvent
  <2>1. UNCHANGED db /\ (Publish("handoff_failed") \/ UNCHANGED sent)
    BY <1>1 DEF HandleChannelEvent
  <2> QED BY <2>1, UngatedPublish
<1>2. CASE ListenerFinishes
  <2>1. listener.sync \in {"none", "2", "3"}
    BY DEF TypeOK, ThreadType
  <2>2. \/ /\ listener.sync \in {"2", "3"} /\ UpdateRow(listener.sync)
           /\ Publish("call_failed") \/ UNCHANGED sent
        \/ UNCHANGED <<db, sent>>
    BY <1>2, <2>1 DEF ListenerFinishes
  <2>3. CASE UNCHANGED <<db, sent>>
    BY <2>3 DEF RowMove
  <2> QED BY <2>2, <2>3, FailedRowMove
<1>3. CASE ListenerCancels
  BY <1>3 DEF ListenerCancels, bookVars, RowMove
<1> QED BY <1>1, <1>2, <1>3 DEF Listening

LEMMA WriterMove ==
  ASSUME TypeOK, NEW r \in {"completed", "failed"}, WriteResult(r)
  PROVE  RowMove
<1>0. sent \in [Origins -> Nat] /\ {"success", "result_failed"} \subseteq Origins
      /\ "call_failed" \in Origins \ {"success", "result_failed"}
  BY DEF TypeOK, BookType, Origins
<1>1. CASE db = "1" /\ db' = "4" /\ Publish("success")
  BY <1>0, <1>1, PublishOne DEF RowMove
<1>2. CASE db = "1" /\ db' = "4" /\ Publish("result_failed")
  BY <1>0, <1>2, PublishOne DEF RowMove
<1>3. CASE UpdateRow("2") /\ Publish("result_failed")
  BY <1>0, <1>3, PublishOne DEF RowMove, UpdateRow
<1>4. CASE UNCHANGED db /\ Publish("result_failed")
  BY <1>4, UngatedPublish
<1> QED BY <1>1, <1>2, <1>3, <1>4 DEF WriteResult

LEMMA RowMoves == ASSUME TypeOK, [Next]_vars PROVE RowMove
<1>1. CASE Outside
  <2>1. CASE MediaEnds
    BY <2>1 DEF MediaEnds, RowMove
  <2>2. CASE ~MediaEnds
    BY <1>1, <2>2, UnchangedMove DEF Outside, ChannelAlerts, ChannelAnswers,
       ChannelFails, CustomerHangsUp, AgentHangsUp, EventsLost, MediaOpens,
       DeadlinePasses
  <2> QED BY <2>1, <2>2
<1>2. CASE Originating
  <2>1. CASE MarkStarted
    BY <2>1 DEF MarkStarted, UpdateRow, RowMove
  <2>2. CASE ~MarkStarted
    BY <1>2, <2>2, UnchangedMove DEF Originating, OriginateStarts,
       ResolveEndpoint, DialCustomer, OriginateReturns
  <2> QED BY <2>1, <2>2
<1>3. CASE HangingUp
  <2>1. CASE ~SyncFailed
    BY <1>3, <2>1, UnchangedMove DEF HangingUp, CancelAndSubmitHangup,
       HangupSent, HangupAccepted, HangupRejected, NoticePlayed, WorkerCrash,
       SweepAgent
  <2> QED BY <2>1, SyncMove
<1>4. CASE Listening
  BY <1>4, ListenerMove
<1>5. CASE Timing
  BY <1>5, UnchangedMove DEF Timing, ArmTimer, TimerFires
<1>6. CASE Transcribing
  <2>1. CASE StopRecording
    BY <2>1, SetHandoffMove DEF StopRecording, RowMove
  <2>2. CASE SubmitTranscription
    BY <2>2, SetHandoffMove DEF SubmitTranscription, RowMove
  <2>3. CASE AsrFinishes
    BY <2>3, UnchangedMove DEF AsrFinishes
  <2>4. CASE MarkTranscriptFailed
    BY <2>4, SetHandoffMove DEF MarkTranscriptFailed
  <2>5. ASSUME NEW x \in {"asr", "api"}, EnqueueResult(x) PROVE RowMove
    BY <2>5 DEF EnqueueResult, RowMove
  <2> QED BY <1>6, <2>1, <2>2, <2>3, <2>4, <2>5, WriterMove DEF Transcribing
<1>7. CASE Requests
  <2>1. CASE PostTranscript
    BY <2>1, SetHandoffMove DEF PostTranscript, RowMove
  <2>2. CASE ~PostTranscript
    BY <1>7, <2>2, UnchangedMove DEF Requests, RequestHangup, RequestHandoff,
       MarkMediaConnected, ClaimHandoff
  <2> QED BY <2>1, <2>2
<1>8. ASSUME NEW a \in Agents, Claiming(a) PROVE RowMove
  BY <1>8, UnchangedMove DEF Claiming, ClaimCancelsTimer, ResolveAgent,
     SetAgentRinging, OriginateAgent, SetBridging, BreakAudioStream, BridgeCall,
     StartRecording, ActivateHuman, CleanupAgent, ReleaseClaim, RearmTimer
<1>9. CASE UNCHANGED vars
  BY <1>9, UnchangedMove DEF vars
<1> QED BY <1>1, <1>2, <1>3, <1>4, <1>5, <1>6, <1>7, <1>8, <1>9 DEF Next

LEMMA InitGated == Init => GatedCallbackOnce
BY DEF Init, GatedCallbackOnce, Origins

LEMMA GatedStep ==
  ASSUME TypeOK, GatedCallbackOnce, [Next]_vars
  PROVE  GatedCallbackOnce'
<1>1. sent["call_failed"] \in Nat /\ sent["success"] \in Nat
  BY DEF TypeOK, BookType, Origins
<1>2. RowMove
  BY RowMoves
<1> QED BY <1>1, <1>2 DEF RowMove, GatedCallbackOnce

\* However the listener, the workers and the result writer race for the row,
\* the FAILED and SUCCESS callbacks gated on its update are at most one, and
\* agree with the row.
THEOREM GatedOnce == Spec => []GatedCallbackOnce
<1>1. TypeOK /\ GatedCallbackOnce /\ [Next]_vars => GatedCallbackOnce'
  BY GatedStep
<1> QED BY InitGated, TypeCorrect, <1>1, PTL DEF Spec

\* No thread ever writes a row that is already failed, unanswered or completed.
THEOREM RowFinal == Spec => RowStaysFinal
<1>1. TypeOK /\ [Next]_vars => [(db \in Final) => (db' = db)]_db
  BY RowMoves DEF RowMove, Final
<1> QED BY TypeCorrect, <1>1, PTL DEF Spec, RowStaysFinal

-----------------------------------------------------------------------------
(* The recordings.  A request to hand over is one permission to stop the   *)
(* recordings, which somebody holds: the handoff that waits, each claim at *)
(* work on it, the conversation that is recorded, the listener that has    *)
(* used it.  Stale claims and repeated hangups pass it on or lose it, but  *)
(* never make two of it.                                                   *)

Workers == {a \in Agents : Working(a)}
Bit(holds) == IF holds THEN 1 ELSE 0
Waits == Bit(handoff.state = "waiting_agent")
Recorded == Bit(handoff.state = "human_active" /\ handoff.recording = "recording")
Stops == listener.stops

\* The inductive invariant: permissions are not more than requests, and the
\* recordings of a completed conversation are being stopped.
StopInv ==
  /\ TypeOK
  /\ IsFiniteSet(Workers)
  /\ Cardinality(Workers) + Waits + Recorded + Stops <= gen
  /\ handoff.state = "completed" => handoff.recording # "recording"

\* How one step may move the permissions.
SameWorkers == gen' = gen /\ Workers' = Workers
SameStops == Stops' = Stops
Quiet ==
  /\ SameWorkers
  /\ Waits' <= Waits /\ Recorded' <= Recorded /\ SameStops
RequestMade ==
  /\ gen' = gen + 1 /\ Workers' = Workers
  /\ Recorded' = 0 /\ SameStops
Joins(a) ==
  /\ gen' = gen /\ Workers' = Workers \cup {a}
  /\ Waits = 1 /\ Waits' = 0 /\ Recorded' = 0 /\ SameStops
Leaves(a) ==
  /\ gen' = gen /\ a \in Workers /\ Workers' = Workers \ {a}
  /\ Waits' + Recorded' <= 1 /\ SameStops
StopsOne ==
  /\ SameWorkers
  /\ Waits' <= Waits /\ Recorded = 1 /\ Recorded' = 0 /\ Stops' = Stops + 1

StopMove ==
  /\ handoff'.state = "completed" => handoff'.recording # "recording"
  /\ \/ Quiet \/ RequestMade \/ StopsOne
     \/ \E a \in Agents : Joins(a) \/ Leaves(a)

LEMMA BitsType ==
  ASSUME TypeOK
  PROVE  /\ Waits \in Nat /\ Recorded \in Nat /\ Stops \in Nat /\ gen \in Nat
         /\ Waits <= 1 /\ Recorded <= 1
BY BoundsAssumption DEF TypeOK, ThreadType, RecordType, WorkKinds, Waits, Recorded,
   Stops, Bit

LEMMA StopMoves ==
  ASSUME StopInv, StopMove, TypeOK'
  PROVE  StopInv'
<1> DEFINE n == Cardinality(Workers)
<1>1. /\ n \in Nat /\ IsFiniteSet(Workers)
      /\ n + Waits + Recorded + Stops <= gen
  BY FS_CardinalityType DEF StopInv
<1>2. /\ Waits \in Nat /\ Recorded \in Nat /\ Stops \in Nat /\ gen \in Nat
      /\ Waits' \in Nat /\ Recorded' \in Nat /\ Stops' \in Nat /\ gen' \in Nat
  <2>1. Waits \in Nat /\ Recorded \in Nat /\ Stops \in Nat /\ gen \in Nat
    BY BitsType DEF StopInv
  <2>2. Waits' \in Nat /\ Recorded' \in Nat /\ Stops' \in Nat /\ gen' \in Nat
    BY BoundsAssumption DEF TypeOK, ThreadType, RecordType, WorkKinds, Waits, Recorded,
       Stops, Bit
  <2> QED BY <2>1, <2>2
<1>3. PICK w, r, s, g : w = Waits' /\ r = Recorded' /\ s = Stops' /\ g = gen'
  OBVIOUS
<1>4. w \in Nat /\ r \in Nat /\ s \in Nat /\ g \in Nat
  BY <1>2, <1>3
<1> DEFINE Kept == IsFiniteSet(Workers') /\ Cardinality(Workers') + w + r + s <= g
<1>5. ASSUME Quiet PROVE Kept
  BY <1>1, <1>2, <1>3, <1>4, <1>5 DEF Quiet, SameWorkers, SameStops
<1>6. ASSUME RequestMade PROVE Kept
  <2>1. w <= 1
    BY <1>3 DEF Waits, Bit
  <2> QED BY <1>1, <1>2, <1>3, <1>4, <1>6, <2>1 DEF RequestMade, SameStops
<1>7. ASSUME StopsOne PROVE Kept
  BY <1>1, <1>2, <1>3, <1>4, <1>7 DEF StopsOne, SameWorkers
<1>8. ASSUME NEW a \in Agents, Joins(a) PROVE Kept
  <2>1. IsFiniteSet(Workers') /\ Cardinality(Workers') \in Nat /\ Cardinality(Workers') <= n + 1
    BY <1>1, <1>8, FS_AddElement DEF Joins
  <2> QED BY <1>1, <1>2, <1>3, <1>4, <1>8, <2>1 DEF Joins, SameStops
<1>9. ASSUME NEW a \in Agents, Leaves(a) PROVE Kept
  <2>1. IsFiniteSet(Workers') /\ Cardinality(Workers') = n - 1
    BY <1>1, <1>9, FS_RemoveElement DEF Leaves
  <2>2. w + r <= 1 /\ s = Stops /\ g = gen
    BY <1>3, <1>9 DEF Leaves, SameStops
  <2> QED BY <1>1, <1>2, <1>4, <2>1, <2>2
<1>10. Kept
  BY <1>5, <1>6, <1>7, <1>8, <1>9 DEF StopMove
<1>11. IsFiniteSet(Workers') /\ Cardinality(Workers') + Waits' + Recorded' + Stops' <= gen'
  BY <1>3, <1>10
<1> QED BY <1>11 DEF StopInv, StopMove

\* What becomes of the handoff where nobody joins, leaves or stops.
HandoffQuiet ==
  \/ /\ handoff'.state = handoff.state
     /\ handoff'.recording = handoff.recording \/ handoff'.recording # "recording"
  \/ handoff'.state \notin {"waiting_agent", "human_active", "completed"}

LEMMA QuietMove ==
  ASSUME StopInv, gen' = gen, Workers' = Workers, SameStops, HandoffQuiet
  PROVE  StopMove
<1>1. Waits' <= Waits /\ Recorded' <= Recorded
  BY DEF HandoffQuiet, Waits, Recorded, Bit
<1>2. handoff'.state = "completed" => handoff'.recording # "recording"
  BY DEF HandoffQuiet, StopInv
<1> QED BY <1>1, <1>2 DEF StopMove, Quiet, SameWorkers, SameStops

LEMMA SameClaims == ASSUME claim' = claim PROVE Workers' = Workers
BY DEF Workers, Working

LEMMA StillMove ==
  ASSUME StopInv, UNCHANGED <<gen, claim>>, SameStops, HandoffQuiet
  PROVE  StopMove
BY SameClaims, QuietMove

LEMMA NoHandoff == ASSUME UNCHANGED handoff PROVE HandoffQuiet
BY DEF HandoffQuiet

LEMMA OutsideStop == ASSUME StopInv, Outside PROVE StopMove
<1>1. CASE DeadlinePasses
  <2>1. handoff' = [handoff EXCEPT !.expired = TRUE] /\ handoff \in Handoffs
    BY <1>1 DEF DeadlinePasses, StopInv, TypeOK, RecordType
  <2>2. HandoffQuiet
    BY <2>1 DEF HandoffQuiet, Handoffs
  <2> QED BY <1>1, <2>2, StillMove DEF DeadlinePasses, SameStops, Stops, recVars
<1>2. CASE ~DeadlinePasses
  BY <1>2, NoHandoff, StillMove DEF SameStops, Stops, Outside, ChannelAlerts, ChannelAnswers,
     ChannelFails, CustomerHangsUp, AgentHangsUp, EventsLost, MediaOpens, MediaEnds,
     recVars
<1> QED BY <1>1, <1>2

LEMMA OriginatingStop == ASSUME StopInv, Originating PROVE StopMove
BY NoHandoff, StillMove DEF Originating, OriginateStarts, MarkStarted, ResolveEndpoint,
   DialCustomer, OriginateReturns, SameStops, Stops, recVars

LEMMA HangingUpStop == ASSUME StopInv, HangingUp PROVE StopMove
BY NoHandoff, StillMove DEF HangingUp, CancelAndSubmitHangup, HangupSent, HangupAccepted,
   HangupRejected, NoticePlayed, WorkerCrash, SyncFailed, SweepAgent, SameStops, Stops, recVars

\* The hangup of a recorded conversation uses its permission.
LEMMA ListeningStop == ASSUME StopInv, Listening PROVE StopMove
<1>0. handoff \in Handoffs /\ TypeOK
  BY DEF StopInv, TypeOK, RecordType
<1>1. CASE ListenerCancels \/ ListenerFinishes
  <2>1. listener'.stops = listener.stops
    BY <1>0, <1>1 DEF ListenerCancels, ListenerFinishes, Idle, TypeOK, ThreadType
  <2> QED BY <1>1, <2>1, NoHandoff, StillMove DEF ListenerCancels, ListenerFinishes, SameStops, Stops,
            recVars
<1>2. CASE HandleChannelEvent
  <2> DEFINE e == Head(evq)
             st == StatusAfter(e)
             h == HandoffAfter(e)
             h2 == IF StopDue(h) THEN [h EXCEPT !.recording = "stopping"] ELSE h
             due == TranscriptFailureDue(h2) \/ ConnectionFailureDue(h2, st)
             stops == listener.stops + (IF StopDue(h) THEN 1 ELSE 0)
  <2>1. /\ h \in Handoffs /\ h.recording = handoff.recording
        /\ \/ h.state = handoff.state
           \/ h.state = "completed" /\ handoff.state = "human_active"
           \/ h.state = "handoff_failed"
    <3>1. \/ h = handoff
          \/ h = [handoff EXCEPT !.state = "completed"] /\ handoff.state = "human_active"
          \/ h = [handoff EXCEPT !.state = "handoff_failed"]
      BY DEF HandoffAfter
    <3>2. h \in Handoffs
      BY <1>0, HandoffAfterType
    <3> QED BY <1>0, <3>1, <3>2 DEF Handoffs
  <2>2. h2 \in Handoffs /\ h2.state = h.state
        /\ h2.recording = IF StopDue(h) THEN "stopping" ELSE h.recording
    <3> HIDE DEF h
    <3>1. /\ [h EXCEPT !.recording = "stopping"] \in Handoffs
          /\ [h EXCEPT !.recording = "stopping"].recording = "stopping"
          /\ [h EXCEPT !.recording = "stopping"].state = h.state
      BY <2>1 DEF Handoffs, RecordingStatuses
    <3> QED BY <2>1, <3>1
  <2>3. /\ handoff' = IF due THEN [h2 EXCEPT !.callback = "FAILED"] ELSE h2
        /\ listener'.stops = stops
        /\ UNCHANGED <<gen, claim>>
    BY <1>2 DEF HandleChannelEvent, Idle
  <2>7. stops = IF StopDue(h) THEN Stops + 1 ELSE Stops
    BY <1>0 DEF Stops, TypeOK, ThreadType
  <2> HIDE DEF st, h, h2, due, e, stops
  <2>4. handoff'.state = h.state /\ handoff'.recording = h2.recording
    BY <2>2, <2>3 DEF Handoffs
  <2>5. CASE StopDue(h)
    <3>1. h.state = "completed" /\ handoff.recording = "recording"
      BY <2>1, <2>5 DEF StopDue
    <3>2. handoff.state = "human_active"
      BY <2>1, <3>1 DEF StopInv
    <3>3. handoff'.state = "completed" /\ handoff'.recording = "stopping"
      BY <2>2, <2>4, <2>5, <3>1
    <3>4. Stops' = Stops + 1
      BY <2>3, <2>5, <2>7 DEF Stops
    <3> QED BY <2>3, <3>1, <3>2, <3>3, <3>4, SameClaims
            DEF StopMove, StopsOne, SameWorkers, Waits, Recorded, Bit
  <2>6. CASE ~StopDue(h)
    <3>1. handoff'.state = h.state /\ handoff'.recording = handoff.recording
      BY <2>1, <2>2, <2>4, <2>6
    <3>2. CASE h.state = "completed" /\ handoff.state = "human_active"
      <4>1. handoff'.state = "completed" /\ handoff'.recording # "recording"
        BY <2>1, <2>6, <3>1, <3>2 DEF StopDue
      <4>2. SameStops
        BY <2>3, <2>6, <2>7 DEF Stops, SameStops
      <4>3. Waits' <= Waits /\ Recorded' <= Recorded
        BY <3>2, <4>1 DEF Waits, Recorded, Bit
      <4> QED BY <2>3, <4>1, <4>2, <4>3, SameClaims DEF StopMove, Quiet, SameWorkers
    <3>3. CASE h.state # "completed" \/ handoff.state # "human_active"
      BY <2>1, <2>3, <2>6, <2>7, <3>1, <3>3, StillMove DEF HandoffQuiet, SameStops, Stops
    <3> QED BY <3>2, <3>3
  <2> QED BY <2>5, <2>6
<1> QED BY <1>1, <1>2 DEF Listening

\* The handoff moves to a state in which nothing is recorded or waited for.
LEMMA LeftAlone ==
  ASSUME TypeOK, NEW st \in HandoffStates \ {"waiting_agent", "human_active", "completed"},
         handoff' = [handoff EXCEPT !.state = st]
  PROVE  HandoffQuiet
BY DEF TypeOK, RecordType, Handoffs, HandoffQuiet

LEMMA TimingStop == ASSUME StopInv, Timing PROVE StopMove
<1>1. PICK g \in 1..MaxHandoffs : ArmTimer(g) \/ TimerFires(g)
  BY DEF Timing
<1>2. CASE ArmTimer(g)
  BY <1>2, NoHandoff, StillMove DEF ArmTimer, SameStops, Stops, recVars
<1>3. CASE TimerFires(g)
  <2>1. UNCHANGED <<gen, claim>> /\ SameStops
    BY <1>3 DEF TimerFires, SameStops, Stops
  <2>2. CASE UNCHANGED handoff
    BY <2>1, <2>2, NoHandoff, StillMove
  <2>3. CASE GiveUpHandoff
    <3>1. HandoffQuiet
      BY <2>3, LeftAlone DEF GiveUpHandoff, HandoffStates, StopInv
    <3> QED BY <2>1, <3>1, StillMove
  <2> QED BY <1>3, <2>2, <2>3 DEF TimerFires
<1> QED BY <1>1, <1>2, <1>3

LEMMA RequestsStop == ASSUME StopInv, Requests PROVE StopMove
<1>0. TypeOK /\ handoff \in Handoffs
  BY DEF StopInv, TypeOK, RecordType
<1>1. CASE RequestHangup
  <2>1. HandoffQuiet
    BY <1>0, <1>1, LeftAlone, NoHandoff DEF RequestHangup, HandoffStates
  <2> QED BY <1>1, <2>1, StillMove DEF RequestHangup, SameStops, Stops
<1>2. CASE RequestHandoff
  <2>1. gen' = gen + 1 /\ UNCHANGED <<claim, listener>> /\ handoff' = Handoff("waiting_agent")
    BY <1>2 DEF RequestHandoff
  <2>2. handoff'.state = "waiting_agent"
    BY <2>1 DEF Handoff
  <2>3. Recorded' = 0 /\ SameStops
    BY <2>1, <2>2 DEF Recorded, Bit, SameStops, Stops
  <2> QED BY <2>1, <2>2, <2>3, SameClaims DEF StopMove, RequestMade
<1>3. CASE PostTranscript
  <2>1. UNCHANGED <<gen, claim, listener>>
    BY <1>3 DEF PostTranscript
  <2>2. HandoffQuiet
    <3>1. \/ handoff' = [handoff EXCEPT !.transcript = "completed"]
          \/ handoff' = [handoff EXCEPT !.transcript = "failed"]
          \/ handoff' = [[handoff EXCEPT !.transcript = "failed"] EXCEPT !.callback = "FAILED"]
      BY <1>3 DEF PostTranscript, AcceptTranscript, SetHandoff
    <3>2. handoff'.state = handoff.state /\ handoff'.recording = handoff.recording
      BY <1>0, <3>1 DEF Handoffs
    <3> QED BY <3>2 DEF HandoffQuiet
  <2> QED BY <2>1, <2>2, StillMove DEF SameStops, Stops
<1>4. CASE MarkMediaConnected
  BY <1>4, NoHandoff, StillMove DEF MarkMediaConnected, SameStops, Stops
<1>5. ASSUME NEW a \in Agents, ClaimHandoff(a) PROVE StopMove
  <2>1. handoff.state = "waiting_agent" /\ gen' = gen /\ SameStops
    BY <1>5 DEF ClaimHandoff, Claimable, SameStops, Stops
  <2>2. CASE handoff.expired
    <3>1. HandoffQuiet
      BY <1>0, <1>5, <2>2, LeftAlone DEF ClaimHandoff, HandoffStates
    <3> QED BY <1>5, <2>1, <2>2, <3>1, StillMove DEF ClaimHandoff
  <2>3. CASE ~handoff.expired
    <3>1. /\ handoff' = [handoff EXCEPT !.state = "agent_claimed", !.agent = a]
          /\ claim' = [claim EXCEPT ![a].pc = "cancel", ![a].gen = gen]
      BY <1>5, <2>3 DEF ClaimHandoff
    <3>2. handoff'.state = "agent_claimed"
      BY <1>0, <3>1 DEF Handoffs
    <3>3. Workers' = Workers \cup {a}
      <4>1. /\ claim'[a].pc = "cancel"
            /\ \A b \in Agents \ {a} : claim'[b] = claim[b]
        BY <1>0, <3>1 DEF TypeOK, ClaimType
      <4> QED BY <4>1 DEF Workers, Working
    <3>4. Waits = 1 /\ Waits' = 0 /\ Recorded' = 0
      BY <2>1, <3>2 DEF Waits, Recorded, Bit
    <3>5. Joins(a)
      BY <2>1, <3>3, <3>4 DEF Joins
    <3> QED BY <3>2, <3>5 DEF StopMove
  <2> QED BY <2>2, <2>3
<1> QED BY <1>1, <1>2, <1>3, <1>4, <1>5 DEF Requests

\* A claim goes on, or leaves for good.
LEMMA GoesOn ==
  ASSUME TypeOK, NEW a \in Agents, Working(a), NEW pc \in ClaimSteps \ {"idle", "schedule"},
         NEW c, claim' = [claim EXCEPT ![a] = c], c.pc = pc
  PROVE  Workers' = Workers
<1>1. claim'[a].pc = pc /\ \A b \in Agents \ {a} : claim'[b] = claim[b]
  BY DEF TypeOK, ClaimType
<1> QED BY <1>1 DEF Workers, Working

LEMMA GotoOn ==
  ASSUME TypeOK, NEW a \in Agents, Working(a), NEW pc \in ClaimSteps \ {"idle", "schedule"},
         Goto(a, pc)
  PROVE  Workers' = Workers
<1>1. claim'[a].pc = pc /\ \A b \in Agents \ {a} : claim'[b] = claim[b]
  BY DEF TypeOK, ClaimType, Goto
<1> QED BY <1>1 DEF Workers, Working

LEMMA LeavesClaim ==
  ASSUME TypeOK, NEW a \in Agents, Working(a), NEW pc \in {"idle", "schedule"},
         claim'[a].pc = pc, \A b \in Agents \ {a} : claim'[b] = claim[b]
  PROVE  a \in Workers /\ Workers' = Workers \ {a}
BY DEF Workers, Working

\* It leaves the handoff waiting, recorded or failed, or as it is.
LEMMA LeavesMove ==
  ASSUME StopInv, NEW a \in Agents, Working(a), NEW pc \in {"idle", "schedule"},
         claim'[a].pc = pc, \A b \in Agents \ {a} : claim'[b] = claim[b],
         gen' = gen, SameStops, handoff'.state # "completed"
  PROVE  StopMove
<1>1. a \in Workers /\ Workers' = Workers \ {a}
  BY LeavesClaim DEF StopInv
<1>2. Waits' + Recorded' <= 1
  BY DEF Waits, Recorded, Bit
<1> QED BY <1>1, <1>2 DEF StopMove, Leaves

LEMMA ClaimingStop ==
  ASSUME StopInv, NEW a \in Agents, Claiming(a)
  PROVE  StopMove
<1>0. TypeOK /\ handoff \in Handoffs /\ claim \in [Agents -> [pc : ClaimSteps,
        recording : RecordingStatuses, gen : 0..MaxHandoffs]]
  BY DEF StopInv, TypeOK, RecordType, ClaimType
<1>1. gen' = gen /\ SameStops
  BY DEF Claiming, ClaimCancelsTimer, ResolveAgent, SetAgentRinging, OriginateAgent,
     SetBridging, BreakAudioStream, BridgeCall, StartRecording, ActivateHuman,
     CleanupAgent, ReleaseClaim, RearmTimer, recVars, SameStops, Stops
<1>2. ASSUME NEW pc \in ClaimSteps \ {"idle", "schedule"}, Working(a), Goto(a, pc), HandoffQuiet
      PROVE  StopMove
  BY <1>0, <1>1, <1>2, GotoOn, QuietMove
<1>3. {"resolve", "release", "ring", "originate", "cleanup", "answered", "break", "bridge",
       "record", "activate"} \subseteq ClaimSteps \ {"idle", "schedule"}
  BY DEF ClaimSteps
<1>4. CASE ClaimCancelsTimer(a)
  BY <1>2, <1>3, <1>4, NoHandoff DEF ClaimCancelsTimer, Working, recVars
<1>5. CASE ResolveAgent(a)
  BY <1>2, <1>3, <1>5, NoHandoff DEF ResolveAgent, Working, recVars
<1>6. CASE SetAgentRinging(a)
  BY <1>0, <1>2, <1>3, <1>6, LeftAlone DEF SetAgentRinging, Working, HandoffStates,
     Unbridged, Connecting
<1>7. CASE OriginateAgent(a)
  BY <1>2, <1>3, <1>7, NoHandoff DEF OriginateAgent, Working, recVars
<1>8. CASE SetBridging(a)
  BY <1>0, <1>2, <1>3, <1>8, LeftAlone DEF SetBridging, Working, HandoffStates,
     Unbridged, Connecting
<1>9. CASE BreakAudioStream(a)
  BY <1>2, <1>3, <1>9, NoHandoff DEF BreakAudioStream, Working, recVars
<1>10. CASE BridgeCall(a)
  BY <1>2, <1>3, <1>10, NoHandoff DEF BridgeCall, Working, recVars
<1>11. CASE StartRecording(a)
  <2>1. PICK r \in {"recording", "failed", "disabled"}, pc \in {"cleanup", "activate"} :
          claim' = [claim EXCEPT ![a].recording = r, ![a].pc = pc]
    <3>1. PICK r \in {"recording", "failed", "disabled"} :
            claim' = [claim EXCEPT ![a].recording = r,
                                   ![a].pc = IF CustomerInactive THEN "cleanup" ELSE "activate"]
      BY <1>11 DEF StartRecording
    <3> QED BY <3>1
  <2>2. claim'[a].pc = pc /\ \A b \in Agents \ {a} : claim'[b] = claim[b]
    BY <1>0, <2>1
  <2>3. Workers' = Workers
    BY <1>11, <2>2 DEF StartRecording, Workers, Working
  <2> QED BY <1>1, <1>11, <2>3, NoHandoff, QuietMove DEF StartRecording, recVars
<1>12. CASE ActivateHuman(a)
  <2>1. PICK r, t : handoff' = [handoff EXCEPT !.state = "human_active",
                                               !.recording = r, !.transcript = t]
    BY <1>12 DEF ActivateHuman
  <2>2. handoff'.state # "completed"
    BY <1>0, <2>1 DEF Handoffs
  <2>3. claim'[a].pc = "idle" /\ \A b \in Agents \ {a} : claim'[b] = claim[b]
    BY <1>0, <1>12 DEF ActivateHuman, Goto
  <2> QED BY <1>1, <1>12, <2>2, <2>3, LeavesMove DEF ActivateHuman, Working
<1>13. CASE CleanupAgent(a)
  BY <1>2, <1>3, <1>13, NoHandoff DEF CleanupAgent, Working, recVars
<1>14. CASE ReleaseClaim(a)
  <2>1. \/ handoff' = [handoff EXCEPT !.state = "handoff_failed"]
        \/ handoff' = [handoff EXCEPT !.state = "waiting_agent", !.agent = NoAgent]
    BY <1>14 DEF ReleaseClaim, GiveUpHandoff
  <2>2. handoff'.state # "completed"
    BY <1>0, <2>1 DEF Handoffs
  <2>3. \/ Goto(a, "idle")
        \/ claim' = [claim EXCEPT ![a].pc = "schedule", ![a].gen = gen]
    BY <1>14 DEF ReleaseClaim
  <2>4. claim'[a].pc \in {"idle", "schedule"} /\ \A b \in Agents \ {a} : claim'[b] = claim[b]
    BY <1>0, <2>3 DEF Goto
  <2> QED BY <1>1, <1>14, <2>2, <2>4, LeavesMove DEF ReleaseClaim, Working
<1>15. CASE RearmTimer(a)
  <2>1. claim[a].pc = "schedule" /\ Goto(a, "idle") /\ UNCHANGED handoff
    BY <1>15 DEF RearmTimer, recVars
  <2>2. claim'[a].pc = "idle" /\ \A b \in Agents \ {a} : claim'[b] = claim[b]
    BY <1>0, <2>1 DEF Goto
  <2>3. Workers' = Workers
    BY <2>1, <2>2 DEF Workers, Working
  <2> QED BY <1>1, <2>1, <2>3, NoHandoff, QuietMove
<1> QED BY <1>4, <1>5, <1>6, <1>7, <1>8, <1>9, <1>10, <1>11, <1>12, <1>13, <1>14, <1>15
        DEF Claiming

\* The transcript or the callback changes, not the state or the recording.
LEMMA TranscriptQuiet ==
  ASSUME TypeOK, NEW h \in Handoffs, h.state = handoff.state,
         h.recording = handoff.recording \/ h.recording # "recording",
         handoff' = h \/ SetHandoff(h)
  PROVE  HandoffQuiet
<1>1. handoff' = h \/ handoff' = [h EXCEPT !.callback = "FAILED"]
  BY DEF SetHandoff
<1>2. handoff'.state = h.state /\ handoff'.recording = h.recording
  BY <1>1 DEF Handoffs
<1> QED BY <1>2 DEF HandoffQuiet

LEMMA TranscriptOnly ==
  ASSUME TypeOK, NEW t \in TranscriptStatuses,
         LET h == [handoff EXCEPT !.transcript = t] IN handoff' = h \/ SetHandoff(h)
  PROVE  HandoffQuiet
<1>1. handoff \in Handoffs
  BY DEF TypeOK, RecordType
<1>2. /\ [handoff EXCEPT !.transcript = t] \in Handoffs
      /\ [handoff EXCEPT !.transcript = t].state = handoff.state
      /\ [handoff EXCEPT !.transcript = t].recording = handoff.recording
  BY <1>1 DEF Handoffs
<1> QED BY <1>2, TranscriptQuiet

LEMMA TranscribingStop == ASSUME StopInv, Transcribing PROVE StopMove
<1>0. /\ TypeOK /\ handoff \in Handoffs
      /\ saving \in [{"asr", "api"} -> TranscriptStatuses \cup {"idle"}]
      /\ {"completed", "failed", "processing"} \subseteq TranscriptStatuses
  BY DEF StopInv, TypeOK, RecordType, ThreadType, TranscriptStatuses
<1>1. UNCHANGED <<gen, claim, listener>>
  BY DEF Transcribing, StopRecording, SubmitTranscription, AsrFinishes, MarkTranscriptFailed,
     EnqueueResult, WriteResult, recVars
<1>2. CASE StopRecording
  <2>1. ASSUME handoff' = [handoff EXCEPT !.recording = "completed"] PROVE HandoffQuiet
    BY <1>0, <2>1 DEF Handoffs, HandoffQuiet
  <2>2. ASSUME SetHandoff(RecordingFailed(handoff)) PROVE HandoffQuiet
    <3>1. /\ RecordingFailed(handoff).state = handoff.state
          /\ RecordingFailed(handoff).recording = "failed"
      BY <1>0 DEF RecordingFailed, Handoffs
    <3> QED BY <1>0, <2>2, <3>1, RecordingFailedType, TranscriptQuiet
  <2>3. HandoffQuiet
    BY <1>2, <2>1, <2>2 DEF StopRecording
  <2> QED BY <1>1, <2>3, StillMove DEF SameStops, Stops
<1>3. CASE SubmitTranscription \/ AsrFinishes \/ MarkTranscriptFailed
  <2>1. HandoffQuiet
    BY <1>0, <1>3, NoHandoff, TranscriptOnly DEF SubmitTranscription, AsrFinishes,
       AcceptTranscript, MarkTranscriptFailed
  <2> QED BY <1>1, <2>1, StillMove DEF SameStops, Stops
<1>4. ASSUME NEW x \in {"asr", "api"}, EnqueueResult(x) PROVE StopMove
  <2>1. saving[x] \in TranscriptStatuses
    BY <1>0, <1>4 DEF EnqueueResult
  <2>2. HandoffQuiet
    BY <1>0, <1>4, <2>1, NoHandoff, TranscriptOnly DEF EnqueueResult
  <2> QED BY <1>1, <2>2, StillMove DEF SameStops, Stops
<1>5. ASSUME NEW r \in {"completed", "failed"}, WriteResult(r) PROVE StopMove
  BY <1>1, <1>5, NoHandoff, StillMove DEF WriteResult, recVars, SameStops, Stops
<1> QED BY <1>2, <1>3, <1>4, <1>5 DEF Transcribing

LEMMA EveryMoveStops == ASSUME StopInv, [Next]_vars PROVE StopMove
<1>1. CASE UNCHANGED vars
  BY <1>1, NoHandoff, StillMove DEF vars, recVars, SameStops, Stops
<1> QED BY <1>1, OutsideStop, OriginatingStop, HangingUpStop, ListeningStop, TimingStop,
           RequestsStop, TranscribingStop, ClaimingStop DEF Next

LEMMA InitStop == Init => StopInv
<1> SUFFICES ASSUME Init PROVE StopInv
  OBVIOUS
<1>1. Workers = {}
  BY DEF Init, Workers, Working
<1>2. IsFiniteSet(Workers) /\ Cardinality(Workers) = 0
  BY <1>1, FS_EmptySet
<1>3. handoff.state = "none" /\ gen = 0
  BY DEF Init, Handoff
<1>4. Waits = 0 /\ Recorded = 0
  BY <1>3 DEF Waits, Recorded, Bit
<1>5. Stops = 0
  BY DEF Init, Stops, Idle
<1> QED BY <1>2, <1>3, <1>4, <1>5, InitType DEF StopInv

\* In the whole call the listener has recordings stopped no more often than a
\* human was asked for, although every hangup event looks at them again and a
\* claim of an earlier request may activate its conversation late.
THEOREM StoppedOnce == Spec => []RecordingStoppedOnce
<1>1. StopInv /\ [Next]_vars => StopInv'
  BY EveryMoveStops, StopMoves, TypeStep DEF StopInv
<1>2. StopInv => RecordingStoppedOnce
  <2> SUFFICES ASSUME StopInv PROVE RecordingStoppedOnce
    OBVIOUS
  <2>1. /\ Cardinality(Workers) \in Nat
        /\ Cardinality(Workers) + Waits + Recorded + Stops <= gen
        /\ Waits \in Nat /\ Recorded \in Nat /\ Stops \in Nat /\ gen \in Nat
    BY FS_CardinalityType, BitsType DEF StopInv
  <2>2. Stops <= gen
    BY <2>1
  <2> QED BY <2>2 DEF RecordingStoppedOnce, Stops
<1> QED BY InitStop, <1>1, <1>2, PTL DEF Spec
=============================================================================
