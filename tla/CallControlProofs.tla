------------------------- MODULE CallControlProofs -------------------------
(***************************************************************************)
(* What CallControl guarantees for any set of agents, any hangup causes    *)
(* and any number of handoffs, hangups and posts, with and without faults. *)
(***************************************************************************)
EXTENDS CallControl, TLAPS

\* The types each shared helper needs and keeps.
LEMMA SubmitType ==
  ASSUME work \in [WorkKinds -> Nat], NEW kind \in WorkKinds, Submit(kind)
  PROVE  work' \in [WorkKinds -> Nat]
BY DEF Submit

LEMMA FinishType ==
  ASSUME work \in [WorkKinds -> Nat], NEW kind \in WorkKinds, Finish(kind)
  PROVE  work' \in [WorkKinds -> Nat]
BY DEF Finish

LEMMA AdvanceType ==
  ASSUME work \in [WorkKinds -> Nat], NEW kind \in WorkKinds,
         NEW next \in WorkKinds, Advance(kind, next)
  PROVE  work' \in [WorkKinds -> Nat]
<1>1. work[kind] - 1 \in Nat
  BY DEF Advance
<1> QED BY <1>1 DEF Advance

LEMMA PublishType ==
  ASSUME sent \in [Origins -> Nat], NEW origin \in Origins, Publish(origin)
  PROVE  sent' \in [Origins -> Nat]
BY DEF Publish

LEMMA SetHandoffType ==
  ASSUME sent \in [Origins -> Nat], NEW h \in Handoffs, SetHandoff(h)
  PROVE  handoff' \in Handoffs /\ sent' \in [Origins -> Nat]
<1>1. "handoff_failed" \in Origins
  BY DEF Origins
<1>2. CASE TranscriptFailureDue(h)
  <2>1. handoff' = [h EXCEPT !.callback = "FAILED"] /\ Publish("handoff_failed")
    BY <1>2 DEF SetHandoff
  <2>2. handoff' \in Handoffs
    BY <2>1 DEF Handoffs
  <2> QED BY <1>1, <2>1, <2>2, PublishType
<1>3. CASE ~TranscriptFailureDue(h)
  BY <1>3 DEF SetHandoff
<1> QED BY <1>2, <1>3

LEMMA InitType == Init => TypeOK
<1> SUFFICES ASSUME Init PROVE TypeOK
  OBVIOUS
<1>0. MaxHandoffs \in Nat /\ MaxHangups \in Nat /\ MaxPosts \in Nat
  BY BoundsAssumption
<1>1. RecordType
  <2>1. Handoff("none") \in Handoffs
    BY DEF Handoff, Handoffs, HandoffStates, Unbridged, Connecting,
           RecordingStatuses, TranscriptStatuses
  <2>2. "queued" \in Statuses
    BY DEF Statuses
  <2>3. status \in Statuses /\ handoff \in Handoffs
    BY <2>1, <2>2 DEF Init
  <2>4. engaged \in BOOLEAN
    BY DEF Init
  <2>5. gen \in 0..MaxHandoffs
    BY <1>0 DEF Init
  <2> QED BY <2>3, <2>4, <2>5 DEF RecordType
<1>2. ClaimType
  BY <1>0 DEF Init, ClaimType, ClaimSteps, RecordingStatuses
<1>3. ThreadType
  <2>1. saving \in [{"asr", "api"} -> TranscriptStatuses \cup {"idle"}]
    BY DEF Init
  <2>2. listener \in [busy : BOOLEAN, cancel : BOOLEAN, sync : {"none", "2", "3"},
                      silent : BOOLEAN, stops : Nat]
    BY DEF Init, Idle
  <2> QED BY <1>0, <2>1, <2>2 DEF Init, ThreadType
<1>4. TimerType
  BY <1>0 DEF Init, TimerType
<1>5. BookType
  BY DEF Init, BookType
<1>6. SwitchType
  <2>1. evq \in Seq({"progress", "answer", "hangup", "hangup_complete"})
    BY DEF Init
  <2> QED BY <2>1 DEF Init, SwitchType, AllCauses
<1> QED BY <1>1, <1>2, <1>3, <1>4, <1>5, <1>6 DEF TypeOK

-----------------------------------------------------------------------------
(* What an action leaves alone keeps its type.                             *)

LEMMA Frames ==
  ASSUME TypeOK
  PROVE  /\ UNCHANGED recVars => RecordType'
         /\ UNCHANGED claim => ClaimType'
         /\ UNCHANGED <<orig, work, sweep, listener, saving, hangups, posts>>
              => ThreadType'
         /\ UNCHANGED timerVars => TimerType'
         /\ UNCHANGED bookVars => BookType'
         /\ UNCHANGED <<fsVars, media>> => SwitchType'
<1>1. UNCHANGED recVars => RecordType'
  BY DEF TypeOK, RecordType, recVars
<1>2. UNCHANGED claim => ClaimType'
  BY DEF TypeOK, ClaimType
<1>3. UNCHANGED <<orig, work, sweep, listener, saving, hangups, posts>>
        => ThreadType'
  BY DEF TypeOK, ThreadType
<1>4. UNCHANGED timerVars => TimerType'
  BY DEF TypeOK, TimerType, timerVars
<1>5. UNCHANGED bookVars => BookType'
  BY DEF TypeOK, BookType, bookVars
<1>6. UNCHANGED <<fsVars, media>> => SwitchType'
  BY DEF TypeOK, SwitchType, fsVars
<1> QED BY <1>1, <1>2, <1>3, <1>4, <1>5, <1>6

LEMMA HandoffStateType ==
  ASSUME handoff \in Handoffs, NEW st \in HandoffStates,
         handoff' = [handoff EXCEPT !.state = st]
  PROVE  handoff' \in Handoffs
BY DEF Handoffs

LEMMA RecordStep ==
  ASSUME TypeOK, status' \in Statuses, handoff' \in Handoffs,
         UNCHANGED <<engaged, gen>>
  PROVE  RecordType'
BY DEF TypeOK, RecordType

LEMMA WorkStep ==
  ASSUME TypeOK, work' \in [WorkKinds -> Nat],
         UNCHANGED <<orig, sweep, listener, saving, hangups, posts>>
  PROVE  ThreadType'
BY DEF TypeOK, ThreadType

LEMMA GotoType ==
  ASSUME TypeOK, NEW a \in Agents, NEW pc \in ClaimSteps, Goto(a, pc)
  PROVE  ClaimType'
BY DEF TypeOK, ClaimType, Goto

LEMMA CancelTimerType ==
  ASSUME TypeOK, CancelTimer, UNCHANGED unsched
  PROVE  TimerType'
<1>1. entry' \in 0..MaxHandoffs
  BY BoundsAssumption DEF CancelTimer
<1>2. timers' \subseteq 0..MaxHandoffs
  BY DEF CancelTimer, TypeOK, TimerType
<1> QED BY <1>1, <1>2 DEF TypeOK, TimerType

LEMMA ScheduleTimerType ==
  ASSUME TypeOK, NEW g \in 0..MaxHandoffs, ScheduleTimer(g),
         unsched' \subseteq unsched
  PROVE  TimerType'
<1>1. timers' \subseteq 0..MaxHandoffs
  BY DEF ScheduleTimer, TypeOK, TimerType
<1> QED BY <1>1 DEF ScheduleTimer, TypeOK, TimerType

LEMMA EndChannelType ==
  ASSUME TypeOK, NEW c \in AllCauses, EndChannel(c), UNCHANGED media,
         leg' \in [Agents -> {"none", "up", "bridged"}]
  PROVE  SwitchType'
<1> DEFINE E == {"progress", "answer", "hangup", "hangup_complete"}
<1>1. evq \in Seq(E) /\ <<"hangup", "hangup_complete">> \in Seq(E)
  BY DEF TypeOK, SwitchType
<1>2. evq' \in Seq(E)
  BY <1>1 DEF EndChannel
<1>3. chan' \in {"ended", "failed"} /\ cause' \in AllCauses
  BY DEF EndChannel
<1> QED BY <1>2, <1>3 DEF TypeOK, SwitchType

LEMMA UuidKillType ==
  ASSUME TypeOK, NEW from \in WorkKinds, UuidKill(from), UNCHANGED <<leg, media>>
  PROVE  work' \in [WorkKinds -> Nat] /\ SwitchType'
<1>1. {"kill_ok", "kill_err"} \subseteq WorkKinds /\ "normal" \in AllCauses
  BY DEF WorkKinds, AllCauses
<1>2. work \in [WorkKinds -> Nat] /\ leg \in [Agents -> {"none", "up", "bridged"}]
  BY DEF TypeOK, ThreadType, SwitchType
<1>3. CASE Live /\ Advance(from, "kill_ok") /\ EndChannel("normal")
  BY <1>1, <1>2, <1>3, AdvanceType, EndChannelType
<1>4. CASE ~Live /\ Advance(from, "kill_err") /\ UNCHANGED <<chan, cause, evq>>
  BY <1>1, <1>2, <1>4, AdvanceType, Frames DEF fsVars
<1> QED BY <1>3, <1>4 DEF UuidKill

-----------------------------------------------------------------------------
(* Each group of actions keeps TypeOK.                                     *)

LEMMA OutsideType == ASSUME TypeOK, Outside PROVE TypeOK'
<1> DEFINE E == {"progress", "answer", "hangup", "hangup_complete"}
<1>0. /\ evq \in Seq(E) /\ cause \in AllCauses /\ {"normal", "other"} \subseteq AllCauses
      /\ leg \in [Agents -> {"none", "up", "bridged"}]
      /\ media \in {"none", "opening", "connected", "deferred", "closed"}
  BY DEF TypeOK, SwitchType, AllCauses
<1>1. CASE ChannelAlerts
  <2>1. evq' \in Seq(E) /\ chan' = "alerting"
    BY <1>0, <1>1 DEF ChannelAlerts
  <2>2. SwitchType'
    BY <1>0, <1>1, <2>1 DEF ChannelAlerts, SwitchType
  <2> QED BY <1>1, <2>2, Frames DEF ChannelAlerts, TypeOK
<1>2. CASE ChannelAnswers
  <2>1. evq' \in Seq(E) /\ chan' = "up"
    BY <1>0, <1>2 DEF ChannelAnswers
  <2>2. SwitchType'
    BY <1>0, <1>2, <2>1 DEF ChannelAnswers, SwitchType
  <2> QED BY <1>2, <2>2, Frames DEF ChannelAnswers, TypeOK
<1>3. CASE ChannelFails
  <2>1. PICK c \in Causes : EndChannel(c)
    BY <1>3 DEF ChannelFails
  <2>2. SwitchType'
    BY <1>0, <1>3, <2>1, CausesAssumption, EndChannelType DEF ChannelFails
  <2> QED BY <1>3, <2>2, Frames DEF ChannelFails, TypeOK
<1>4. CASE CustomerHangsUp
  <2>1. PICK c \in {"normal", "other"} : EndChannel(c)
    BY <1>4 DEF CustomerHangsUp
  <2>2. SwitchType'
    BY <1>0, <1>4, <2>1, EndChannelType DEF CustomerHangsUp
  <2> QED BY <1>4, <2>2, Frames DEF CustomerHangsUp, TypeOK
<1>5. ASSUME NEW a \in Agents, AgentHangsUp(a) PROVE TypeOK'
  <2>1. leg' \in [Agents -> {"none", "up", "bridged"}] /\ UNCHANGED media
    BY <1>0, <1>5 DEF AgentHangsUp
  <2>2. EndChannel("normal") \/ UNCHANGED <<chan, cause, evq>>
    BY <1>5 DEF AgentHangsUp
  <2>3. SwitchType'
    <3>1. CASE EndChannel("normal")
      BY <1>0, <2>1, <3>1, EndChannelType
    <3>2. CASE UNCHANGED <<chan, cause, evq>>
      BY <2>1, <3>2 DEF TypeOK, SwitchType
    <3> QED BY <2>2, <3>1, <3>2
  <2> QED BY <1>5, <2>3, Frames DEF AgentHangsUp, TypeOK
<1>6. CASE EventsLost
  <2>1. evq' \in Seq(E)
    BY <1>6 DEF EventsLost
  <2>2. SwitchType'
    BY <1>6, <2>1 DEF EventsLost, TypeOK, SwitchType
  <2> QED BY <1>6, <2>2, Frames DEF EventsLost, TypeOK
<1>7. CASE MediaOpens
  <2>1. SwitchType'
    BY <1>7 DEF MediaOpens, TypeOK, SwitchType, fsVars
  <2> QED BY <1>7, <2>1, Frames DEF MediaOpens, TypeOK
<1>8. CASE MediaEnds
  <2>1. SwitchType'
    BY <1>8 DEF MediaEnds, TypeOK, SwitchType, fsVars
  <2>2. results' \in [{"completed", "failed"} -> Nat]
    BY <1>8 DEF MediaEnds, TypeOK, BookType
  <2>3. BookType'
    BY <1>8, <2>2 DEF MediaEnds, TypeOK, BookType
  <2> QED BY <1>8, <2>1, <2>3, Frames DEF MediaEnds, TypeOK
<1>9. CASE DeadlinePasses
  <2>1. handoff' \in Handoffs
    BY <1>9 DEF DeadlinePasses, TypeOK, RecordType, Handoffs
  <2>2. RecordType'
    BY <1>9, <2>1 DEF DeadlinePasses, TypeOK, RecordType
  <2> QED BY <1>9, <2>2, Frames DEF DeadlinePasses, TypeOK
<1> QED BY <1>1, <1>2, <1>3, <1>4, <1>5, <1>6, <1>7, <1>8, <1>9 DEF Outside

LEMMA OriginatingType == ASSUME TypeOK, Originating PROVE TypeOK'
<1>0. /\ {"failed", "originating", "originated"} \subseteq Statuses
      /\ {"sync_failed", "crash"} \subseteq WorkKinds
      /\ work \in [WorkKinds -> Nat]
      /\ status \in Statuses
  BY DEF TypeOK, RecordType, ThreadType, Statuses, InactiveStatuses,
         TerminalStatuses, WorkKinds
<1>1. CASE OriginateStarts
  <2>1. RecordType'
    BY <1>0, <1>1 DEF OriginateStarts, TypeOK, RecordType
  <2>2. ThreadType'
    BY <1>1 DEF OriginateStarts, TypeOK, ThreadType
  <2> QED BY <1>1, <2>1, <2>2, Frames DEF OriginateStarts, TypeOK
<1>2. CASE MarkStarted
  <2>1. ThreadType'
    BY <1>2 DEF MarkStarted, TypeOK, ThreadType
  <2>2. BookType'
    BY <1>2 DEF MarkStarted, UpdateRow, TypeOK, BookType
  <2> QED BY <1>2, <2>1, <2>2, Frames DEF MarkStarted, TypeOK
<1>3. CASE ResolveEndpoint
  <2>1. status' \in Statuses /\ UNCHANGED <<engaged, handoff, gen>>
    BY <1>0, <1>3 DEF ResolveEndpoint, recVars
  <2>2. RecordType'
    BY <2>1 DEF TypeOK, RecordType
  <2>3. work' \in [WorkKinds -> Nat]
    BY <1>0, <1>3, SubmitType DEF ResolveEndpoint
  <2>4. orig' \in {"dial", "done"}
    BY <1>3 DEF ResolveEndpoint
  <2>5. ThreadType'
    BY <1>3, <2>3, <2>4 DEF ResolveEndpoint, TypeOK, ThreadType
  <2> QED BY <1>3, <2>2, <2>5, Frames DEF ResolveEndpoint, TypeOK
<1>4. CASE DialCustomer
  <2>1. ThreadType'
    BY <1>4 DEF DialCustomer, TypeOK, ThreadType
  <2>2. SwitchType'
    BY <1>4 DEF DialCustomer, TypeOK, SwitchType
  <2> QED BY <1>4, <2>1, <2>2, Frames DEF DialCustomer, TypeOK
<1>5. CASE OriginateReturns
  <2>1. status' \in Statuses
    BY <1>0, <1>5 DEF OriginateReturns
  <2>2. RecordType'
    BY <1>5, <2>1 DEF OriginateReturns, TypeOK, RecordType
  <2>3. work' \in [WorkKinds -> Nat]
    BY <1>0, <1>5, SubmitType DEF OriginateReturns
  <2>4. ThreadType'
    BY <1>5, <2>3 DEF OriginateReturns, TypeOK, ThreadType
  <2> QED BY <1>5, <2>2, <2>4, Frames DEF OriginateReturns, TypeOK
<1> QED BY <1>1, <1>2, <1>3, <1>4, <1>5 DEF Originating

LEMMA HangingUpType == ASSUME TypeOK, HangingUp PROVE TypeOK'
<1>0. /\ {"failed", "hangup_sent", "hangup_failed"} \subseteq Statuses
      /\ {"cancel_kill", "kill", "kill_ok", "kill_err", "crash", "sync_failed",
          "notice"} \subseteq WorkKinds
      /\ work \in [WorkKinds -> Nat]
      /\ "normal" \in AllCauses
      /\ leg \in [Agents -> {"none", "up", "bridged"}]
      /\ sent \in [Origins -> Nat] /\ "call_failed" \in Origins
  BY DEF TypeOK, ThreadType, SwitchType, BookType, Statuses, InactiveStatuses,
         TerminalStatuses, WorkKinds, AllCauses, Origins
<1>1. CASE CancelAndSubmitHangup
  <2>1. work' \in [WorkKinds -> Nat]
    BY <1>0, <1>1, AdvanceType DEF CancelAndSubmitHangup
  <2>2. ThreadType'
    BY <1>1, <2>1, WorkStep DEF CancelAndSubmitHangup
  <2>3. TimerType'
    BY <1>1, CancelTimerType DEF CancelAndSubmitHangup
  <2> QED BY <1>1, <2>2, <2>3, Frames DEF CancelAndSubmitHangup, TypeOK
<1>2. CASE HangupSent
  <2>1. work' \in [WorkKinds -> Nat] /\ SwitchType'
    <3>1. UNCHANGED <<leg, media>>
      BY <1>2 DEF HangupSent
    <3>2. CASE UuidKill("kill")
      BY <1>0, <3>1, <3>2, UuidKillType
    <3>3. CASE Advance("kill", "crash") /\ EndChannel("normal")
      BY <1>0, <3>1, <3>3, AdvanceType, EndChannelType
    <3>4. CASE Advance("kill", "crash") /\ UNCHANGED <<chan, cause, evq>>
      BY <1>0, <3>1, <3>4, AdvanceType, Frames DEF fsVars
    <3> QED BY <1>2, <3>2, <3>3, <3>4 DEF HangupSent
  <2>2. ThreadType'
    BY <1>2, <2>1, WorkStep DEF HangupSent
  <2> QED BY <1>2, <2>1, <2>2, Frames DEF HangupSent, TypeOK
<1>3. CASE HangupAccepted
  <2>1. work' \in [WorkKinds -> Nat] /\ status' \in Statuses
    BY <1>0, <1>3, FinishType DEF HangupAccepted
  <2>2. RecordType'
    BY <1>3, <2>1 DEF HangupAccepted, TypeOK, RecordType
  <2>3. ThreadType'
    BY <1>3, <2>1, WorkStep DEF HangupAccepted
  <2> QED BY <1>3, <2>2, <2>3, Frames DEF HangupAccepted, TypeOK
<1>4. CASE HangupRejected
  <2>1. work' \in [WorkKinds -> Nat] /\ status' \in Statuses
    BY <1>0, <1>4, AdvanceType DEF HangupRejected
  <2>2. RecordType'
    BY <1>4, <2>1 DEF HangupRejected, TypeOK, RecordType
  <2>3. ThreadType'
    BY <1>4, <2>1, WorkStep DEF HangupRejected
  <2> QED BY <1>4, <2>2, <2>3, Frames DEF HangupRejected, TypeOK
<1>5. CASE NoticePlayed
  <2>1. work' \in [WorkKinds -> Nat] /\ SwitchType'
    <3>1. UNCHANGED <<leg, media>>
      BY <1>5 DEF NoticePlayed
    <3>2. CASE UuidKill("notice")
      BY <1>0, <3>1, <3>2, UuidKillType
    <3>3. CASE Advance("notice", "kill") /\ EndChannel("normal")
      BY <1>0, <3>1, <3>3, AdvanceType, EndChannelType
    <3>4. CASE Advance("notice", "kill") /\ UNCHANGED <<chan, cause, evq>>
      BY <1>0, <3>1, <3>4, AdvanceType, Frames DEF fsVars
    <3> QED BY <1>5, <3>2, <3>3, <3>4 DEF NoticePlayed
  <2>2. ThreadType'
    BY <1>5, <2>1, WorkStep DEF NoticePlayed
  <2> QED BY <1>5, <2>1, <2>2, Frames DEF NoticePlayed, TypeOK
<1>6. CASE WorkerCrash
  <2>1. work' \in [WorkKinds -> Nat] /\ status' \in Statuses
    BY <1>0, <1>6, AdvanceType DEF WorkerCrash
  <2>2. RecordType'
    BY <1>6, <2>1 DEF WorkerCrash, TypeOK, RecordType
  <2>3. ThreadType'
    BY <1>6, <2>1, WorkStep DEF WorkerCrash
  <2> QED BY <1>6, <2>2, <2>3, Frames DEF WorkerCrash, TypeOK
<1>7. CASE SyncFailed
  <2>1. work' \in [WorkKinds -> Nat]
    BY <1>0, <1>7, FinishType DEF SyncFailed
  <2>2. sent' \in [Origins -> Nat]
    BY <1>0, <1>7, PublishType DEF SyncFailed
  <2>3. db' \in {"0", "1", "2", "3", "4"}
    BY <1>7 DEF SyncFailed, UpdateRow, TypeOK, BookType
  <2>4. BookType'
    BY <1>7, <2>2, <2>3 DEF SyncFailed, TypeOK, BookType
  <2>5. ThreadType'
    BY <1>7, <2>1, WorkStep DEF SyncFailed
  <2> QED BY <1>7, <2>4, <2>5, Frames DEF SyncFailed, TypeOK
<1>8. ASSUME NEW a \in Agents, SweepAgent(a) PROVE TypeOK'
  <2>1. leg' \in [Agents -> {"none", "up", "bridged"}]
    BY <1>0, <1>8 DEF SweepAgent, DropLeg
  <2>2. SwitchType'
    BY <1>8, <2>1 DEF SweepAgent, TypeOK, SwitchType
  <2>3. ThreadType'
    BY <1>8 DEF SweepAgent, TypeOK, ThreadType
  <2> QED BY <1>8, <2>2, <2>3, Frames DEF SweepAgent, TypeOK
<1> QED BY <1>1, <1>2, <1>3, <1>4, <1>5, <1>6, <1>7, <1>8 DEF HangingUp

LEMMA StatusAfterType ==
  ASSUME status \in Statuses, NEW e PROVE StatusAfter(e) \in Statuses
BY DEF StatusAfter, TerminalStatusForCause, Statuses, InactiveStatuses,
       TerminalStatuses

LEMMA HandoffAfterType ==
  ASSUME handoff \in Handoffs, NEW e PROVE HandoffAfter(e) \in Handoffs
<1>1. {"completed", "handoff_failed"} \subseteq HandoffStates
  BY DEF HandoffStates
<1>2. /\ [handoff EXCEPT !.state = "completed"] \in Handoffs
      /\ [handoff EXCEPT !.state = "handoff_failed"] \in Handoffs
  BY <1>1 DEF Handoffs
<1> QED BY <1>2 DEF HandoffAfter

LEMMA ListeningType == ASSUME TypeOK, Listening PROVE TypeOK'
<1> DEFINE E == {"progress", "answer", "hangup", "hangup_complete"}
           L == [busy : BOOLEAN, cancel : BOOLEAN, sync : {"none", "2", "3"},
                 silent : BOOLEAN, stops : Nat]
<1>0. /\ {"handoff_failed", "call_failed"} \subseteq Origins
      /\ sent \in [Origins -> Nat]
      /\ "stop_recording" \in WorkKinds /\ work \in [WorkKinds -> Nat]
  BY DEF TypeOK, BookType, ThreadType, Origins, WorkKinds
<1>1. CASE HandleChannelEvent
  <2> DEFINE e == Head(evq)
             st == StatusAfter(e)
             ended == status \notin TerminalStatuses /\ st \in TerminalStatuses
             h == HandoffAfter(e)
             h2 == IF StopDue(h) THEN [h EXCEPT !.recording = "stopping"] ELSE h
             due == TranscriptFailureDue(h2) \/ ConnectionFailureDue(h2, st)
  <2>1. st \in Statuses /\ h \in Handoffs
    BY StatusAfterType, HandoffAfterType DEF TypeOK, RecordType
  <2>2. h2 \in Handoffs /\ [h2 EXCEPT !.callback = "FAILED"] \in Handoffs
    <3>1. [h EXCEPT !.recording = "stopping"] \in Handoffs
      BY <2>1 DEF Handoffs, RecordingStatuses
    <3>2. h2 \in Handoffs
      BY <2>1, <3>1
    <3> HIDE DEF h2
    <3> QED BY <3>2 DEF Handoffs
  <2> HIDE DEF st, h, h2, due, ended, e
  <2>3. /\ status' = st
        /\ handoff' = IF due THEN [h2 EXCEPT !.callback = "FAILED"] ELSE h2
        /\ engaged' \in BOOLEAN
        /\ UNCHANGED gen
    BY <1>1 DEF HandleChannelEvent, st, h, h2, due, e, TypeOK, RecordType
  <2>4. RecordType'
    BY <2>1, <2>2, <2>3 DEF TypeOK, RecordType
  <2>5. Publish("handoff_failed") \/ UNCHANGED sent
    BY <1>1 DEF HandleChannelEvent
  <2>6. sent' \in [Origins -> Nat]
    BY <1>0, <2>5, PublishType
  <2>7. BookType'
    BY <1>1, <2>6 DEF HandleChannelEvent, TypeOK, BookType
  <2>8. Submit("stop_recording") \/ UNCHANGED work
    BY <1>1 DEF HandleChannelEvent
  <2>9. work' \in [WorkKinds -> Nat]
    BY <1>0, <2>8, SubmitType
  <2>10. sweep' \subseteq Agents
    <3>1. sweep' = sweep \/ (h.agent # NoAgent /\ sweep' = sweep \cup {h.agent})
      BY <1>1 DEF HandleChannelEvent, h, st, e
    <3>2. h.agent \in Agents \cup {NoAgent}
      BY <2>1 DEF Handoffs
    <3> QED BY <3>1, <3>2 DEF TypeOK, ThreadType
  <2>11. listener' \in L
    <3> DEFINE stops == listener.stops + (IF StopDue(h) THEN 1 ELSE 0)
    <3>1. \/ listener' = Idle(stops)
          \/ listener' = [busy |-> TRUE, cancel |-> handoff.state # "none",
                          sync |-> SyncFor(st), silent |-> due, stops |-> stops]
      BY <1>1 DEF HandleChannelEvent, st, h, h2, due, e
    <3>6. stops \in Nat
      BY DEF TypeOK, ThreadType
    <3> HIDE DEF stops
    <3>2. SyncFor(st) \in {"none", "2", "3"} /\ due \in BOOLEAN
      BY DEF SyncFor, due, TranscriptFailureDue, ConnectionFailureDue
    <3>3. (handoff.state # "none") \in BOOLEAN
      OBVIOUS
    <3>4. \A c, d \in BOOLEAN, s \in {"none", "2", "3"} :
            [busy |-> TRUE, cancel |-> c, sync |-> s, silent |-> d, stops |-> stops] \in L
      BY <3>6
    <3>5. [busy |-> TRUE, cancel |-> handoff.state # "none",
           sync |-> SyncFor(st), silent |-> due, stops |-> stops] \in L
      BY <3>2, <3>3, <3>4
    <3>7. Idle(stops) \in L
      BY <3>6 DEF Idle
    <3> QED BY <3>1, <3>5, <3>7
  <2>12. ThreadType'
    BY <1>1, <2>9, <2>10, <2>11 DEF HandleChannelEvent, TypeOK, ThreadType
  <2>13. evq' \in Seq(E)
    BY <1>1 DEF HandleChannelEvent, TypeOK, SwitchType
  <2>14. SwitchType'
    BY <1>1, <2>13 DEF HandleChannelEvent, TypeOK, SwitchType
  <2> QED BY <1>1, <2>4, <2>7, <2>12, <2>14, Frames DEF HandleChannelEvent, TypeOK
<1>2. CASE ListenerFinishes
  <2>1. listener \in L
    BY DEF TypeOK, ThreadType
  <2>2. ThreadType'
    BY <1>2 DEF ListenerFinishes, Idle, TypeOK, ThreadType
  <2>3. TimerType'
    BY <1>2, Frames DEF ListenerFinishes, timerVars, TypeOK
  <2>4. db' \in {"0", "1", "2", "3", "4"}
    BY <1>2, <2>1 DEF ListenerFinishes, UpdateRow, TypeOK, BookType
  <2>5. Publish("call_failed") \/ UNCHANGED sent
    BY <1>2 DEF ListenerFinishes
  <2>6. BookType'
    BY <1>0, <1>2, <2>4, <2>5, PublishType DEF ListenerFinishes, TypeOK, BookType
  <2> QED BY <1>2, <2>2, <2>3, <2>6, Frames DEF ListenerFinishes, TypeOK
<1>3. CASE ListenerCancels
  <2>1. ThreadType'
    BY <1>3 DEF ListenerCancels, TypeOK, ThreadType
  <2>2. TimerType'
    BY <1>3, CancelTimerType DEF ListenerCancels
  <2> QED BY <1>3, <2>1, <2>2, Frames DEF ListenerCancels, TypeOK
<1> QED BY <1>1, <1>2, <1>3 DEF Listening

LEMMA ClaimingType ==
  ASSUME TypeOK, NEW a \in Agents, Claiming(a) PROVE TypeOK'
<1>0. /\ handoff \in Handoffs /\ status \in Statuses
      /\ {"agent_ringing", "bridging", "human_active", "waiting_agent",
          "handoff_failed"} \subseteq Statuses \cap HandoffStates
      /\ work \in [WorkKinds -> Nat] /\ "notice" \in WorkKinds
      /\ leg \in [Agents -> {"none", "up", "bridged"}]
      /\ gen \in 0..MaxHandoffs
  BY DEF TypeOK, RecordType, ThreadType, SwitchType, Statuses, InactiveStatuses,
         TerminalStatuses, HandoffStates, Unbridged, Connecting, WorkKinds
<1>1. CASE ClaimCancelsTimer(a)
  <2>1. ClaimType'
    BY <1>1, GotoType DEF ClaimCancelsTimer, ClaimSteps
  <2>2. TimerType'
    BY <1>1, CancelTimerType DEF ClaimCancelsTimer
  <2> QED BY <1>1, <2>1, <2>2, Frames DEF ClaimCancelsTimer, TypeOK, ThreadType
<1>2. CASE ResolveAgent(a)
  <2>1. ClaimType'
    BY <1>2, GotoType DEF ResolveAgent, ClaimSteps
  <2> QED BY <1>2, <2>1, Frames DEF ResolveAgent, TypeOK
<1>3. CASE SetAgentRinging(a)
  <2>1. ClaimType'
    BY <1>3, GotoType DEF SetAgentRinging, ClaimSteps
  <2>2. RecordType'
    BY <1>0, <1>3, HandoffStateType, RecordStep DEF SetAgentRinging
  <2> QED BY <1>3, <2>1, <2>2, Frames DEF SetAgentRinging, TypeOK
<1>4. CASE OriginateAgent(a)
  <2>1. Goto(a, "cleanup") \/ Goto(a, "answered") \/ Goto(a, "release")
    BY <1>4 DEF OriginateAgent
  <2>2. ClaimType'
    BY <2>1, GotoType DEF ClaimSteps
  <2>3. leg' \in [Agents -> {"none", "up", "bridged"}]
    BY <1>0, <1>4 DEF OriginateAgent
  <2>4. SwitchType'
    BY <1>4, <2>3 DEF OriginateAgent, TypeOK, SwitchType
  <2> QED BY <1>4, <2>2, <2>4, Frames DEF OriginateAgent, TypeOK
<1>5. CASE SetBridging(a)
  <2>1. ClaimType'
    BY <1>5, GotoType DEF SetBridging, ClaimSteps
  <2>2. RecordType'
    BY <1>0, <1>5, HandoffStateType, RecordStep DEF SetBridging
  <2> QED BY <1>5, <2>1, <2>2, Frames DEF SetBridging, TypeOK
<1>6. CASE BreakAudioStream(a)
  <2>1. Goto(a, "cleanup") \/ Goto(a, "bridge")
    BY <1>6 DEF BreakAudioStream
  <2>2. ClaimType'
    BY <2>1, GotoType DEF ClaimSteps
  <2> QED BY <1>6, <2>2, Frames DEF BreakAudioStream, TypeOK
<1>7. CASE BridgeCall(a)
  <2>1. Goto(a, "cleanup") \/ Goto(a, "record")
    BY <1>7 DEF BridgeCall
  <2>2. ClaimType'
    BY <2>1, GotoType DEF ClaimSteps
  <2>3. leg' \in [Agents -> {"none", "up", "bridged"}]
    BY <1>0, <1>7 DEF BridgeCall
  <2>4. SwitchType'
    BY <1>7, <2>3 DEF BridgeCall, TypeOK, SwitchType
  <2> QED BY <1>7, <2>2, <2>4, Frames DEF BridgeCall, TypeOK
<1>8. CASE StartRecording(a)
  <2>1. PICK r \in {"recording", "failed", "disabled"}, pc \in {"cleanup", "activate"} :
          claim' = [claim EXCEPT ![a].recording = r, ![a].pc = pc]
    BY <1>8 DEF StartRecording
  <2>2. ClaimType'
    BY <2>1 DEF TypeOK, ClaimType, ClaimSteps, RecordingStatuses
  <2> QED BY <1>8, <2>2, Frames DEF StartRecording, TypeOK
<1>9. CASE ActivateHuman(a)
  <2>1. ClaimType'
    BY <1>9, GotoType DEF ActivateHuman, ClaimSteps
  <2>2. claim[a].recording \in RecordingStatuses
    BY DEF TypeOK, ClaimType
  <2>3. handoff.transcript \in TranscriptStatuses
    BY <1>0 DEF Handoffs
  <2>4. PICK t \in TranscriptStatuses :
          handoff' = [handoff EXCEPT !.state = "human_active",
                                     !.recording = claim[a].recording,
                                     !.transcript = t]
    BY <1>9, <2>3 DEF ActivateHuman, TranscriptStatuses
  <2>5. handoff' \in Handoffs
    BY <1>0, <2>2, <2>4 DEF Handoffs
  <2>6. RecordType'
    BY <1>0, <1>9, <2>5, RecordStep DEF ActivateHuman
  <2> QED BY <1>9, <2>1, <2>6, Frames DEF ActivateHuman, TypeOK
<1>10. CASE CleanupAgent(a)
  <2>1. ClaimType'
    BY <1>10, GotoType DEF CleanupAgent, ClaimSteps
  <2>2. leg' \in [Agents -> {"none", "up", "bridged"}]
    BY <1>0, <1>10 DEF CleanupAgent, DropLeg
  <2>3. SwitchType'
    BY <1>10, <2>2 DEF CleanupAgent, TypeOK, SwitchType
  <2> QED BY <1>10, <2>1, <2>3, Frames DEF CleanupAgent, TypeOK
<1>11. CASE ReleaseClaim(a)
  <2>1. handoff' \in Handoffs
    <3>1. \/ handoff' = [handoff EXCEPT !.state = "handoff_failed"]
          \/ handoff' = [handoff EXCEPT !.state = "waiting_agent", !.agent = NoAgent]
      BY <1>11 DEF ReleaseClaim, GiveUpHandoff
    <3> QED BY <1>0, <3>1 DEF Handoffs
  <2>2. status' \in {status, "waiting_agent", "handoff_failed"}
    BY <1>11 DEF ReleaseClaim, GiveUpHandoff
  <2>3. RecordType'
    BY <1>0, <1>11, <2>1, <2>2, RecordStep DEF ReleaseClaim
  <2>4. Goto(a, "idle") \/ claim' = [claim EXCEPT ![a].pc = "schedule", ![a].gen = gen]
    BY <1>11 DEF ReleaseClaim
  <2>5. ClaimType'
    <3>1. CASE Goto(a, "idle")
      BY <3>1, GotoType DEF ClaimSteps
    <3>2. CASE claim' = [claim EXCEPT ![a].pc = "schedule", ![a].gen = gen]
      BY <1>0, <3>2 DEF TypeOK, ClaimType, ClaimSteps
    <3> QED BY <2>4, <3>1, <3>2
  <2>6. Submit("notice") \/ UNCHANGED work
    BY <1>11 DEF ReleaseClaim, GiveUpHandoff
  <2>7. ThreadType'
    BY <1>0, <1>11, <2>6, SubmitType, WorkStep DEF ReleaseClaim
  <2> QED BY <1>11, <2>3, <2>5, <2>7, Frames DEF ReleaseClaim, TypeOK
<1>12. CASE RearmTimer(a)
  <2>1. ClaimType'
    BY <1>12, GotoType DEF RearmTimer, ClaimSteps
  <2>2. claim[a].gen \in 0..MaxHandoffs
    BY DEF TypeOK, ClaimType
  <2>3. TimerType'
    BY <1>12, <2>2, ScheduleTimerType DEF RearmTimer
  <2> QED BY <1>12, <2>1, <2>3, Frames DEF RearmTimer, TypeOK
<1> QED BY <1>1, <1>2, <1>3, <1>4, <1>5, <1>6, <1>7, <1>8, <1>9, <1>10, <1>11,
           <1>12 DEF Claiming

LEMMA TimingType == ASSUME TypeOK, Timing PROVE TypeOK'
<1>0. /\ {"handoff_failed"} \subseteq Statuses \cap HandoffStates
      /\ work \in [WorkKinds -> Nat] /\ "notice" \in WorkKinds
      /\ MaxHandoffs \in Nat
  BY BoundsAssumption DEF TypeOK, ThreadType, Statuses, HandoffStates, WorkKinds
<1>1. PICK g \in 1..MaxHandoffs : ArmTimer(g) \/ TimerFires(g)
  BY DEF Timing
<1>2. g \in 0..MaxHandoffs /\ 0 \in 0..MaxHandoffs
  BY <1>0
<1>3. CASE ArmTimer(g)
  <2>1. TimerType'
    BY <1>2, <1>3, ScheduleTimerType DEF ArmTimer
  <2>2. ThreadType'
    BY <1>3 DEF ArmTimer, TypeOK, ThreadType
  <2> QED BY <1>3, <2>1, <2>2, Frames DEF ArmTimer, TypeOK
<1>4. CASE TimerFires(g)
  <2>1. entry' \in 0..MaxHandoffs /\ timers' \subseteq timers
    BY <1>2, <1>4 DEF TimerFires
  <2>2. TimerType'
    BY <1>4, <2>1 DEF TimerFires, TypeOK, TimerType
  <2>3. UNCHANGED <<status, handoff, work>> \/ GiveUpHandoff
    BY <1>4 DEF TimerFires
  <2>4. RecordType'
    <3>1. CASE GiveUpHandoff
      BY <1>0, <1>4, <3>1, HandoffStateType, RecordStep
      DEF GiveUpHandoff, TimerFires, TypeOK, RecordType
    <3>2. CASE UNCHANGED <<status, handoff, work>>
      BY <1>4, <3>2, Frames DEF TimerFires, recVars
    <3> QED BY <2>3, <3>1, <3>2
  <2>5. work' \in [WorkKinds -> Nat]
    BY <1>0, <2>3, SubmitType DEF GiveUpHandoff
  <2>6. ThreadType'
    BY <1>4, <2>5, WorkStep DEF TimerFires
  <2> QED BY <1>4, <2>2, <2>4, <2>6, Frames DEF TimerFires, TypeOK
<1> QED BY <1>1, <1>3, <1>4

LEMMA RecordingFailedType ==
  ASSUME handoff \in Handoffs PROVE RecordingFailed(handoff) \in Handoffs
<1>1. handoff.transcript \in TranscriptStatuses
  BY DEF Handoffs
<1>2. PICK t \in TranscriptStatuses :
        RecordingFailed(handoff) = [handoff EXCEPT !.recording = "failed",
                                                   !.transcript = t]
  BY <1>1 DEF RecordingFailed, TranscriptStatuses
<1> QED BY <1>2 DEF Handoffs, RecordingStatuses

LEMMA TranscriptSet ==
  ASSUME handoff \in Handoffs, NEW t \in TranscriptStatuses
  PROVE  [handoff EXCEPT !.transcript = t] \in Handoffs
BY DEF Handoffs

LEMMA HandoffStep ==
  ASSUME TypeOK, handoff' \in Handoffs, UNCHANGED <<status, engaged, gen>>
  PROVE  RecordType'
BY DEF TypeOK, RecordType

LEMMA AcceptType ==
  ASSUME TypeOK, NEW x \in {"asr", "api"}, AcceptTranscript(x)
  PROVE  /\ handoff' \in Handoffs
         /\ saving' \in [{"asr", "api"} -> TranscriptStatuses \cup {"idle"}]
<1>1. handoff \in Handoffs /\ handoff.transcript \in TranscriptStatuses
  BY DEF TypeOK, RecordType, Handoffs
<1>2. handoff' \in Handoffs
  BY <1>1, TranscriptSet DEF AcceptTranscript, TranscriptStatuses
<1>3. saving' \in [{"asr", "api"} -> TranscriptStatuses \cup {"idle"}]
  BY <1>1 DEF AcceptTranscript, TypeOK, ThreadType
<1> QED BY <1>2, <1>3

LEMMA TranscribingType == ASSUME TypeOK, Transcribing PROVE TypeOK'
<1>0. /\ handoff \in Handoffs
      /\ sent \in [Origins -> Nat] /\ {"success", "result_failed"} \subseteq Origins
      /\ work \in [WorkKinds -> Nat]
      /\ {"stop_recording", "submit_asr", "transcribe", "asr_failed"}
           \subseteq WorkKinds
      /\ {"processing", "failed", "completed"} \subseteq TranscriptStatuses
      /\ saving \in [{"asr", "api"} -> TranscriptStatuses \cup {"idle"}]
      /\ results \in [{"completed", "failed"} -> Nat]
  BY DEF TypeOK, RecordType, BookType, ThreadType, Origins, WorkKinds,
         TranscriptStatuses
<1>1. CASE StopRecording
  <2>1. /\ handoff' \in Handoffs /\ sent' \in [Origins -> Nat]
        /\ work' \in [WorkKinds -> Nat]
    <3>1. CASE /\ handoff' = [handoff EXCEPT !.recording = "completed"]
               /\ Advance("stop_recording", "submit_asr") /\ UNCHANGED sent
      <4>1. handoff' \in Handoffs
        BY <1>0, <3>1 DEF Handoffs, RecordingStatuses
      <4> QED BY <1>0, <3>1, <4>1, AdvanceType
    <3>2. CASE SetHandoff(RecordingFailed(handoff)) /\ Finish("stop_recording")
      BY <1>0, <3>2, RecordingFailedType, SetHandoffType, FinishType
    <3> QED BY <1>1, <3>1, <3>2 DEF StopRecording
  <2>2. RecordType'
    BY <1>1, <2>1, HandoffStep DEF StopRecording
  <2>3. BookType'
    BY <1>1, <2>1 DEF StopRecording, TypeOK, BookType
  <2>4. ThreadType'
    BY <1>1, <2>1, WorkStep DEF StopRecording
  <2> QED BY <1>1, <2>2, <2>3, <2>4, Frames DEF StopRecording, TypeOK
<1>2. CASE SubmitTranscription
  <2>1. /\ handoff' \in Handoffs /\ sent' \in [Origins -> Nat]
        /\ work' \in [WorkKinds -> Nat]
    <3>1. CASE /\ Finish("submit_asr")
               /\ SetHandoff([handoff EXCEPT !.transcript = "failed"])
      BY <1>0, <3>1, TranscriptSet, SetHandoffType, FinishType
    <3>2. CASE /\ Advance("submit_asr", "transcribe")
               /\ handoff' = [handoff EXCEPT !.transcript = "processing"]
               /\ UNCHANGED sent
      BY <1>0, <3>2, TranscriptSet, AdvanceType
    <3>3. CASE Finish("submit_asr") /\ UNCHANGED <<handoff, sent>>
      BY <1>0, <3>3, FinishType
    <3> QED BY <1>2, <3>1, <3>2, <3>3 DEF SubmitTranscription
  <2>2. RecordType'
    BY <1>2, <2>1, HandoffStep DEF SubmitTranscription
  <2>3. BookType'
    BY <1>2, <2>1 DEF SubmitTranscription, TypeOK, BookType
  <2>4. ThreadType'
    BY <1>2, <2>1, WorkStep DEF SubmitTranscription
  <2> QED BY <1>2, <2>2, <2>3, <2>4, Frames DEF SubmitTranscription, TypeOK
<1>3. CASE AsrFinishes
  <2>1. work' \in [WorkKinds -> Nat]
    BY <1>0, <1>3, AdvanceType, FinishType DEF AsrFinishes
  <2>2. UNCHANGED <<handoff, saving>> \/ AcceptTranscript("asr")
    BY <1>3 DEF AsrFinishes
  <2>3. /\ handoff' \in Handoffs
        /\ saving' \in [{"asr", "api"} -> TranscriptStatuses \cup {"idle"}]
    BY <1>0, <2>2, AcceptType
  <2>4. RecordType'
    BY <1>3, <2>3, HandoffStep DEF AsrFinishes
  <2>5. ThreadType'
    BY <1>3, <2>1, <2>3 DEF AsrFinishes, TypeOK, ThreadType
  <2> QED BY <1>3, <2>4, <2>5, Frames DEF AsrFinishes, TypeOK
<1>4. CASE MarkTranscriptFailed
  <2>1. /\ handoff' \in Handoffs /\ sent' \in [Origins -> Nat]
        /\ work' \in [WorkKinds -> Nat]
    BY <1>0, <1>4, TranscriptSet, SetHandoffType, FinishType
    DEF MarkTranscriptFailed
  <2>2. RecordType'
    BY <1>4, <2>1, HandoffStep DEF MarkTranscriptFailed
  <2>3. BookType'
    BY <1>4, <2>1 DEF MarkTranscriptFailed, TypeOK, BookType
  <2>4. ThreadType'
    BY <1>4, <2>1, WorkStep DEF MarkTranscriptFailed
  <2> QED BY <1>4, <2>2, <2>3, <2>4, Frames DEF MarkTranscriptFailed, TypeOK
<1>5. ASSUME NEW x \in {"asr", "api"}, EnqueueResult(x) PROVE TypeOK'
  <2>1. saving' \in [{"asr", "api"} -> TranscriptStatuses \cup {"idle"}]
    BY <1>0, <1>5 DEF EnqueueResult
  <2>2. saving[x] \in TranscriptStatuses
    BY <1>0, <1>5 DEF EnqueueResult
  <2>3. handoff' \in {handoff, [handoff EXCEPT !.transcript = saving[x]]}
    BY <1>5 DEF EnqueueResult
  <2>4. handoff' \in Handoffs
    BY <1>0, <2>2, <2>3, TranscriptSet
  <2>5. results' \in {results, [results EXCEPT !["completed"] = @ + 1]}
    BY <1>5 DEF EnqueueResult
  <2>6. results' \in [{"completed", "failed"} -> Nat]
    BY <1>0, <2>5
  <2>7. UNCHANGED work \/ Submit("asr_failed")
    BY <1>5 DEF EnqueueResult
  <2>8. work' \in [WorkKinds -> Nat]
    BY <1>0, <2>7, SubmitType
  <2>9. RecordType'
    BY <1>5, <2>4, HandoffStep DEF EnqueueResult
  <2>10. BookType'
    BY <1>5, <2>6 DEF EnqueueResult, TypeOK, BookType
  <2>11. ThreadType'
    BY <1>5, <2>1, <2>8 DEF EnqueueResult, TypeOK, ThreadType
  <2> QED BY <1>5, <2>9, <2>10, <2>11, Frames DEF EnqueueResult, TypeOK
<1>6. ASSUME NEW r \in {"completed", "failed"}, WriteResult(r) PROVE TypeOK'
  <2>1. results' \in [{"completed", "failed"} -> Nat]
    BY <1>0, <1>6 DEF WriteResult
  <2>2. Publish("success") \/ Publish("result_failed")
    BY <1>6 DEF WriteResult
  <2>3. sent' \in [Origins -> Nat]
    BY <1>0, <2>2, PublishType
  <2>4. db' \in {db, "2", "4"}
    BY <1>6 DEF WriteResult, UpdateRow
  <2>5. BookType'
    BY <2>1, <2>3, <2>4 DEF TypeOK, BookType
  <2> QED BY <1>6, <2>5, Frames DEF WriteResult, TypeOK
<1> QED BY <1>1, <1>2, <1>3, <1>4, <1>5, <1>6 DEF Transcribing

LEMMA RequestsType == ASSUME TypeOK, Requests PROVE TypeOK'
<1>0. /\ handoff \in Handoffs /\ status \in Statuses
      /\ work \in [WorkKinds -> Nat]
      /\ {"cancel_kill", "kill"} \subseteq WorkKinds
      /\ {"waiting_agent", "agent_claimed", "handoff_failed"}
           \subseteq Statuses \cap HandoffStates
      /\ {"hangup_requested", "media_connected"} \subseteq Statuses
      /\ MaxHandoffs \in Nat /\ MaxHangups \in Nat /\ MaxPosts \in Nat
      /\ gen \in 0..MaxHandoffs
  BY BoundsAssumption DEF TypeOK, RecordType, ThreadType, WorkKinds, Statuses,
     InactiveStatuses, HandoffStates, Unbridged, Connecting
<1>1. CASE RequestHangup
  <2>1. handoff' \in Handoffs
    BY <1>0, <1>1, HandoffStateType DEF RequestHangup
  <2>2. RecordType'
    BY <1>0, <1>1, <2>1, RecordStep DEF RequestHangup
  <2>3. work' \in [WorkKinds -> Nat]
    BY <1>0, <1>1, SubmitType DEF RequestHangup
  <2>4. hangups' \in 0..MaxHangups
    BY <1>0, <1>1 DEF RequestHangup, TypeOK, ThreadType
  <2>5. ThreadType'
    BY <1>1, <2>3, <2>4 DEF RequestHangup, TypeOK, ThreadType
  <2> QED BY <1>1, <2>2, <2>5, Frames DEF RequestHangup, TypeOK
<1>2. CASE RequestHandoff
  <2>1. Handoff("waiting_agent") \in Handoffs
    BY <1>0 DEF Handoff, Handoffs, RecordingStatuses, TranscriptStatuses
  <2>2. gen + 1 \in 1..MaxHandoffs /\ gen + 1 \in 0..MaxHandoffs
    BY <1>0, <1>2 DEF RequestHandoff
  <2>3. RecordType'
    BY <1>0, <1>2, <2>1, <2>2 DEF RequestHandoff, TypeOK, RecordType
  <2>4. TimerType'
    BY <1>2, <2>2 DEF RequestHandoff, TypeOK, TimerType
  <2>5. media' \in {"none", "opening", "connected", "deferred", "closed"}
    BY <1>2 DEF RequestHandoff, TypeOK, SwitchType
  <2>6. SwitchType'
    BY <1>2, <2>5 DEF RequestHandoff, fsVars, TypeOK, SwitchType
  <2> QED BY <1>2, <2>3, <2>4, <2>6, Frames DEF RequestHandoff, TypeOK
<1>3. CASE PostTranscript
  <2>1. \/ AcceptTranscript("api") /\ UNCHANGED sent
        \/ /\ SetHandoff([handoff EXCEPT !.transcript = "failed"])
           /\ UNCHANGED saving
    BY <1>3 DEF PostTranscript
  <2>2. /\ handoff' \in Handoffs /\ sent' \in [Origins -> Nat]
        /\ saving' \in [{"asr", "api"} -> TranscriptStatuses \cup {"idle"}]
    <3>1. sent \in [Origins -> Nat] /\ "failed" \in TranscriptStatuses
          /\ saving \in [{"asr", "api"} -> TranscriptStatuses \cup {"idle"}]
      BY DEF TypeOK, BookType, ThreadType, TranscriptStatuses
    <3>2. CASE AcceptTranscript("api") /\ UNCHANGED sent
      BY <3>1, <3>2, AcceptType
    <3>3. CASE /\ SetHandoff([handoff EXCEPT !.transcript = "failed"])
               /\ UNCHANGED saving
      BY <1>0, <3>1, <3>3, TranscriptSet, SetHandoffType
    <3> QED BY <2>1, <3>2, <3>3
  <2>3. RecordType'
    BY <1>3, <2>2, HandoffStep DEF PostTranscript
  <2>4. BookType'
    BY <1>3, <2>2 DEF PostTranscript, TypeOK, BookType
  <2>5. posts' \in 0..MaxPosts
    BY <1>0, <1>3 DEF PostTranscript, TypeOK, ThreadType
  <2>6. ThreadType'
    BY <1>3, <2>2, <2>5 DEF PostTranscript, TypeOK, ThreadType
  <2> QED BY <1>3, <2>3, <2>4, <2>6, Frames DEF PostTranscript, TypeOK
<1>4. CASE MarkMediaConnected
  <2>1. status' \in Statuses /\ engaged' \in BOOLEAN
    BY <1>0, <1>4 DEF MarkMediaConnected, TypeOK, RecordType
  <2>2. RecordType'
    BY <1>4, <2>1 DEF MarkMediaConnected, TypeOK, RecordType
  <2>3. SwitchType'
    BY <1>4 DEF MarkMediaConnected, fsVars, TypeOK, SwitchType
  <2> QED BY <1>4, <2>2, <2>3, Frames DEF MarkMediaConnected, TypeOK
<1>5. ASSUME NEW a \in Agents, ClaimHandoff(a) PROVE TypeOK'
  <2>1. \/ /\ handoff' = [handoff EXCEPT !.state = "handoff_failed"]
           /\ Submit("cancel_kill") /\ UNCHANGED claim
        \/ /\ handoff' = [handoff EXCEPT !.state = "agent_claimed", !.agent = a]
           /\ claim' = [claim EXCEPT ![a].pc = "cancel", ![a].gen = gen]
           /\ UNCHANGED work
    BY <1>5 DEF ClaimHandoff
  <2>2. status' \in {"handoff_failed", "agent_claimed"}
    BY <1>5 DEF ClaimHandoff
  <2>3. handoff' \in Handoffs
    BY <1>0, <2>1 DEF Handoffs
  <2>4. RecordType'
    BY <1>0, <1>5, <2>2, <2>3, RecordStep DEF ClaimHandoff
  <2>5. ClaimType'
    BY <1>0, <2>1 DEF TypeOK, ClaimType, ClaimSteps
  <2>6. work' \in [WorkKinds -> Nat]
    BY <1>0, <2>1, SubmitType
  <2>7. ThreadType'
    BY <1>5, <2>6, WorkStep DEF ClaimHandoff
  <2> QED BY <1>5, <2>4, <2>5, <2>7, Frames DEF ClaimHandoff, TypeOK
<1> QED BY <1>1, <1>2, <1>3, <1>4, <1>5 DEF Requests

LEMMA TypeStep == TypeOK /\ [Next]_vars => TypeOK'
<1> SUFFICES ASSUME TypeOK, [Next]_vars PROVE TypeOK'
  OBVIOUS
<1>1. CASE Next
  BY <1>1, OutsideType, OriginatingType, HangingUpType, ListeningType,
     ClaimingType, TimingType, TranscribingType, RequestsType DEF Next
<1>2. CASE UNCHANGED vars
  BY <1>2, Frames DEF vars, TypeOK, recVars, timerVars, bookVars, fsVars
<1> QED BY <1>1, <1>2

\* No interleaving of the threads, and no fault, takes a variable out of its
\* type: in particular no worker finishes twice and no status is unknown.
THEOREM TypeCorrect == Spec => []TypeOK
BY InitType, TypeStep, PTL DEF Spec
=============================================================================
