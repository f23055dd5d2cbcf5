------------------------ MODULE DoubaoSessionProofs ------------------------
(***************************************************************************)
(* Proofs about DoubaoSession: types, the order in which turns are         *)
(* completed, and that a closed session begins no callback.                *)
(***************************************************************************)
EXTENDS DoubaoSession, TLAPS

-----------------------------------------------------------------------------
(* Type correctness                                                        *)

\* Where the reader stands.
LEMMA StandType ==
  /\ Reading \in Idle /\ Ended \in Idle /\ Broken \in Idle
  /\ \A at \in {"started", "transcript", "completing"}, turn \in TurnIds,
        then \in {"reading", "transcript", "finish_input", "ended"} :
          Stand(at, turn, then) \in InCallback
BY DEF Stand, Idle, InCallback, Reading, Ended, Broken

\* A receive takes an event off the wire.
LEMMA ReceiveType ==
  ASSUME TypeOK, NEW e \in Event, Receive(e)
  PROVE  wire' \in Seq(Event)
BY DEF TypeOK, Receive, Event, AsrEvents, ResponseEvents

\* Emitting an event puts it on the wire.
LEMMA EmitType ==
  ASSUME TypeOK, NEW e \in Event, Emit(e)
  PROVE  wire' \in Seq(Event)
BY DEF TypeOK, Emit, Event, AsrEvents, ResponseEvents

\* The provider's steps keep the types.
LEMMA ProviderType ==
  ASSUME TypeOK, Provider PROVE TypeOK'
<1>u. UNCHANGED <<connected, reader, lock, turnVars, seedVars, prompt, told>>
  BY DEF Provider
<1>e. {"asr", "asr_final", "asr_ended", "response", "audio", "finished", "idle",
       "session_finished"} = Event
  BY DEF Event, AsrEvents, ResponseEvents
<1>1. CASE Recognise
  <2>1. wire' \in Seq(Event)
    BY <1>1, <1>e, EmitType DEF Recognise
  <2>2. agenda' = agenda /\ speaking' = speaking /\ utterance' \in [count : Nat, going : BOOLEAN]
    BY <1>1 DEF Recognise, TypeOK
  <2> QED BY <1>u, <2>1, <2>2 DEF TypeOK, turnVars, seedVars, told
<1>2. CASE EndUtterance
  <2>1. wire' \in Seq(Event)
    BY <1>2, <1>e, EmitType DEF EndUtterance, TypeOK
  <2>2. agenda' \in Seq(Sources) /\ speaking' = speaking
    BY <1>2 DEF EndUtterance, TypeOK, Sources
  <2>4. speaking' => agenda' # <<>>
    BY <1>2, <2>2 DEF EndUtterance, TypeOK
  <2>3. utterance' \in [count : Nat, going : BOOLEAN]
    BY <1>2 DEF EndUtterance, TypeOK
  <2> QED BY <1>u, <2>1, <2>2, <2>3, <2>4 DEF TypeOK, turnVars, seedVars, told
<1>3. CASE Speak
  <2>1. wire' \in Seq(Event)
    BY <1>3, <1>e, EmitType DEF Speak
  <2> QED BY <1>u, <1>3, <2>1 DEF Speak, TypeOK, turnVars, seedVars, told
<1>4. CASE FinishSpeaking
  <2>1. wire' \in Seq(Event)
    BY <1>4, <1>e, EmitType DEF FinishSpeaking
  <2>2. agenda' \in Seq(Sources)
    <3>1. agenda # <<>> /\ agenda' = Tail(agenda) /\ agenda \in Seq(Sources)
      BY <1>4 DEF FinishSpeaking, TypeOK
    <3> QED BY <3>1
  <2>3. speaking' = FALSE /\ utterance' = utterance
    BY <1>4 DEF FinishSpeaking
  <2>4. speaking' \in BOOLEAN /\ ~speaking'
    BY <2>3
  <2>5. UNCHANGED <<connected, reader, lock, next, input, response, awaiting, turns,
                    invalid, seed, seedDone, suppress, prompt, heard, completed>>
    BY <1>u DEF turnVars, seedVars, told
  <2> QED BY <2>1, <2>2, <2>3, <2>4, <2>5 DEF TypeOK
<1>5. CASE EndSession
  <2>1. wire' \in Seq(Event)
    BY <1>5, <1>e, EmitType DEF EndSession
  <2> QED BY <1>u, <1>5, <2>1 DEF EndSession, TypeOK, turnVars, seedVars, told
<1> QED BY <1>1, <1>2, <1>3, <1>4, <1>5 DEF Provider

\* FinishInput keeps the types of what it changes.
LEMMA FinishInputType ==
  ASSUME TypeOK, NEW t \in TurnIds, FinishInput(t)
  PROVE  awaiting' \in Seq(TurnIds) /\ input' \in TurnIds \cup {NoTurn}
BY DEF TypeOK, FinishInput

\* EnsureResponse keeps the types of what it changes.
LEMMA EnsureResponseType ==
  ASSUME TypeOK, NEW t, EnsureResponse(t)
  PROVE  /\ t \in TurnIds
         /\ next' \in Nat
         /\ input' \in TurnIds \cup {NoTurn} /\ response' \in TurnIds \cup {NoTurn}
         /\ awaiting' \in Seq(TurnIds) /\ turns' \in SUBSET TurnIds
<1>1. CASE response \in turns
  BY <1>1 DEF TypeOK, EnsureResponse
<1>2. ASSUME response \notin turns, NEW i \in DOMAIN awaiting, t = awaiting[i],
             awaiting' = SubSeq(awaiting, i + 1, Len(awaiting)),
             UNCHANGED <<next, input, turns>>, response' = t
      PROVE  t \in TurnIds /\ awaiting' \in Seq(TurnIds)
  <2>1. awaiting \in Seq(TurnIds) BY DEF TypeOK
  <2>2. i \in 1..Len(awaiting) /\ Len(awaiting) \in Nat BY <1>2, <2>1
  <2>3. \A k \in (i + 1)..Len(awaiting) : awaiting[k] \in TurnIds BY <2>1, <2>2
  <2> QED BY <1>2, <2>1, <2>2, <2>3
<1>3. ASSUME response \notin turns, AnswerUnasked(t), response' = t
      PROVE  /\ t \in TurnIds /\ next' \in Nat /\ input' = NoTurn /\ awaiting' = <<>>
             /\ turns' \in SUBSET TurnIds
  <2>1. CASE input # NoTurn
    BY <1>3, <2>1 DEF AnswerUnasked, TypeOK
  <2>2. CASE input = NoTurn
    <3>1. next + 1 \in TurnIds BY DEF TypeOK, TurnIds
    <3> QED BY <1>3, <2>2, <3>1 DEF AnswerUnasked, TypeOK
  <2> QED BY <2>1, <2>2
<1>4. CASE /\ response \notin turns /\ response' = t
           /\ UNCHANGED <<next, input, turns>>
           /\ \E i \in DOMAIN awaiting :
                /\ Live(i) /\ t = awaiting[i]
                /\ awaiting' = SubSeq(awaiting, i + 1, Len(awaiting))
  <2>1. t \in TurnIds /\ awaiting' \in Seq(TurnIds) BY <1>2, <1>4
  <2> QED BY <2>1, <1>4 DEF TypeOK
<1>5. CASE response \notin turns /\ response' = t /\ AnswerUnasked(t)
  <2>1. /\ t \in TurnIds /\ next' \in Nat /\ input' = NoTurn /\ awaiting' = <<>>
        /\ turns' \in SUBSET TurnIds
    BY <1>3, <1>5
  <2> QED BY <2>1, <1>5
<1> QED BY <1>1, <1>4, <1>5 DEF EnsureResponse

\* The reader's steps keep the types.
LEMMA ReadEventType ==
  ASSUME TypeOK, ReadEvent PROVE TypeOK'
<1>i. Invalidated \in SUBSET TurnIds BY DEF Invalidated, TypeOK
<1>a. AsrEvents \subseteq Event /\ ResponseEvents \subseteq Event
  BY DEF Event
<1>1. CASE DropWhileSeeding
  <2> PICK e \in Event : Receive(e) /\ seedDone' = (seedDone \/ e = "finished")
                         /\ UNCHANGED <<reader, turnVars, seed, suppress, told>>
    BY <1>1 DEF DropWhileSeeding
  <2>1. wire' \in Seq(Event) BY ReceiveType
  <2> QED BY <2>1 DEF Receive, TypeOK, turnVars, told
<1>2. CASE SuppressLateSeed
  <2> PICK e \in Event : Receive(e) /\ suppress' = (e # "finished")
                         /\ UNCHANGED <<reader, turnVars, seed, seedDone, told>>
    BY <1>2 DEF SuppressLateSeed
  <2>1. wire' \in Seq(Event) BY ReceiveType
  <2> QED BY <2>1 DEF Receive, TypeOK, turnVars, told
<1>3. CASE HandleAsr
  <2> PICK e \in Event :
        /\ Receive(e)
        /\ IF input \in turns
             THEN /\ reader' = reader \/ (e = "asr_final" /\ Notify(input, "reading"))
                  /\ UNCHANGED turnVars
             ELSE /\ invalid' = Invalidated
                  /\ next' = next + 1
                  /\ turns' = turns \cup {next + 1}
                  /\ input' = next + 1
                  /\ reader' = Stand("started", next + 1,
                                    IF e = "asr_final" THEN "transcript" ELSE "reading")
                  /\ UNCHANGED <<response, awaiting>>
        /\ suppress' = FALSE
        /\ UNCHANGED <<seed, seedDone, told>>
    BY <1>3 DEF HandleAsr
  <2>1. wire' \in Seq(Event) BY ReceiveType
  <2>2. CASE input \in turns
    <3>1. input \in TurnIds BY <2>2 DEF TypeOK
    <3>2. reader' \in Idle \cup InCallback BY <2>2, <3>1, StandType DEF Notify, TypeOK
    <3> QED BY <2>1, <2>2, <3>2 DEF Receive, TypeOK, turnVars, told
  <2>3. CASE input \notin turns
    <3>1. next + 1 \in TurnIds /\ next' \in Nat BY <2>3 DEF TypeOK, TurnIds
    <3>2. reader' \in Idle \cup InCallback BY <2>3, <3>1, StandType
    <3> QED BY <2>1, <2>3, <3>1, <3>2, <1>i DEF Receive, TypeOK, told
  <2> QED BY <2>2, <2>3
<1>4. CASE HandleAsrEnded
  <2> PICK e \in Event :
        /\ Receive(e)
        /\ suppress' = FALSE
        /\ \/ input \notin turns /\ UNCHANGED <<reader, turnVars>>
           \/ input \in turns /\ Notify(input, "finish_input") /\ UNCHANGED turnVars
           \/ /\ input \in turns
              /\ FinishInput(input)
              /\ UNCHANGED <<reader, next, response, turns, invalid>>
        /\ UNCHANGED <<seed, seedDone, told>>
    BY <1>4 DEF HandleAsrEnded
  <2>1. wire' \in Seq(Event) BY ReceiveType
  <2>2. CASE input \in turns /\ FinishInput(input)
             /\ UNCHANGED <<reader, next, response, turns, invalid>>
    <3>1. input \in TurnIds BY <2>2 DEF TypeOK
    <3>2. awaiting' \in Seq(TurnIds) /\ input' \in TurnIds \cup {NoTurn}
      BY <2>2, <3>1, FinishInputType
    <3> QED BY <2>1, <2>2, <3>2 DEF Receive, TypeOK, told
  <2>3. CASE UNCHANGED <<reader, turnVars>>
    BY <2>1, <2>3 DEF Receive, TypeOK, turnVars, told
  <2>4. CASE input \in turns /\ Notify(input, "finish_input") /\ UNCHANGED turnVars
    <3>1. input \in TurnIds BY <2>4 DEF TypeOK
    <3>2. reader' \in Idle \cup InCallback BY <2>4, <3>1, StandType DEF Notify
    <3> QED BY <2>1, <2>4, <3>2 DEF Receive, TypeOK, turnVars, told
  <2> QED BY <2>2, <2>3, <2>4
<1>5. CASE HandleAudio
  <2> PICK e \in Event :
        /\ Receive(e)
        /\ \E t \in 0..(next + 1) :
             /\ EnsureResponse(t)
             /\ heard' = IF e = "audio" /\ t \notin invalid
                         THEN heard \cup {t} ELSE heard
        /\ UNCHANGED <<reader, invalid, seedVars, completed>>
    BY <1>5 DEF HandleAudio
  <2>1. wire' \in Seq(Event) BY ReceiveType
  <2>2. PICK t \in 0..(next + 1) :
          /\ EnsureResponse(t)
          /\ heard' = IF e = "audio" /\ t \notin invalid THEN heard \cup {t} ELSE heard
    OBVIOUS
  <2>3. t \in TurnIds /\ next' \in Nat
        /\ input' \in TurnIds \cup {NoTurn} /\ response' \in TurnIds \cup {NoTurn}
        /\ awaiting' \in Seq(TurnIds) /\ turns' \in SUBSET TurnIds
    BY <2>2, EnsureResponseType
  <2> QED BY <2>1, <2>2, <2>3 DEF Receive, TypeOK, seedVars
<1>6. CASE HandleFinished
  <2> PICK e \in Event :
        /\ Receive(e)
        /\ IF response \in turns
             THEN /\ completed' = Append(completed, response)
                  /\ reader' = Stand("completing", response, "reading")
             ELSE UNCHANGED <<reader, completed>>
        /\ UNCHANGED <<turnVars, seedVars, heard>>
    BY <1>6 DEF HandleFinished
  <2>1. wire' \in Seq(Event) BY ReceiveType
  <2>2. response \in turns => response \in TurnIds BY DEF TypeOK
  <2>3. completed' \in Seq(TurnIds)
    <3>1. completed \in Seq(TurnIds) BY DEF TypeOK
    <3>2. CASE response \in TurnIds /\ completed' = Append(completed, response)
      BY <3>1, <3>2
    <3>3. CASE completed' = completed
      BY <3>1, <3>3
    <3> QED BY <2>2, <3>2, <3>3
  <2>4. reader' \in Idle \cup InCallback BY <2>2, StandType DEF TypeOK
  <2> QED BY <2>1, <2>3, <2>4 DEF Receive, TypeOK, turnVars, seedVars
<1>7. CASE HandleIdle
  <2> PICK e \in Event :
        /\ Receive(e)
        /\ IF response \in turns \cap heard
             THEN /\ completed' = Append(completed, response)
                  /\ reader' = Stand("completing", response, "ended")
             ELSE reader' = Ended /\ UNCHANGED completed
        /\ UNCHANGED <<turnVars, seedVars, heard>>
    BY <1>7 DEF HandleIdle
  <2>1. wire' \in Seq(Event) BY ReceiveType
    <2>3. response \in turns => response \in TurnIds BY DEF TypeOK
  <2>4. completed' \in Seq(TurnIds)
    <3>1. completed \in Seq(TurnIds) BY DEF TypeOK
    <3>2. CASE response \in TurnIds /\ completed' = Append(completed, response)
      BY <3>1, <3>2
    <3>3. CASE completed' = completed
      BY <3>1, <3>3
    <3> QED BY <2>3, <3>2, <3>3
  <2>5. reader' \in Idle \cup InCallback BY <2>3, StandType
  <2> QED BY <2>1, <2>4, <2>5 DEF Receive, TypeOK, turnVars, seedVars
<1> QED BY <1>1, <1>2, <1>3, <1>4, <1>5, <1>6, <1>7 DEF ReadEvent

\* The ends of callbacks and of the reader keep the types.
LEMMA ReaderType ==
  ASSUME TypeOK, CallbackReturns \/ ReaderEnds PROVE TypeOK'
<1>1. reader.at \in {"started", "transcript", "completing"} => reader.turn \in TurnIds
  BY DEF TypeOK, Idle, InCallback
<1>2. CASE StartedReturns
  <2>1. reader' \in Idle \cup InCallback
    BY <1>1, <1>2, StandType DEF StartedReturns, Notify
  <2> QED BY <1>2, <2>1 DEF StartedReturns, TypeOK, provider, turnVars, seedVars, told
<1>3. CASE TranscriptReturns
  <2>1. reader' \in Idle \cup InCallback BY <1>3, StandType DEF TranscriptReturns
  <2>2. CASE UNCHANGED turnVars
    BY <1>3, <2>1, <2>2 DEF TranscriptReturns, TypeOK, provider, turnVars, seedVars, told
  <2>3. CASE FinishInput(reader.turn) /\ UNCHANGED <<next, response, turns, invalid>>
    <3>1. reader.turn \in TurnIds BY <1>1, <1>3 DEF TranscriptReturns
    <3>2. awaiting' \in Seq(TurnIds) /\ input' \in TurnIds \cup {NoTurn}
      BY <2>3, <3>1, FinishInputType
    <3> QED BY <1>3, <2>1, <2>3, <3>2 DEF TranscriptReturns, TypeOK, provider, seedVars, told
  <2> QED BY <1>3, <2>2, <2>3 DEF TranscriptReturns
<1>4. CASE CompletedReturns
  <2>1. reader' \in Idle \cup InCallback BY <1>4, StandType DEF CompletedReturns
  <2>2. prompt' \in {"none", "waiting", "spoken", "timed_out"}
    BY <1>4 DEF CompletedReturns, TypeOK
  <2>3. response' \in TurnIds \cup {NoTurn} /\ turns' \in SUBSET TurnIds
    BY <1>4 DEF CompletedReturns, TypeOK
  <2> QED BY <1>4, <2>1, <2>2, <2>3 DEF CompletedReturns, TypeOK, provider, seedVars, told
<1>5. CASE ReaderEnds
  BY <1>5, StandType DEF ReaderEnds, TypeOK, provider, turnVars, seedVars, told
<1> QED BY <1>2, <1>3, <1>4, <1>5 DEF CallbackReturns

\* A step of a handoff leaves the reader in its callback.
LEMMA HandoffPlace ==
  ASSUME TypeOK, Handoff
  PROVE  /\ reader' \in InCallback
         /\ reader'.at = reader.at /\ reader'.turn = reader.turn
         /\ reader'.then = reader.then
<1>1. reader \in InCallback
  BY DEF TypeOK, Idle, InCallback, Handoff, HandOver, SendPrompt, AwaitPrompt,
         HandoffFails, CloseFromCallback
<1>2. PICK h \in {"none", "lock", "speaking", "requesting"} :
        reader' = [reader EXCEPT !.handoff = h]
  BY DEF Handoff, HandOver, SendPrompt, AwaitPrompt, HandoffFails, CloseFromCallback
<1> QED BY <1>1, <1>2 DEF InCallback

\* The steps of a handoff keep the types.
LEMMA HandoffType ==
  ASSUME TypeOK, Handoff PROVE TypeOK'
<1>r. reader' \in Idle \cup InCallback BY HandoffPlace
<1>1. CASE HandOver
  <2>1. invalid' \in SUBSET TurnIds BY <1>1 DEF HandOver, Invalidated, TypeOK
  <2> QED BY <1>r, <1>1, <2>1 DEF HandOver, TypeOK, provider, seedVars, told
<1>2. CASE SendPrompt
  <2>1. agenda' \in Seq(Sources) BY <1>2 DEF SendPrompt, TypeOK, Sources
  <2> QED BY <1>r, <1>2, <2>1 DEF SendPrompt, TypeOK, turnVars, seedVars, told
<1>3. CASE AwaitPrompt
  <2>1. prompt' \in {"none", "waiting", "spoken", "timed_out"}
    BY <1>3 DEF AwaitPrompt, TypeOK
  <2>2. lock' \in {"free", "seed", "reader"}
    BY <1>3 DEF AwaitPrompt, TypeOK
  <2> QED BY <1>r, <1>3, <2>1, <2>2 DEF AwaitPrompt, TypeOK, provider, turnVars, seedVars, told
<1>4. CASE HandoffFails
  BY <1>r, <1>4 DEF HandoffFails, TypeOK, provider, turnVars, seedVars, told
<1>5. CASE CloseFromCallback
  <2>1. connected' = FALSE /\ turns' = {} /\ awaiting' = <<>> /\ input' = NoTurn
        /\ response' = NoTurn
    BY <1>5 DEF CloseFromCallback, ForgetTurns
  <2>2. <<>> \in Seq(TurnIds) OBVIOUS
  <2> QED BY <1>r, <1>5, <2>1, <2>2 DEF CloseFromCallback, ForgetTurns, TypeOK, provider, seedVars, told
<1> QED BY <1>1, <1>2, <1>3, <1>4, <1>5 DEF Handoff

\* What other tasks do.
Others == StartSeed \/ SeedCompletes \/ SeedFails \/ SuppressionExpires \/ Interrupt \/ Close

\* The steps of other tasks keep the types.
LEMMA OthersType ==
  ASSUME TypeOK, Others PROVE TypeOK'
<1>1. CASE StartSeed
  <2>1. agenda' \in Seq(Sources) BY <1>1 DEF StartSeed, TypeOK, Sources
  <2> QED BY <1>1, <2>1 DEF StartSeed, TypeOK, turnVars, told
<1>2. CASE SeedCompletes \/ SeedFails \/ SuppressionExpires
  <2>1. suppress' \in BOOLEAN
    BY <1>2 DEF SeedCompletes, SeedFails, SuppressionExpires
  <2>2. lock' \in {"free", "seed", "reader"} /\ seed' \in {"none", "waiting", "completed", "failed"}
    BY <1>2 DEF SeedCompletes, SeedFails, SuppressionExpires, TypeOK
  <2>3. UNCHANGED <<provider, connected, reader, turnVars, seedDone, prompt, told>>
    BY <1>2 DEF SeedCompletes, SeedFails, SuppressionExpires
  <2> QED BY <2>1, <2>2, <2>3 DEF TypeOK, provider, turnVars, told
<1>3. CASE Interrupt
  <2>1. invalid' \in SUBSET TurnIds BY <1>3 DEF Interrupt, Invalidated, TypeOK
  <2>2. agenda' \in Seq(Sources) /\ speaking' \in BOOLEAN
    <3>1. CASE speaking /\ agenda' = Tail(agenda) /\ speaking' = FALSE
      <4>1. agenda # <<>> /\ agenda \in Seq(Sources) BY <3>1 DEF TypeOK
      <4>2. agenda' \in Seq(Sources) BY <3>1, <4>1
      <4>3. speaking' \in BOOLEAN BY <3>1
      <4> QED BY <4>2, <4>3
    <3>2. CASE UNCHANGED <<agenda, speaking>>
      BY <3>2 DEF TypeOK
    <3> QED BY <1>3, <3>1, <3>2 DEF Interrupt
  <2>3. speaking' => agenda' # <<>>
    BY <1>3 DEF Interrupt, TypeOK
  <2> QED BY <1>3, <2>1, <2>2, <2>3 DEF Interrupt, TypeOK, seedVars, told
<1>4. CASE Close
  <2>1. lock' \in {"free", "seed", "reader"} BY <1>4 DEF Close, TypeOK
  <2>2. connected' = FALSE /\ turns' = {} /\ awaiting' = <<>> /\ input' = NoTurn
        /\ response' = NoTurn
    BY <1>4 DEF Close, ForgetTurns
  <2>3. <<>> \in Seq(TurnIds) OBVIOUS
  <2> QED BY <1>4, <2>1, <2>2, <2>3, StandType DEF Close, ForgetTurns, TypeOK, provider, seedVars, told
<1> QED BY <1>1, <1>2, <1>3, <1>4 DEF Others

\* The types hold in every state of the session.
THEOREM TypeCorrect == Spec => []TypeOK
<1>1. Init => TypeOK
  <2> SUFFICES ASSUME Init PROVE TypeOK OBVIOUS
  <2>1. utterance \in [count : Nat, going : BOOLEAN] BY DEF Init
  <2>2. reader \in Idle BY StandType DEF Init
  <2>3. <<>> \in Seq(Event) /\ <<>> \in Seq(Sources) /\ <<>> \in Seq(TurnIds) OBVIOUS
  <2> QED BY <2>1, <2>2, <2>3, BoundsAssumption DEF Init, TypeOK
<1>2. TypeOK /\ [Next]_vars => TypeOK'
  <2> SUFFICES ASSUME TypeOK, [Next]_vars PROVE TypeOK' OBVIOUS
  <2>1. CASE Next
    <3>1. Provider \/ ReadEvent \/ (CallbackReturns \/ ReaderEnds) \/ Handoff \/ Others
      BY <2>1 DEF Next, Others
    <3> QED BY <3>1, ProviderType, ReadEventType, ReaderType, HandoffType, OthersType
  <2>2. CASE UNCHANGED vars
    BY <2>2 DEF vars, provider, turnVars, seedVars, told, TypeOK
  <2> QED BY <2>1, <2>2
<1> QED BY <1>1, <1>2, PTL DEF Spec

-----------------------------------------------------------------------------
(* The order of turns                                                      *)

\* Of a live session: what is completed comes before what is being answered,
\* that before what waits for an answer, in its order, and that before what
\* the customer is saying.
TurnOrder ==
  /\ \A i, j \in DOMAIN awaiting : i < j => awaiting[i] < awaiting[j]
  /\ \A i \in DOMAIN awaiting :
       /\ awaiting[i] <= next
       /\ \A k \in DOMAIN completed : completed[k] < awaiting[i]
       /\ response # NoTurn => response < awaiting[i]
       /\ input # NoTurn => awaiting[i] < input
  /\ input # NoTurn =>
       /\ input <= next
       /\ \A k \in DOMAIN completed : completed[k] < input
       /\ response # NoTurn => response < input
  /\ response # NoTurn => response <= next
  /\ \A k \in DOMAIN completed : completed[k] <= next
  /\ response # NoTurn /\ reader.at # "completing" =>
       \A k \in DOMAIN completed : completed[k] < response
  /\ reader.at = "completing" => response = reader.turn
  /\ reader.at = "transcript" /\ reader.then = "finish_input" => input = reader.turn

OrderInv == CompletedInOrder /\ (connected => TurnOrder)

\* A step that leaves the turns and the place of the reader alone keeps the order.
LEMMA OrderFrame ==
  ASSUME OrderInv, UNCHANGED <<next, input, response, awaiting, completed>>,
         connected' => connected,
         reader'.at = reader.at, reader'.turn = reader.turn, reader'.then = reader.then
  PROVE  OrderInv'
BY DEF OrderInv, CompletedInOrder, TurnOrder

\* So does one that moves the reader on from a place where nothing is pending.
LEMMA OrderMove ==
  ASSUME OrderInv, UNCHANGED <<next, input, response, awaiting, completed>>,
         connected' => connected,
         reader.at # "completing", reader'.at # "completing",
         reader'.at = "transcript" /\ reader'.then = "finish_input" => reader'.turn = input
  PROVE  OrderInv'
BY DEF OrderInv, CompletedInOrder, TurnOrder

\* A closed session completes nothing.
LEMMA OrderClosed ==
  ASSUME OrderInv, ~connected', completed' = completed
  PROVE  OrderInv'
BY DEF OrderInv, CompletedInOrder

\* Finishing what the customer says moves the last turn to those that wait.
LEMMA OrderFinishInput ==
  ASSUME TypeOK, TurnOrder, NEW t \in TurnIds, t = input, FinishInput(t),
         UNCHANGED <<next, response, completed>>,
         reader.at # "completing", reader' = reader \/ reader' = Reading,
         ~(reader'.at = "transcript" /\ reader'.then = "finish_input")
  PROVE  TurnOrder'
<1>1. input # NoTurn BY NoTurnAssumption DEF TurnIds
<1>2. input' = NoTurn BY DEF FinishInput
<1>3. reader'.at # "completing" BY DEF Reading, Stand
<1>4. \A i \in DOMAIN awaiting : awaiting[i] < t /\ awaiting[i] # t
  BY <1>1 DEF TurnOrder, TypeOK, TurnIds
<1>5. awaiting' = Append(awaiting, t) /\ awaiting \in Seq(TurnIds)
  BY <1>4 DEF FinishInput, TypeOK
<1>6. /\ Len(awaiting) \in Nat /\ DOMAIN awaiting = 1..Len(awaiting)
      /\ DOMAIN awaiting' = 1..(Len(awaiting) + 1)
      /\ \A i \in 1..Len(awaiting) : awaiting'[i] = awaiting[i]
      /\ awaiting'[Len(awaiting) + 1] = t
  BY <1>5
<1>7. \A i, j \in DOMAIN awaiting' : i < j => awaiting'[i] < awaiting'[j]
  <2> SUFFICES ASSUME NEW i \in DOMAIN awaiting', NEW j \in DOMAIN awaiting', i < j
               PROVE  awaiting'[i] < awaiting'[j]
    OBVIOUS
  <2>1. i \in DOMAIN awaiting BY <1>6
  <2>2. j \in DOMAIN awaiting \/ j = Len(awaiting) + 1 BY <1>6
  <2> QED BY <2>1, <2>2, <1>4, <1>6 DEF TurnOrder
<1>8. \A i \in DOMAIN awaiting' :
        /\ awaiting'[i] <= next
        /\ \A k \in DOMAIN completed : completed[k] < awaiting'[i]
        /\ response # NoTurn => response < awaiting'[i]
  <2> SUFFICES ASSUME NEW i \in DOMAIN awaiting'
               PROVE  /\ awaiting'[i] <= next
                      /\ \A k \in DOMAIN completed : completed[k] < awaiting'[i]
                      /\ response # NoTurn => response < awaiting'[i]
    OBVIOUS
  <2>1. i \in DOMAIN awaiting \/ i = Len(awaiting) + 1 BY <1>6
  <2> QED BY <2>1, <1>1, <1>6 DEF TurnOrder
<1> QED BY <1>2, <1>3, <1>7, <1>8 DEF TurnOrder

\* The turn that gets an answer comes after those completed and before the rest.
LEMMA OrderEnsureResponse ==
  ASSUME TypeOK, TurnOrder, NEW t, EnsureResponse(t), reader.at = "reading",
         UNCHANGED <<completed, reader>>
  PROVE  TurnOrder'
<1>a. awaiting \in Seq(TurnIds) /\ next \in Nat /\ completed \in Seq(TurnIds)
      /\ input \in TurnIds \cup {NoTurn}
  BY DEF TypeOK
<1>1. CASE response \in turns
  BY <1>1 DEF EnsureResponse, TurnOrder
<1>2. CASE /\ response' = t /\ UNCHANGED <<next, input, turns>>
           /\ \E i \in DOMAIN awaiting :
                /\ Live(i) /\ t = awaiting[i]
                /\ awaiting' = SubSeq(awaiting, i + 1, Len(awaiting))
  <2> PICK i \in DOMAIN awaiting :
        t = awaiting[i] /\ awaiting' = SubSeq(awaiting, i + 1, Len(awaiting))
    BY <1>2
  <2>1. /\ Len(awaiting) \in Nat /\ i \in 1..Len(awaiting)
        /\ DOMAIN awaiting = 1..Len(awaiting)
        /\ DOMAIN awaiting' = 1..(Len(awaiting) - i)
        /\ \A j \in DOMAIN awaiting' : awaiting'[j] = awaiting[i + j] /\ i + j \in DOMAIN awaiting
    BY <1>a
  <2>2. \A j, k \in DOMAIN awaiting' : j < k => awaiting'[j] < awaiting'[k]
    <3> SUFFICES ASSUME NEW j \in DOMAIN awaiting', NEW k \in DOMAIN awaiting', j < k
                 PROVE  awaiting[i + j] < awaiting[i + k]
      BY <2>1
    <3> QED BY <2>1 DEF TurnOrder
  <2>3. \A j \in DOMAIN awaiting' :
          /\ awaiting'[j] <= next
          /\ \A k \in DOMAIN completed : completed[k] < awaiting'[j]
          /\ t < awaiting'[j]
          /\ input # NoTurn => awaiting'[j] < input
    <3> SUFFICES ASSUME NEW j \in DOMAIN awaiting'
                 PROVE  /\ awaiting[i + j] <= next
                        /\ \A k \in DOMAIN completed : completed[k] < awaiting[i + j]
                        /\ t < awaiting[i + j]
                        /\ input # NoTurn => awaiting[i + j] < input
      BY <2>1
    <3> QED BY <2>1 DEF TurnOrder
  <2>4. t <= next /\ (\A k \in DOMAIN completed : completed[k] < t)
        /\ (input # NoTurn => t < input)
    BY DEF TurnOrder
  <2> QED BY <1>2, <2>2, <2>3, <2>4 DEF TurnOrder
<1>3. CASE response' = t /\ AnswerUnasked(t)
  <2>1. awaiting' = <<>> /\ input' = NoTurn BY <1>3 DEF AnswerUnasked
  <2>2. CASE input # NoTurn
    <3>1. t = input /\ next' = next BY <1>3, <2>2 DEF AnswerUnasked
    <3> QED BY <1>3, <2>1, <2>2, <3>1 DEF TurnOrder
  <2>3. CASE input = NoTurn
    <3>1. t = next + 1 /\ next' = next + 1 BY <1>3, <2>3 DEF AnswerUnasked
    <3>2. \A k \in DOMAIN completed : completed[k] <= next /\ completed[k] \in Nat
      BY <1>a DEF TurnOrder, TurnIds
    <3>3. \A k \in DOMAIN completed : completed[k] < next + 1 /\ completed[k] <= next + 1
      BY <1>a, <3>2
    <3> QED BY <1>a, <1>3, <2>1, <3>1, <3>3 DEF TurnOrder
  <2> QED BY <2>2, <2>3
<1> QED BY <1>1, <1>2, <1>3 DEF EnsureResponse

\* An event read by a live session keeps the order.
LEMMA OrderReadEvent ==
  ASSUME TypeOK, OrderInv, ReadEvent PROVE OrderInv'
<1>1. PICK e \in Event : Receive(e)
  BY DEF ReadEvent, DropWhileSeeding, SuppressLateSeed, HandleAsr, HandleAsrEnded,
         HandleAudio, HandleFinished, HandleIdle
<1>2. TurnOrder /\ connected /\ connected' = connected /\ reader.at = "reading"
  BY <1>1 DEF Receive, OrderInv
<1>t. /\ next \in Nat /\ awaiting \in Seq(TurnIds) /\ completed \in Seq(TurnIds)
      /\ input \in TurnIds \cup {NoTurn} /\ response \in TurnIds \cup {NoTurn}
      /\ turns \subseteq TurnIds
  BY DEF TypeOK
<1>3. CASE DropWhileSeeding
  BY <1>2, <1>3, OrderFrame DEF DropWhileSeeding, turnVars, told
<1>4. CASE SuppressLateSeed
  BY <1>2, <1>4, OrderFrame DEF SuppressLateSeed, turnVars, told
<1>5. CASE HandleAsr
  <2>1. CASE input \in turns
    <3>1. /\ UNCHANGED <<next, input, response, awaiting, completed>>
          /\ reader' = reader \/ reader' = Stand("transcript", input, "reading")
      BY <1>5, <2>1 DEF HandleAsr, Notify, turnVars, told
    <3>2. reader'.at # "completing"
          /\ ~(reader'.at = "transcript" /\ reader'.then = "finish_input")
      BY <1>2, <3>1 DEF Stand
    <3> QED BY <1>2, <3>1, <3>2, OrderMove
  <2>2. CASE input \notin turns
    <3>1. /\ next' = next + 1 /\ input' = next + 1
          /\ UNCHANGED <<response, awaiting, completed>>
          /\ reader'.at = "started"
      BY <1>5, <2>2 DEF HandleAsr, told, Stand
    <3>2. \A i \in DOMAIN awaiting : awaiting[i] <= next + 1 /\ awaiting[i] < next + 1
      BY <1>2, <1>t DEF TurnOrder, TurnIds
    <3>3. \A k \in DOMAIN completed : completed[k] <= next + 1 /\ completed[k] < next + 1
      BY <1>2, <1>t DEF TurnOrder, TurnIds
    <3>4. response # NoTurn => response <= next + 1 /\ response < next + 1
      BY <1>2, <1>t DEF TurnOrder, TurnIds
    <3>5. TurnOrder'
      BY <1>2, <1>t, <3>1, <3>2, <3>3, <3>4 DEF TurnOrder
    <3> QED BY <3>1, <3>5 DEF OrderInv, CompletedInOrder
  <2> QED BY <2>1, <2>2
<1>6. CASE HandleAsrEnded
  <2>1. CASE UNCHANGED <<reader, turnVars>>
    BY <1>2, <1>6, <2>1, OrderFrame DEF HandleAsrEnded, turnVars, told
  <2>2. CASE Notify(input, "finish_input") /\ UNCHANGED turnVars
    <3>1. reader'.at = "transcript" /\ reader'.turn = input
      BY <2>2 DEF Notify, Stand
    <3>2. UNCHANGED <<next, input, response, awaiting, completed>>
      BY <1>6, <2>2 DEF HandleAsrEnded, turnVars, told
    <3> QED BY <1>2, <3>1, <3>2, OrderMove
  <2>3. CASE input \in turns /\ FinishInput(input)
             /\ UNCHANGED <<reader, next, response, turns, invalid>>
    <3>1. input \in TurnIds BY <1>t, <2>3
    <3>2. completed' = completed BY <1>6 DEF HandleAsrEnded, told
    <3>3. TurnOrder' BY <1>2, <2>3, <3>1, <3>2, OrderFinishInput
    <3> QED BY <3>2, <3>3 DEF OrderInv, CompletedInOrder
  <2> QED BY <1>6, <2>1, <2>2, <2>3 DEF HandleAsrEnded, turnVars
<1>7. CASE HandleAudio
  <2>1. PICK t \in 0..(next + 1) : EnsureResponse(t)
    BY <1>7 DEF HandleAudio
  <2>2. UNCHANGED <<completed, reader>> BY <1>7 DEF HandleAudio
  <2>3. TurnOrder' BY <1>2, <2>1, <2>2, OrderEnsureResponse
  <2> QED BY <2>2, <2>3 DEF OrderInv, CompletedInOrder
<1>8. CASE HandleFinished \/ HandleIdle
  <2>1. UNCHANGED <<next, input, response, awaiting>>
    BY <1>8 DEF HandleFinished, HandleIdle, turnVars
  <2>2. CASE completed' = completed /\ (reader' = reader \/ reader' = Ended)
    <3>1. reader'.at \in {"reading", "ended"} BY <1>2, <2>2 DEF Ended, Stand
    <3> QED BY <1>2, <2>1, <2>2, <3>1, OrderMove
  <2>3. CASE /\ response \in turns
             /\ completed' = Append(completed, response)
             /\ reader'.at = "completing" /\ reader'.turn = response
    <3>1. response \in TurnIds /\ response # NoTurn
      BY <1>t, <2>3, NoTurnAssumption DEF TurnIds
    <3>2. \A k \in DOMAIN completed : completed[k] < response
      BY <1>2, <3>1 DEF TurnOrder
    <3>3. /\ Len(completed) \in Nat /\ DOMAIN completed = 1..Len(completed)
          /\ DOMAIN completed' = 1..(Len(completed) + 1)
          /\ \A k \in 1..Len(completed) : completed'[k] = completed[k]
          /\ completed'[Len(completed) + 1] = response
      BY <1>t, <2>3, <3>1
    <3>4. \A k \in DOMAIN completed' : k \in DOMAIN completed \/ completed'[k] = response
      BY <3>3
    <3>5. CompletedInOrder'
      <4> SUFFICES ASSUME NEW i \in DOMAIN completed', NEW j \in DOMAIN completed', i < j
                   PROVE  completed'[i] < completed'[j]
        BY DEF CompletedInOrder
      <4>1. i \in DOMAIN completed BY <3>3
      <4>2. j \in DOMAIN completed \/ j = Len(completed) + 1 BY <3>3
      <4> QED BY <3>2, <3>3, <4>1, <4>2 DEF OrderInv, CompletedInOrder
    <3>6. TurnOrder'
      <4>1. \A k \in DOMAIN completed' :
              /\ completed'[k] <= next
              /\ \A i \in DOMAIN awaiting : completed'[k] < awaiting[i]
              /\ input # NoTurn => completed'[k] < input
        BY <1>2, <3>1, <3>3, <3>4 DEF TurnOrder
      <4> QED BY <1>2, <2>1, <2>3, <4>1 DEF TurnOrder
    <3> QED BY <3>5, <3>6 DEF OrderInv
  <2> QED BY <1>8, <2>2, <2>3 DEF HandleFinished, HandleIdle, Stand
<1> QED BY <1>3, <1>4, <1>5, <1>6, <1>7, <1>8 DEF ReadEvent

\* The end of a callback keeps the order: the turn just completed is no
\* longer answered.
LEMMA OrderReader ==
  ASSUME TypeOK, OrderInv, CallbackReturns \/ ReaderEnds PROVE OrderInv'
<1>1. CASE StartedReturns
  <2>1. reader'.at # "completing" /\ reader'.then # "finish_input"
    BY <1>1 DEF StartedReturns, Notify, Reading, Stand
  <2> QED BY <1>1, <2>1, OrderMove DEF StartedReturns, turnVars, told
<1>2. CASE TranscriptReturns
  <2>1. completed' = completed /\ connected' = connected /\ reader' = Reading
        /\ reader.at = "transcript"
    BY <1>2 DEF TranscriptReturns, told
  <2>2. CASE UNCHANGED turnVars
    <3>1. reader'.at = "reading" BY <2>1 DEF Reading, Stand
    <3> QED BY <2>1, <2>2, <3>1, OrderMove DEF turnVars
  <2>3. CASE ~connected
    BY <2>1, <2>3, OrderClosed
  <2>4. CASE connected /\ reader.then = "finish_input" /\ FinishInput(reader.turn)
             /\ UNCHANGED <<next, response, turns, invalid>>
    <3>1. TurnOrder /\ reader.turn = input BY <2>1, <2>4 DEF OrderInv, TurnOrder
    <3>2. reader.turn \in TurnIds BY <2>1 DEF TypeOK, Idle, InCallback
    <3>3. reader'.at = "reading" BY <2>1 DEF Reading, Stand
    <3>4. TurnOrder' BY <2>1, <2>4, <3>1, <3>2, <3>3, OrderFinishInput
    <3> QED BY <2>1, <3>4 DEF OrderInv, CompletedInOrder
  <2> QED BY <1>2, <2>2, <2>3, <2>4 DEF TranscriptReturns
<1>3. CASE CompletedReturns
  <2>1. completed' = completed /\ connected' = connected
        /\ UNCHANGED <<next, input, awaiting>> /\ reader.at = "completing"
    BY <1>3 DEF CompletedReturns, told
  <2>2. reader'.at # "completing" /\ reader'.at # "transcript"
    BY <1>3 DEF CompletedReturns, Reading, Ended, Stand
  <2>3. CASE connected
    <3>1. TurnOrder /\ response = reader.turn BY <2>1, <2>3 DEF OrderInv, TurnOrder
    <3>2. response' = NoTurn BY <1>3, <3>1 DEF CompletedReturns
    <3>3. TurnOrder' BY <2>1, <2>2, <3>1, <3>2 DEF TurnOrder
    <3> QED BY <2>1, <3>3 DEF OrderInv, CompletedInOrder
  <2> QED BY <2>1, <2>3, OrderClosed
<1>4. CASE ReaderEnds
  <2>1. reader'.at = "ended" BY <1>4 DEF ReaderEnds, Ended, Broken, Stand
  <2> QED BY <1>4, <2>1, OrderMove DEF ReaderEnds, turnVars, told
<1> QED BY <1>1, <1>2, <1>3, <1>4 DEF CallbackReturns

\* The session completes turns in the order they began, each once, for any
\* number of utterances and any behaviour of the provider.
THEOREM InOrder == Spec => []CompletedInOrder
<1>1. Init => OrderInv
  <2> SUFFICES ASSUME Init PROVE OrderInv OBVIOUS
  <2>1. reader.at = "reading" BY DEF Init, Reading, Stand
  <2>2. DOMAIN awaiting = {} /\ DOMAIN completed = {} BY DEF Init
  <2>3. input = NoTurn /\ response = NoTurn BY DEF Init
  <2> QED BY <2>1, <2>2, <2>3 DEF OrderInv, CompletedInOrder, TurnOrder
<1>2. TypeOK /\ OrderInv /\ [Next]_vars => OrderInv'
  <2> SUFFICES ASSUME TypeOK, OrderInv, [Next]_vars PROVE OrderInv' OBVIOUS
  <2>1. CASE Provider
    BY <2>1, OrderFrame DEF Provider, turnVars, told
  <2>2. CASE ReadEvent
    BY <2>2, OrderReadEvent
  <2>3. CASE CallbackReturns \/ ReaderEnds
    BY <2>3, OrderReader
  <2>4. CASE Handoff
    <3>1. reader'.at = reader.at /\ reader'.turn = reader.turn /\ reader'.then = reader.then
      BY <2>4, HandoffPlace
    <3>2. CASE CloseFromCallback
      BY <3>2, OrderClosed DEF CloseFromCallback, told
    <3>3. CASE HandOver
      BY <3>1, <3>3, OrderFrame DEF HandOver, told
    <3>4. CASE SendPrompt
      BY <3>1, <3>4, OrderFrame DEF SendPrompt, turnVars, told
    <3>5. CASE AwaitPrompt
      BY <3>1, <3>5, OrderFrame DEF AwaitPrompt, turnVars, told
    <3>6. CASE HandoffFails
      BY <3>1, <3>6, OrderFrame DEF HandoffFails, turnVars, told
    <3> QED BY <2>4, <3>2, <3>3, <3>4, <3>5, <3>6 DEF Handoff
  <2>5. CASE StartSeed \/ SeedCompletes \/ SeedFails \/ SuppressionExpires
    BY <2>5, OrderFrame
    DEF StartSeed, SeedCompletes, SeedFails, SuppressionExpires, turnVars, told
  <2>6. CASE Interrupt
    BY <2>6, OrderFrame DEF Interrupt, told
  <2>7. CASE Close
    BY <2>7, OrderClosed DEF Close, told
  <2>8. CASE UNCHANGED vars
    BY <2>8, OrderFrame DEF vars, turnVars, told
  <2> QED BY <2>1, <2>2, <2>3, <2>4, <2>5, <2>6, <2>7, <2>8 DEF Next
<1>3. OrderInv => CompletedInOrder BY DEF OrderInv
<1> QED BY <1>1, <1>2, <1>3, TypeCorrect, PTL DEF Spec

-----------------------------------------------------------------------------
(* Closing                                                                 *)

\* A closed session is not in on_speech_started, whose end may begin another
\* callback: no handoff, which closes, is run there.
ClosedQuiet == reader.at = "started" => connected /\ reader.handoff = "none"

\* Once closed, a session begins no callback, whoever closed it.
THEOREM Quiet == Spec => NoCallbackAfterClose
<1> DEFINE Q == ~connected =>
       /\ UNCHANGED told
       /\ reader'.at # reader.at => reader'.at \in {"reading", "ended"}
<1>1. Init => ClosedQuiet BY DEF Init, ClosedQuiet, Reading, Stand
<1>2. TypeOK /\ ClosedQuiet /\ [Next]_vars => ClosedQuiet' /\ [Q]_vars
  <2> SUFFICES ASSUME TypeOK, ClosedQuiet, [Next]_vars PROVE ClosedQuiet' /\ Q
    OBVIOUS
  <2>1. CASE Provider \/ StartSeed \/ SeedCompletes \/ SeedFails \/ SuppressionExpires
             \/ Interrupt \/ UNCHANGED vars
    BY <2>1 DEF ClosedQuiet, Provider, StartSeed, SeedCompletes, SeedFails,
                SuppressionExpires, Interrupt, vars, told
  <2>2. CASE ReadEvent
    <3>1. connected /\ connected'
      BY <2>2 DEF ReadEvent, DropWhileSeeding, SuppressLateSeed, HandleAsr, HandleAsrEnded,
                  HandleAudio, HandleFinished, HandleIdle, Receive
    <3>2. reader' = reader \/ reader'.handoff = "none"
      <4>1. CASE DropWhileSeeding \/ SuppressLateSeed \/ HandleAudio
        BY <4>1 DEF DropWhileSeeding, SuppressLateSeed, HandleAudio
      <4>2. CASE HandleAsr \/ HandleAsrEnded
        BY <4>2 DEF HandleAsr, HandleAsrEnded, Notify, Stand
      <4>3. CASE HandleFinished \/ HandleIdle
        BY <4>3 DEF HandleFinished, HandleIdle, Ended, Stand
      <4> QED BY <2>2, <4>1, <4>2, <4>3 DEF ReadEvent
    <3> QED BY <3>1, <3>2 DEF ClosedQuiet, Stand
  <2>3. CASE StartedReturns
    BY <2>3 DEF StartedReturns, ClosedQuiet, Notify, Reading, Stand
  <2>4. CASE TranscriptReturns \/ CompletedReturns \/ ReaderEnds
    <3>1. reader'.at \in {"reading", "ended"} /\ UNCHANGED <<told, connected>>
      BY <2>4 DEF TranscriptReturns, CompletedReturns, ReaderEnds, Reading, Ended, Broken, Stand
    <3> QED BY <3>1 DEF ClosedQuiet
  <2>5. CASE Handoff
    <3>1. reader'.at = reader.at BY <2>5, HandoffPlace
    <3>2. UNCHANGED told
      BY <2>5 DEF Handoff, HandOver, SendPrompt, AwaitPrompt, HandoffFails, CloseFromCallback
    <3>3. reader.at # "started"
      BY <2>5 DEF ClosedQuiet, Handoff, HandOver, SendPrompt, AwaitPrompt, HandoffFails,
                  CloseFromCallback
    <3> QED BY <3>1, <3>2, <3>3 DEF ClosedQuiet
  <2>6. CASE Close
    BY <2>6 DEF Close, ClosedQuiet, Ended, Stand
  <2> QED BY <2>1, <2>2, <2>3, <2>4, <2>5, <2>6 DEF Next, CallbackReturns
<1> QED BY <1>1, <1>2, TypeCorrect, PTL DEF Spec, NoCallbackAfterClose, Q
=============================================================================
