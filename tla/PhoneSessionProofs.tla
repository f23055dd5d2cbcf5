------------------------- MODULE PhoneSessionProofs -------------------------
(***************************************************************************)
(* Proofs about PhoneSession: when a result is left to a handoff, that     *)
(* nothing of the model is heard once a human is asked for, that a turn    *)
(* that was given up is not heard again, and that a turn is in the history *)
(* once.                                                                   *)
(***************************************************************************)
EXTENDS PhoneSession, FiniteSetTheorems, WellFoundedInduction, TLAPS

-----------------------------------------------------------------------------
(* Types                                                                   *)

Provider ==
  [link : {"closed", "broken", "connecting", "open"}, issued : Nat, open : SUBSET Turns,
   input : TurnsOrNone, reply : TurnsOrNone, cut : BOOLEAN]
Callbacks ==
  [at : {"none", "suggesting", "transitioning", "requesting"}, turn : TurnsOrNone,
   status : {"none", "transcript", "completed", "cancelled"}]
Places == {"idle", "created", "locking", "closing", "connecting", "replaying", "breaking"}
Entries == [turn : Turns, status : {"completed", "interrupted", "handoff_requested"}]

CallType ==
  /\ provider \in Provider
  /\ callback \in Callbacks
  /\ requested \in BOOLEAN
  /\ repairs \in [Repairs -> Places]
  /\ asks \in SUBSET Turns
  /\ begun \in SUBSET Turns
  /\ capture \in TurnsOrNone

Workers == [at : {"waiting", "prefilling", "sending", "ended"}, held : Seq(Played)]

PlayType ==
  /\ output \in Played \cup {NoTurn}
  /\ queue \in Seq(Played \cup {End})
  /\ worker \in Workers
  /\ worker.at = "sending" => worker.held # <<>>
  /\ buffers \in SUBSET Turns

BookType ==
  /\ closed \in SUBSET Turns
  /\ pending \in SUBSET (Turns \X {"input", "output"})
  /\ committed \in Seq(Entries)

TypeInv == CallType /\ PlayType /\ BookType

LEMMA Names ==
  /\ Turns \subseteq Nat /\ NoTurn \notin Nat /\ End \notin Nat /\ NoTurn # End
  /\ Opening \in Nat /\ Opening \notin Turns
BY NamesAssumption, BoundsAssumption DEF Turns, Opening

-----------------------------------------------------------------------------
(* The history, as the set of its turns                                    *)

TurnsIn(history) == {history[i].turn : i \in DOMAIN history}
Once(history) == \A i, j \in DOMAIN history : history[i].turn = history[j].turn => i = j

\* A turn that is not in the history is put there once.
LEMMA AppendOnce ==
  ASSUME NEW history \in Seq(Entries), Once(history), NEW t \in Turns,
         NEW status \in {"completed", "interrupted", "handoff_requested"},
         ~IsCommitted(t, history)
  PROVE  LET longer == Append(history, Committed(t, status))
         IN /\ longer \in Seq(Entries)
            /\ Once(longer)
            /\ TurnsIn(longer) = TurnsIn(history) \cup {t}
<1> DEFINE e == Committed(t, status)
           longer == Append(history, e)
<1>1. e \in Entries /\ e.turn = t
  BY DEF Committed, Entries
<1> HIDE DEF e
<1>2. /\ longer \in Seq(Entries)
      /\ Len(longer) = Len(history) + 1 /\ Len(history) \in Nat
      /\ DOMAIN longer = 1..Len(history) + 1 /\ DOMAIN history = 1..Len(history)
      /\ \A i \in 1..Len(history) : longer[i] = history[i]
      /\ longer[Len(history) + 1] = e
  BY <1>1
<1> HIDE DEF longer
<1>3. \A i \in 1..Len(history) : history[i].turn # t
  BY <1>2 DEF IsCommitted
<1>4. Once(longer)
  BY <1>1, <1>2, <1>3 DEF Once
<1>5. TurnsIn(longer) = TurnsIn(history) \cup {t}
  BY <1>1, <1>2 DEF TurnsIn
<1> QED BY <1>2, <1>4, <1>5 DEF longer, e

\* Giving up a turn: it is closed, nothing of it is pending, and it is in the
\* history at most once.
LEMMA AbandonFacts ==
  ASSUME BookType, NEW t \in Played \cup {NoTurn},
         NEW exchanges \in SUBSET (Turns \X {"input", "output"}), NEW outputs,
         NEW history \in Seq(Entries), Once(history),
         Abandon(t, exchanges, outputs, history)
  PROVE  /\ BookType' /\ Once(committed')
         /\ closed' = closed \cup ({t} \cap Turns)
         /\ pending' \subseteq exchanges
         /\ TurnsIn(committed') \subseteq TurnsIn(history) \cup ({t} \cap Turns)
<1>1. CASE t \in {NoTurn, Opening}
  BY <1>1, Names DEF Abandon, BookType
<1>2. CASE t \notin {NoTurn, Opening}
  <2>1. t \in Turns
    BY <1>2 DEF Played
  <2>2. /\ closed' = closed \cup {t} /\ pending' \subseteq exchanges
        /\ closed' \in SUBSET Turns
    BY <1>2, <2>1 DEF Abandon, Without, BookType
  <2>3. \/ committed' = history
        \/ /\ ~IsCommitted(t, history)
           /\ committed' = Append(history, Committed(t, "interrupted"))
    BY <1>2 DEF Abandon
  <2>4. /\ committed' \in Seq(Entries) /\ Once(committed')
        /\ TurnsIn(committed') \subseteq TurnsIn(history) \cup {t}
    BY <2>1, <2>3, AppendOnce
  <2> QED BY <2>1, <2>2, <2>4 DEF BookType
<1> QED BY <1>1, <1>2

LEMMA RequestFacts ==
  ASSUME BookType, Once(committed), NEW t \in Turns
  PROVE  /\ RequestCommitted(t) \in Seq(Entries) /\ Once(RequestCommitted(t))
         /\ TurnsIn(RequestCommitted(t)) \subseteq TurnsIn(committed) \cup {t}
BY AppendOnce DEF BookType, RequestCommitted

\* The turn begun last is the highest.
LEMMA LastIsHighest ==
  ASSUME begun \in SUBSET Turns
  PROVE  LastTurn \in Nat /\ \A t \in begun : t <= LastTurn
<1>1. CASE begun = {}
  BY <1>1 DEF LastTurn
<1>2. CASE begun # {}
  <2>0. MaxTurns \in Nat /\ begun \subseteq 1..MaxTurns
    BY BoundsAssumption DEF Turns
  <2> DEFINE Left == {MaxTurns - t : t \in begun}
             R == OpToRel(<, Nat)
  <2>1. Left \subseteq Nat /\ Left # {}
    <3>1. ASSUME NEW t \in begun PROVE MaxTurns - t \in Nat
      <4>1. t \in 1..MaxTurns
        BY <2>0
      <4> QED BY <2>0, <4>1
    <3> QED BY <1>2, <3>1
  <2>2. \A m, n \in Nat : n < m => <<n, m>> \in R
    BY DEF OpToRel
  <2>3. IsWellFoundedOn(R, Nat)
    BY NatLessThanWellFounded
  <2> HIDE DEF R
  <2>4. PICK m \in Left : \A n \in Left : <<n, m>> \notin R
    BY <2>1, <2>3, WFMin
  <2>5. PICK t \in begun : m = MaxTurns - t
    BY <2>4
  <2>6. ASSUME NEW u \in begun PROVE u <= t
    <3>1. MaxTurns - u \in Left /\ ~(MaxTurns - u < MaxTurns - t)
      BY <2>1, <2>2, <2>4, <2>5
    <3> QED BY <3>1, <2>0
  <2>7. \E v \in begun : \A u \in begun : u <= v
    BY <2>6
  <2>8. LastTurn \in begun /\ \A u \in begun : u <= LastTurn
    BY <1>2, <2>7 DEF LastTurn
  <2> QED BY <2>0, <2>8
<1> QED BY <1>1, <1>2

-----------------------------------------------------------------------------
(* Types are kept                                                          *)

LEMMA Sessions ==
  ASSUME provider \in Provider
  PROVE  /\ ProviderClosed \in Provider /\ ProviderClosed.link = "closed"
         /\ ProviderClosed.open = {} /\ ProviderClosed.reply = NoTurn
         /\ LET p == [ProviderClosed EXCEPT !.link = "broken"]
            IN p \in Provider /\ p.link = "broken" /\ p.open = {} /\ p.reply = NoTurn
         /\ \A link \in {"closed", "connecting", "open"} :
              LET p == [provider EXCEPT !.link = link]
              IN p \in Provider /\ p.link = link /\ p.open = provider.open
                 /\ p.reply = provider.reply /\ p.issued = provider.issued /\ p.cut = provider.cut
         /\ \A cut \in BOOLEAN :
              LET p == [provider EXCEPT !.cut = cut]
              IN p \in Provider /\ p.link = provider.link /\ p.open = provider.open
                 /\ p.reply = provider.reply /\ p.issued = provider.issued /\ p.cut = cut
         /\ \A n \in Nat :
              LET p == NewProvider(n)
              IN p \in Provider /\ p.link = "connecting" /\ p.open = {} /\ p.reply = NoTurn
                 /\ p.issued = n
<1>1. ProviderClosed \in Provider /\ ProviderClosed.link = "closed"
      /\ ProviderClosed.open = {} /\ ProviderClosed.reply = NoTurn
  BY DEF ProviderClosed, Provider, TurnsOrNone
<1>2. ASSUME NEW n \in Nat
      PROVE  LET p == NewProvider(n)
             IN p \in Provider /\ p.link = "connecting" /\ p.open = {} /\ p.reply = NoTurn
                /\ p.issued = n
  BY <1>1 DEF NewProvider, Provider
<1>3. LET p == [ProviderClosed EXCEPT !.link = "broken"]
      IN p \in Provider /\ p.link = "broken" /\ p.open = {} /\ p.reply = NoTurn
  BY <1>1 DEF Provider
<1> QED BY <1>1, <1>2, <1>3 DEF Provider

LEMMA InitTypeInv == Init => TypeInv
<1> SUFFICES ASSUME Init PROVE TypeInv
  OBVIOUS
<1>1. CallType
  BY DEF Init, CallType, NewProvider, ProviderClosed, NoCallback, Provider, Callbacks, Places,
     TurnsOrNone
<1>2. PlayType
  BY DEF Init, PlayType, Waiting, Workers
<1>3. BookType
  BY DEF Init, BookType
<1> QED BY <1>1, <1>2, <1>3 DEF TypeInv

LEMMA StartRepairType ==
  ASSUME repairs \in [Repairs -> Places], StartRepair
  PROVE  repairs' \in [Repairs -> Places]
BY DEF StartRepair, Places

LEMMA ReturnedType ==
  ASSUME CallType, Returned
  PROVE  /\ callback' = NoCallback /\ callback' \in Callbacks /\ provider' \in Provider
         /\ provider'.link = provider.link /\ provider'.issued = provider.issued
         /\ provider'.open \subseteq provider.open
         /\ provider'.reply \in {provider.reply, NoTurn}
         /\ \/ provider' = provider
            \/ /\ provider'.open = provider.open \ {callback.turn}
               /\ provider'.reply = NoTurn
         /\ callback.status # "transcript" /\ provider.link = "open" =>
              provider'.open = provider.open \ {callback.turn} /\ provider'.reply = NoTurn
BY DEF CallType, Returned, Provider, Callbacks, NoCallback, TurnsOrNone

LEMMA CloseType ==
  ASSUME CallType, CloseProvider
  PROVE  /\ provider' \in Provider /\ callback' = NoCallback /\ callback' \in Callbacks
         /\ IF provider.link = "open" THEN provider' = ProviderClosed ELSE provider' = provider
         /\ ProviderClosed.link = "closed" /\ ProviderClosed.reply = NoTurn
         /\ ProviderClosed.open = {}
BY DEF CallType, CloseProvider, ProviderClosed, Provider, Callbacks, NoCallback, TurnsOrNone

LEMMA AnsweringType ==
  ASSUME CallType, NEW t \in Turns, Answered(t), provider' = Answering(t)
  PROVE  /\ provider' \in Provider /\ provider'.link = provider.link
         /\ provider'.open = provider.open \cup {t} /\ provider'.reply = t
         /\ provider'.cut = provider.cut
         /\ provider'.issued = IF t > provider.issued THEN t ELSE provider.issued
BY Names DEF CallType, Answering, Provider, TurnsOrNone

LEMMA SpeechType ==
  ASSUME CallType, SpeechStarted
  PROVE  LET t == provider.issued + 1
         IN /\ t \in Turns /\ provider' \in Provider /\ provider'.link = provider.link
            /\ provider'.open = provider.open \cup {t} /\ provider'.reply = provider.reply
            /\ provider'.issued = t /\ provider'.cut = (provider.reply # NoTurn)
            /\ asks' = asks \ {t}
            /\ begun' = begun \cup {t} /\ capture' = t
BY Names DEF CallType, SpeechStarted, WithinBound, Provider, TurnsOrNone

LEMMA CallTypeStep == ASSUME CallType, [Next]_vars PROVE CallType'
<1>1. CASE Handler
  <2>1. repairs' \in [Repairs -> Places]
    BY <1>1, StartRepairType DEF Handler, ConnectReturns, ConnectFails, StartOpening, BargeIn,
       AppendRaises, MediaCloses, CallType, repairVars
  <2>2. provider' \in Provider
    BY <1>1, Sessions DEF Handler, ConnectReturns, ConnectFails, StartOpening, BargeIn,
       AppendRaises, MediaCloses, CallType, aiVars
  <2> QED BY <1>1, <2>1, <2>2 DEF Handler, ConnectReturns, ConnectFails, StartOpening, BargeIn,
            AppendRaises, MediaCloses, CallType, aiVars, handoffVars, turnVars
<1>2. CASE Shutdown
  BY <1>2, CloseType DEF Shutdown, ShutdownCloses, ShutdownJoins, ShutdownEnds, CallType, aiVars,
     handoffVars, repairVars, turnVars
<1>3. CASE SpeechStarted
  <2>1. repairs' \in [Repairs -> Places]
    BY <1>3, StartRepairType DEF SpeechStarted, CallType, repairVars
  <2> QED BY <1>3, <2>1, SpeechType DEF SpeechStarted, CallType, handoffVars, TurnsOrNone
<1>16. CASE ProviderBreaks
  BY <1>16, Sessions DEF ProviderBreaks, CallType, handoffVars, repairVars, turnVars
<1>4. CASE InputEnds
  BY <1>4 DEF InputEnds, CallType, handoffVars, repairVars, turnVars, Provider, TurnsOrNone
<1>5. CASE AudioDelta
  BY <1>5, AnsweringType DEF AudioDelta, CallType, handoffVars, repairVars
<1>6. CASE TurnCompleted
  BY <1>6 DEF TurnCompleted, CallType, handoffVars, repairVars, In, Callbacks, Provider, TurnsOrNone
<1>7. CASE FinalizeTurn
  BY <1>7, ReturnedType DEF FinalizeTurn, CallType, handoffVars, repairVars
<1>8. CASE HumanAskedFor \/ HumanAskedForInTurn
  <2>1. /\ UNCHANGED <<begun, repairs, requested>> /\ capture' \in {capture, NoTurn}
        /\ \E t \in begun : asks' = asks \cup {t}
        /\ \E t \in TurnsOrNone, status \in {"transcript", "completed"} :
             callback' = In("transitioning", t, status)
        /\ provider' = [provider EXCEPT !.cut = provider.reply # NoTurn]
    BY <1>8 DEF HumanAskedFor, HumanAskedForInTurn, TriggerHandoff, handoffVars, CallType, Provider
  <2>2. provider' \in Provider
    <3>1. (provider.reply # NoTurn) \in BOOLEAN
      OBVIOUS
    <3> QED BY <2>1, <3>1, Sessions DEF CallType
  <2> QED BY <2>1, <2>2 DEF CallType, In, Callbacks, TurnsOrNone
<1>9. CASE DuplicateHandoff
  BY <1>9 DEF DuplicateHandoff, CallType, handoffVars, repairVars, Provider, TurnsOrNone
<1>10. CASE RequestHuman
  BY <1>10 DEF RequestHuman, CallType, repairVars, turnVars, Callbacks
<1>11. CASE HumanPromised
  BY <1>11, Sessions DEF HumanPromised, CallType, repairVars, turnVars, Callbacks, NoCallback,
     TurnsOrNone
<1>12. CASE HumanRefused
  BY <1>12, ReturnedType DEF HumanRefused, CallType, repairVars, turnVars
<1>13. ASSUME NEW r \in Repairs, Repair(r) PROVE CallType'
  <2>1. repairs' \in [Repairs -> Places]
    BY <1>13 DEF Repair, RepairClears, RepairCloses, RepairFindsNone, RepairReplaces,
       RepairConnects, RepairReplays, RepairGivesUp, RepairEnds, Goes, CallType, Places
  <2>2. provider' \in Provider
    <3>1. LastTurn \in Nat
      BY LastIsHighest DEF CallType
    <3> QED BY <1>13, <3>1, CloseType, Sessions DEF Repair, RepairClears, RepairCloses,
              RepairFindsNone, RepairReplaces, RepairConnects, RepairReplays, RepairGivesUp, RepairEnds,
              CallType, aiVars
  <2>3. /\ callback' \in Callbacks /\ UNCHANGED <<asks, begun, requested>>
        /\ capture' \in {capture, NoTurn}
    BY <1>13, CloseType DEF Repair, RepairClears, RepairCloses, RepairFindsNone, RepairReplaces,
       RepairConnects, RepairReplays, RepairGivesUp, RepairEnds, CallType, aiVars, handoffVars, turnVars
  <2> QED BY <2>1, <2>2, <2>3 DEF CallType, TurnsOrNone
<1>14. CASE Worker \/ QueueCompleted
  BY <1>14 DEF Worker, TakeFrame, PrefillFrame, Prefilled, FrameSent, QueueCompleted, CallType,
     aiVars, handoffVars, repairVars, turnVars
<1>15. CASE UNCHANGED vars
  BY <1>15 DEF vars, aiVars, handoffVars, repairVars, turnVars, CallType
<1> QED BY <1>1, <1>2, <1>3, <1>4, <1>5, <1>6, <1>7, <1>8, <1>9, <1>10, <1>11, <1>12, <1>13,
  <1>14, <1>15, <1>16 DEF Next, Callback, Handoff

\* What the worker holds are frames of turns, and what it goes on to send is of
\* the turn that plays.
LEMMA SendFacts ==
  ASSUME PlayType, NEW frames \in Seq(Played), NEW playsNow, NEW openingNow,
         SendNext(frames, playsNow, openingNow)
  PROVE  /\ worker' \in Workers
         /\ worker'.at = "sending" => worker'.held # <<>> /\ playsNow \in Played
<1> DEFINE places == {j \in DOMAIN frames : frames[j] = playsNow}
           live == FramesOf(playsNow, frames)
<1>1. IsFiniteSet(places) /\ Cardinality(places) \in Nat
  <2>1. DOMAIN frames = 1..Len(frames) /\ Len(frames) \in Nat
    OBVIOUS
  <2>2. IsFiniteSet(1..Len(frames))
    BY <2>1, FS_Interval
  <2> QED BY <2>1, <2>2, FS_Subset, FS_CardinalityType
<1>2. live # <<>> => playsNow \in Played
  <2> SUFFICES ASSUME playsNow \notin Played PROVE live = <<>>
    OBVIOUS
  <2>1. places = {}
    OBVIOUS
  <2>2. Cardinality(places) = 0
    BY <2>1, FS_EmptySet
  <2> HIDE DEF places
  <2>3. live = [i \in 1..0 |-> playsNow]
    BY <2>2 DEF FramesOf, places
  <2> QED BY <2>3
<1>3. live # <<>> => live \in Seq(Played)
  <2> SUFFICES ASSUME live # <<>> PROVE live \in Seq(Played)
    OBVIOUS
  <2> DEFINE n == Cardinality(places)
  <2>1. live = [i \in 1..n |-> playsNow] /\ n \in Nat
    BY <1>1 DEF FramesOf
  <2> HIDE DEF n
  <2> QED BY <1>2, <2>1
<1> HIDE DEF live
<1>4. \/ worker' = Waiting
      \/ live # <<>> /\ worker' = [at |-> "sending", held |-> live]
      \/ worker' = [at |-> "ended", held |-> <<>>]
  BY DEF SendNext, live
<1>5. <<>> \in Seq(Played)
  OBVIOUS
<1>6. CASE worker' = Waiting \/ worker' = [at |-> "ended", held |-> <<>>]
  <2>1. /\ Waiting \in Workers /\ Waiting.at = "waiting"
        /\ [at |-> "ended", held |-> <<>>] \in Workers
    BY <1>5 DEF Waiting, Workers
  <2> QED BY <1>6, <2>1
<1>7. CASE live # <<>> /\ worker' = [at |-> "sending", held |-> live]
  BY <1>2, <1>3, <1>7 DEF Workers
<1> QED BY <1>4, <1>6, <1>7

\* Frames are put into the queue and taken from it.
LEMMA Queued ==
  ASSUME NEW q \in Seq(Played \cup {End})
  PROVE  /\ \A t \in Played \cup {End} : Append(q, t) \in Seq(Played \cup {End})
         /\ q # <<>> => Head(q) \in Played \cup {End} /\ Tail(q) \in Seq(Played \cup {End})
         /\ <<>> \in Seq(Played \cup {End})
OBVIOUS

LEMMA PlayTypeStep == ASSUME CallType, PlayType, [Next]_vars PROVE PlayType'
<1> USE Names
<1>1. CASE Handler
  <2>1. Opening \in Played
    BY DEF Played
  <2>2. CASE StartOpening
    BY <2>1, <2>2, Queued DEF StartOpening, PlayType
  <2>3. CASE ~StartOpening
    BY <1>1, <2>3 DEF Handler, ConnectReturns, ConnectFails, BargeIn, AppendRaises, MediaCloses,
       PlayType, turnVars, playVars, markVars
  <2> QED BY <2>2, <2>3
<1>2. CASE Shutdown
  BY <1>2, Queued DEF Shutdown, ShutdownCloses, ShutdownJoins, ShutdownEnds, PlayType, turnVars,
     playVars, markVars
<1>3. CASE SpeechStarted \/ ProviderBreaks \/ InputEnds \/ TurnCompleted
  BY <1>3 DEF SpeechStarted, ProviderBreaks, InputEnds, TurnCompleted, PlayType, turnVars, playVars, markVars
<1>4. CASE AudioDelta
  <2>1. PICK t \in Turns : IF provider.cut THEN UNCHANGED <<output, buffers, queue>> ELSE QueueAudio(t)
    BY <1>4 DEF AudioDelta
  <2>2. t \in Played /\ UNCHANGED worker
    BY <1>4 DEF AudioDelta, Played
  <2> QED BY <2>1, <2>2, Queued DEF QueueAudio, PlayType
<1>5. CASE FinalizeTurn
  <2>1. callback.turn \in TurnsOrNone
    BY DEF CallType, Callbacks
  <2>2. ASSUME callback.turn \in Turns
        PROVE  Silence(callback.turn) \in Seq(Played)
    BY <2>2, BoundsAssumption DEF Silence, Played
  <2>3. callback.turn \in buffers => callback.turn \in Turns
    BY DEF PlayType
  <2>4. queue' \in Seq(Played \cup {End})
    BY <1>5, <2>2, <2>3 DEF FinalizeTurn, PlayType
  <2>5. output' \in Played \cup {NoTurn} /\ buffers' \in SUBSET Turns
    BY <1>5, <2>3 DEF FinalizeTurn, PlayType, Played
  <2> QED BY <1>5, <2>4, <2>5 DEF FinalizeTurn, PlayType
<1>6. CASE HumanAskedFor \/ HumanAskedForInTurn
  BY <1>6, Queued DEF HumanAskedFor, HumanAskedForInTurn, TriggerHandoff, StopPlayback, PlayType
<1>7. CASE DuplicateHandoff \/ RequestHuman \/ HumanPromised \/ HumanRefused
  BY <1>7 DEF DuplicateHandoff, RequestHuman, HumanPromised, HumanRefused, PlayType, turnVars,
     playVars, markVars
<1>8. ASSUME NEW r \in Repairs, Repair(r) PROVE PlayType'
  <2>1. CASE RepairClears(r)
    BY <2>1, Queued DEF RepairClears, StopPlayback, PlayType
  <2>2. CASE ~RepairClears(r)
    BY <1>8, <2>2 DEF Repair, RepairCloses, RepairFindsNone, RepairReplaces, RepairConnects, RepairReplays,
       RepairGivesUp, RepairEnds, PlayType, turnVars, playVars, markVars
  <2> QED BY <2>1, <2>2
<1>9. CASE TakeFrame
  <2>1. /\ Head(queue) \in Played \cup {End} /\ queue' \in Seq(Played \cup {End})
        /\ UNCHANGED <<output, buffers>>
    BY <1>9 DEF TakeFrame, PlayType, turnVars, markVars
  <2>2. Head(queue) = output => Head(queue) \in Played
    BY <2>1 DEF PlayType, Played
  <2>3. CASE Head(queue) \in prefilled /\ Head(queue) = output
    <3>1. <<Head(queue)>> \in Seq(Played)
      BY <2>2, <2>3
    <3>2. SendNext(<<Head(queue)>>, output, opening)
      BY <1>9, <2>3 DEF TakeFrame
    <3> QED BY <2>1, <3>1, <3>2, SendFacts DEF PlayType
  <2>4. CASE ~(Head(queue) \in prefilled /\ Head(queue) = output)
    <3>1. \/ worker' = [worker EXCEPT !.at = "ended"]
          \/ worker' = worker
          \/ worker' = [at |-> "prefilling", held |-> <<Head(queue)>>] /\ Head(queue) = output
      BY <1>9, <2>4 DEF TakeFrame
    <3>2. Head(queue) = output => <<Head(queue)>> \in Seq(Played)
      BY <2>2
    <3>3. worker' \in Workers /\ (worker'.at = "sending" => worker' = worker)
      <4>1. worker \in Workers
        BY DEF PlayType
      <4>2. [worker EXCEPT !.at = "ended"] \in Workers /\ [worker EXCEPT !.at = "ended"].at = "ended"
        BY <4>1 DEF Workers
      <4>3. Head(queue) = output =>
              LET w == [at |-> "prefilling", held |-> <<Head(queue)>>]
              IN w \in Workers /\ w.at = "prefilling"
        BY <3>2 DEF Workers
      <4> QED BY <3>1, <4>1, <4>2, <4>3
    <3> QED BY <2>1, <3>3 DEF PlayType
  <2> QED BY <2>3, <2>4
<1>10. CASE PrefillFrame
  <2>1. /\ Head(queue) \in Played \cup {End} /\ Tail(queue) \in Seq(Played \cup {End})
        /\ UNCHANGED <<output, buffers>>
    BY <1>10 DEF PrefillFrame, PlayType, turnVars, markVars
  <2>2. Head(queue) = output => Head(queue) \in Played
    BY <2>1 DEF PlayType, Played
  <2>3. queue' \in Seq(Played \cup {End})
    BY <1>10, <2>1, Queued DEF PrefillFrame
  <2>4. \/ worker' = Waiting
        \/ worker' = worker
        \/ worker' = [worker EXCEPT !.held = Append(@, Head(queue))] /\ Head(queue) = output
    BY <1>10 DEF PrefillFrame
  <2>5. worker.held \in Seq(Played) /\ worker.at = "prefilling"
    BY <1>10 DEF PrefillFrame, Collecting, PlayType, Workers
  <2>6. Head(queue) = output => Append(worker.held, Head(queue)) \in Seq(Played)
    BY <2>2, <2>5
  <2>7. Waiting \in Workers /\ Waiting.at = "waiting"
    <3>1. <<>> \in Seq(Played)
      OBVIOUS
    <3> QED BY <3>1 DEF Waiting, Workers
  <2>8. worker' \in Workers /\ worker'.at # "sending"
    BY <2>4, <2>5, <2>6, <2>7 DEF PlayType, Workers
  <2> QED BY <2>1, <2>3, <2>8 DEF PlayType
<1>11. CASE Prefilled
  BY <1>11, SendFacts DEF Prefilled, PlayType, Workers, turnVars
<1>12. CASE FrameSent
  <2>1. /\ worker.held \in Seq(Played) /\ worker.held # <<>>
        /\ UNCHANGED <<queue, buffers>> /\ output' \in {output, NoTurn}
    BY <1>12 DEF FrameSent, CompleteIfReady, PlayType, Workers
  <2>3. Tail(worker.held) \in Seq(Played)
    BY <2>1
  <2>2. \E playsNow, openingNow : SendNext(Tail(worker.held), playsNow, openingNow)
    BY <1>12 DEF FrameSent
  <2> QED BY <2>1, <2>2, <2>3, SendFacts DEF PlayType
<1>13. CASE QueueCompleted
  BY <1>13 DEF QueueCompleted, CompleteIfReady, PlayType
<1>14. CASE UNCHANGED vars
  BY <1>14 DEF vars, turnVars, playVars, markVars, PlayType
<1> QED BY <1>1, <1>2, <1>3, <1>4, <1>5, <1>6, <1>7, <1>8, <1>9, <1>10, <1>11, <1>12, <1>13,
  <1>14 DEF Next, Callback, Handoff, Worker

-----------------------------------------------------------------------------
(* When a result is left to a handoff                                      *)

\* Who has asked for a human waits for the answer, or was promised one, or did
\* not hear the refusal; the callback that asks has asked.
AskedInv ==
  /\ requested => requester \in {"running", "accepted", "refused_unheard"}
  /\ callback.at = "requesting" => requested

LEMMA AskedStep == ASSUME CallType, AskedInv, [Next]_vars PROVE AskedInv'
<1>1. CASE RequestHuman
  BY <1>1 DEF RequestHuman, AskedInv
<1>2. CASE HumanPromised
  BY <1>2 DEF HumanPromised, AskedInv, NoCallback
<1>3. CASE HumanRefused
  BY <1>3, ReturnedType DEF HumanRefused, AskedInv, NoCallback
<1>4. CASE ~RequestHuman /\ ~HumanPromised /\ ~HumanRefused
  <2>1. UNCHANGED <<requested, requester>>
    BY <1>4 DEF Next, Handler, ConnectReturns, ConnectFails, StartOpening, BargeIn, AppendRaises,
       MediaCloses, Shutdown, ShutdownCloses, ShutdownJoins, ShutdownEnds, Callback, SpeechStarted,
       ProviderBreaks, InputEnds, AudioDelta, TurnCompleted, FinalizeTurn, Handoff, HumanAskedFor,
       HumanAskedForInTurn, TriggerHandoff, DuplicateHandoff, Repair, RepairClears, RepairCloses,
       RepairFindsNone, RepairReplaces, RepairConnects, RepairReplays, RepairGivesUp, RepairEnds, Worker,
       TakeFrame, PrefillFrame, Prefilled, FrameSent, QueueCompleted, vars, handoffVars
  <2>2. callback'.at = "requesting" => callback.at = "requesting"
    <3>1. CASE Handler \/ Shutdown
      BY <3>1, CloseType DEF Handler, ConnectReturns, ConnectFails, StartOpening, BargeIn,
         AppendRaises, MediaCloses, Shutdown, ShutdownCloses, ShutdownJoins, ShutdownEnds, aiVars,
         NoCallback
    <3>2. CASE Callback
      BY <3>2, ReturnedType DEF Callback, SpeechStarted, ProviderBreaks, InputEnds, AudioDelta, TurnCompleted,
         FinalizeTurn, In, NoCallback
    <3>3. CASE HumanAskedFor \/ HumanAskedForInTurn \/ DuplicateHandoff
      BY <3>3 DEF HumanAskedFor, HumanAskedForInTurn, TriggerHandoff, DuplicateHandoff, In
    <3>4. ASSUME NEW r \in Repairs, Repair(r)
          PROVE  callback'.at = "requesting" => callback.at = "requesting"
      BY <3>4, CloseType DEF Repair, RepairClears, RepairCloses, RepairFindsNone, RepairReplaces,
         RepairConnects, RepairReplays, RepairGivesUp, RepairEnds, aiVars, NoCallback
    <3>5. CASE Worker \/ QueueCompleted \/ UNCHANGED vars
      BY <3>5 DEF Worker, TakeFrame, PrefillFrame, Prefilled, FrameSent, QueueCompleted, vars, aiVars
    <3> QED BY <1>4, <3>1, <3>2, <3>3, <3>4, <3>5 DEF Next, Handoff
  <2> QED BY <2>1, <2>2 DEF AskedInv
<1> QED BY <1>1, <1>2, <1>3, <1>4

LEMMA DeferredStep ==
  ASSUME AskedInv, [Next]_vars
  PROVE  result' = "deferred" /\ result # "deferred" =>
           requester \in {"running", "accepted", "refused_unheard"}
<1>1. CASE ShutdownEnds
  BY <1>1 DEF ShutdownEnds, AskedInv
<1>2. CASE ~ShutdownEnds
  BY <1>2 DEF Next, Handler, ConnectReturns, ConnectFails, StartOpening, BargeIn, AppendRaises,
     MediaCloses, Shutdown, ShutdownCloses, ShutdownJoins, Callback, SpeechStarted,
     ProviderBreaks, InputEnds, AudioDelta, TurnCompleted, FinalizeTurn, Handoff, HumanAskedFor,
     HumanAskedForInTurn, TriggerHandoff, DuplicateHandoff, RequestHuman, HumanPromised,
     HumanRefused, Repair, RepairClears, RepairCloses, RepairFindsNone, RepairReplaces,
     RepairConnects, RepairReplays, RepairGivesUp, RepairEnds, Worker, TakeFrame, PrefillFrame, Prefilled,
     FrameSent, QueueCompleted, vars, callVars
<1> QED BY <1>1, <1>2

\* A result is deferred only to a handoff that was asked for and not heard to be
\* refused, however the websocket, the callback and the requester's thread end.
THEOREM DeferredOnlyToHandoff == Spec => DeferredToHandoff
<1>1. Init => CallType /\ AskedInv
  BY InitTypeInv DEF TypeInv, Init, AskedInv, NoCallback
<1>2. CallType /\ AskedInv /\ [Next]_vars => CallType' /\ AskedInv'
  BY CallTypeStep, AskedStep
<1>3. CallType /\ AskedInv /\ [Next]_vars =>
        [result' = "deferred" /\ result # "deferred" =>
           requester \in {"running", "accepted", "refused_unheard"}]_vars
  BY DeferredStep
<1> QED BY <1>1, <1>2, <1>3, PTL DEF Spec, DeferredToHandoff

-----------------------------------------------------------------------------
(* Sessions, callbacks and the turns they know                             *)

\* Unless the call is strained, one repair at a time is to restart the session.
Busy == {"created"} \cup Restarting
Alone == \A r, q \in Repairs : repairs[r] \in Busy /\ repairs[q] \in Busy => r = q

\* What is strained remains so: a step that leaves the call unstrained found it
\* unstrained, and the openings and repairs it starts are alone.
LEMMA Calm ==
  ASSUME [Next]_vars, ~strained'
  PROVE  /\ ~strained
         /\ StartOpening => output = NoTurn
         /\ StartRepair => \A q \in Repairs : repairs[q] \notin Busy
<1>1. CASE StartOpening
  <2>1. ~strained /\ output = NoTurn
    BY <1>1 DEF StartOpening
  <2>2. ~StartRepair \/ \A q \in Repairs : repairs[q] \notin Busy
    BY DEF StartRepair, Busy
  <2> QED BY <2>1, <2>2
<1>2. CASE ~StartOpening
  <2>1. StartRepair \/ strained' = strained
    BY <1>2 DEF Next, Handler, ConnectReturns, ConnectFails, BargeIn, AppendRaises, MediaCloses,
       Shutdown, ShutdownCloses, ShutdownJoins, ShutdownEnds, Callback, SpeechStarted,
       ProviderBreaks, InputEnds, AudioDelta, TurnCompleted, FinalizeTurn, Handoff, HumanAskedFor,
       HumanAskedForInTurn, TriggerHandoff, DuplicateHandoff, RequestHuman, HumanPromised,
       HumanRefused, Repair, RepairClears, RepairCloses, RepairFindsNone, RepairReplaces,
       RepairConnects, RepairReplays, RepairGivesUp, RepairEnds, Worker, TakeFrame, PrefillFrame,
       Prefilled, FrameSent, QueueCompleted, vars, repairVars
  <2>2. CASE StartRepair
    <3>1. strained' = (strained \/ \E q \in Repairs : repairs[q] \in Busy)
      BY <2>2 DEF StartRepair, Busy
    <3>2. ~(strained \/ \E q \in Repairs : repairs[q] \in Busy)
      BY <3>1
    <3> QED BY <1>2, <3>2
  <2> QED BY <1>2, <2>1, <2>2
<1> QED BY <1>1, <1>2

LEMMA AloneStep ==
  ASSUME CallType, Alone, [Next]_vars, ~strained' PROVE Alone'
<1>1. CASE StartRepair
  <2>1. \A q \in Repairs : repairs[q] \notin Busy
    BY <1>1, Calm
  <2>2. PICK r \in Repairs : repairs' = [repairs EXCEPT ![r] = "created"]
    BY <1>1 DEF StartRepair
  <2>3. \A q \in Repairs : repairs'[q] \in Busy => q = r
    BY <2>1, <2>2 DEF CallType
  <2> QED BY <2>3 DEF Alone
<1>2. CASE ~StartRepair
  <2>1. \A q \in Repairs : repairs'[q] \in Busy => repairs[q] \in Busy
    <3>1. ASSUME NEW r \in Repairs, Repair(r) PROVE \A q \in Repairs : repairs'[q] \in Busy => repairs[q] \in Busy
      BY <3>1 DEF Repair, RepairClears, RepairCloses, RepairFindsNone, RepairReplaces,
         RepairConnects, RepairReplays, RepairGivesUp, RepairEnds, Goes, CallType, Busy, Restarting
    <3>2. ASSUME \A r \in Repairs : ~Repair(r) PROVE repairs' = repairs
      BY <1>2, <3>2 DEF Next, Handler, ConnectReturns, ConnectFails, StartOpening, BargeIn,
         AppendRaises, MediaCloses, Shutdown, ShutdownCloses, ShutdownJoins, ShutdownEnds, Callback,
         SpeechStarted, ProviderBreaks, InputEnds, AudioDelta, TurnCompleted, FinalizeTurn, Handoff,
         HumanAskedFor, HumanAskedForInTurn, TriggerHandoff, DuplicateHandoff, RequestHuman,
         HumanPromised, HumanRefused, Worker, TakeFrame, PrefillFrame, Prefilled, FrameSent,
         QueueCompleted, vars, repairVars
    <3> QED BY <3>1, <3>2
  <2> QED BY <2>1 DEF Alone
<1> QED BY <1>1, <1>2

\* No reader runs any more.
Dead == provider.link \in {"closed", "broken"}

\* A session that is not open has no callback and knows no turn.  The session
\* being used counts on from the turns begun.
SessionInv ==
  /\ handler = "connecting" =>
       /\ provider.link = "connecting"
       /\ \A r \in Repairs : repairs[r] = "idle"
  /\ \A r \in Repairs :
       /\ repairs[r] = "closing" => provider.link = "closed"
       /\ repairs[r] = "connecting" => provider.link = "connecting"
  /\ provider.link = "connecting" =>
       handler = "connecting" \/ \E r \in Repairs : repairs[r] = "connecting"
  /\ provider.link # "open" =>
       callback = NoCallback /\ provider.open = {} /\ provider.reply = NoTurn
  /\ provider.reply \in provider.open \cup {NoTurn}
  /\ \A t \in provider.open : t <= provider.issued
  /\ ~Dead => \A t \in begun : t <= provider.issued

\* A callback at the end of a turn is about the turn being answered.
SuggestingInv ==
  callback.at = "suggesting" =>
    /\ callback.turn \in Turns \ asks
    /\ callback.turn = provider.reply
    /\ callback.status \in {"completed", "cancelled"}
    /\ callback.status = "completed" => provider.cut = FALSE

\* Nothing moves the session, its callback or the repairs.
LEMMA SessionFrame ==
  ASSUME SessionInv, UNCHANGED <<provider, callback, repairs, begun>>,
         \/ handler' = handler
         \/ handler # "connecting" /\ handler' # "connecting"
  PROVE  SessionInv'
BY DEF SessionInv, Dead

LEMMA SessionStep ==
  ASSUME CallType, Alone, SessionInv, [Next]_vars PROVE SessionInv'
<1> USE Names DEF Dead
<1>1. CASE ConnectReturns \/ ConnectFails
  BY <1>1, Sessions DEF ConnectReturns, ConnectFails, SessionInv, CallType, repairVars, turnVars
<1>2. CASE BargeIn
  BY <1>2 DEF BargeIn, StartRepair, SessionInv, CallType, callVars, aiVars, turnVars
<1>3. CASE StartOpening \/ AppendRaises \/ MediaCloses
  <2>1. /\ UNCHANGED <<provider, callback, repairs, begun>>
        /\ handler' = handler \/ (handler = "serving" /\ handler' = "closing")
    BY <1>3 DEF StartOpening, AppendRaises, MediaCloses, aiVars, repairVars, turnVars
  <2> QED BY <2>1, SessionFrame
<1>4. CASE Shutdown
  BY <1>4, CloseType DEF Shutdown, ShutdownCloses, ShutdownJoins, ShutdownEnds, SessionInv, CallType,
     aiVars, repairVars, turnVars
<1>5. CASE SpeechStarted
  <2>1. /\ provider.link = "open" /\ callback = NoCallback /\ UNCHANGED <<handler, callback>>
        /\ handler # "connecting"
    BY <1>5 DEF SpeechStarted, Reads, SessionInv, callVars
  <2>2. \A r \in Repairs : repairs'[r] \in {repairs[r], "created"}
    BY <1>5 DEF SpeechStarted, StartRepair, repairVars, CallType
  <2>3. provider.issued \in Nat /\ provider.open \in SUBSET Turns
    BY DEF CallType, Provider
  <2>4. LET t == provider.issued + 1
        IN /\ provider'.link = provider.link /\ provider'.open = provider.open \cup {t}
           /\ provider'.reply = provider.reply /\ provider'.issued = t
           /\ begun' = begun \cup {t}
    BY <1>5, SpeechType
  <2>5. /\ \A t \in provider'.open : t <= provider'.issued
        /\ \A t \in begun' : t <= provider'.issued
    <3>1. \A t \in Nat : t <= provider.issued => t <= provider.issued + 1
      BY <2>3
    <3>2. provider.issued + 1 <= provider.issued + 1
      BY <2>3
    <3>3. /\ \A t \in provider.open : t \in Nat /\ t <= provider.issued
          /\ \A t \in begun : t \in Nat /\ t <= provider.issued
      BY <2>1, <2>3 DEF SessionInv, CallType
    <3> QED BY <2>4, <3>1, <3>2, <3>3
  <2>6. provider'.reply \in provider'.open \cup {NoTurn}
    BY <2>4 DEF SessionInv
  <2> QED BY <2>1, <2>2, <2>4, <2>5, <2>6 DEF SessionInv
<1>16. CASE ProviderBreaks
  BY <1>16, Sessions DEF ProviderBreaks, Reads, SessionInv, CallType, callVars, repairVars, turnVars
<1>6. CASE InputEnds
  BY <1>6 DEF InputEnds, SessionInv, CallType, Provider, callVars, repairVars, turnVars
<1>7. CASE AudioDelta
  <2>1. provider.issued \in Nat /\ provider.open \in SUBSET Turns
    BY DEF CallType, Provider
  <2>2. PICK t \in Turns : Answered(t) /\ provider' = Answering(t)
    BY <1>7 DEF AudioDelta
  <2>3. t \in provider.open \/ t = provider.issued + 1
    BY <2>2, <2>1 DEF Answered, SessionInv
  <2>4. provider.link = "open" /\ callback = NoCallback /\ UNCHANGED <<handler, callback, repairs, begun>>
    BY <1>7 DEF AudioDelta, Reads, callVars, repairVars
  <2>5. /\ provider'.link = provider.link /\ provider'.reply = t
        /\ provider'.open = provider.open \cup {t}
        /\ provider'.issued = IF t > provider.issued THEN t ELSE provider.issued
    BY <2>2, AnsweringType
  <2>6. /\ \A u \in provider'.open : u <= provider'.issued
        /\ \A u \in begun' : u <= provider'.issued
    <3>1. \A u \in Nat : u <= provider.issued => u <= provider'.issued
      BY <2>1, <2>5
    <3>2. t <= provider'.issued
      BY <2>1, <2>5
    <3>3. /\ \A u \in provider.open : u \in Nat /\ u <= provider.issued
          /\ \A u \in begun : u \in Nat /\ u <= provider.issued
      BY <2>1, <2>4 DEF SessionInv, CallType
    <3> QED BY <2>4, <2>5, <3>1, <3>2, <3>3
  <2> QED BY <2>4, <2>5, <2>6 DEF SessionInv
<1>8. CASE TurnCompleted
  BY <1>8 DEF TurnCompleted, Reads, SessionInv, callVars, repairVars
<1>9. CASE FinalizeTurn \/ HumanRefused
  <2>1. UNCHANGED <<handler, repairs, begun>>
    BY <1>9 DEF FinalizeTurn, HumanRefused, callVars, repairVars, turnVars
  <2>2. CASE Returned
    BY <2>1, <2>2, ReturnedType DEF SessionInv, CallType
  <2>3. CASE ~Returned
    BY <1>9, <2>1, <2>3, SessionFrame DEF FinalizeTurn, HumanRefused
  <2> QED BY <2>2, <2>3
<1>10. CASE HumanAskedFor \/ HumanAskedForInTurn
  <2>1. /\ UNCHANGED <<handler, repairs, begun>> /\ provider.link = "open"
        /\ provider' = [provider EXCEPT !.cut = provider.reply # NoTurn]
    BY <1>10 DEF HumanAskedFor, HumanAskedForInTurn, TriggerHandoff, Reads
  <2>2. (provider.reply # NoTurn) \in BOOLEAN
    OBVIOUS
  <2> QED BY <2>1, <2>2, Sessions DEF SessionInv, CallType
<1>11. CASE DuplicateHandoff
  <2>1. /\ UNCHANGED <<handler, repairs, begun, callback>> /\ provider.link = "open"
        /\ provider'.link = "open" /\ provider'.reply = NoTurn /\ provider'.issued = provider.issued
        /\ provider'.open \subseteq provider.open
    BY <1>11 DEF DuplicateHandoff, Reads, CallType, Provider, callVars, repairVars
  <2> QED BY <2>1 DEF SessionInv
<1>12. CASE RequestHuman
  BY <1>12 DEF RequestHuman, Transitioning, NoCallback, SessionInv, callVars, repairVars, turnVars
<1>13. CASE HumanPromised
  <2>1. UNCHANGED <<handler, repairs, begun>>
    BY <1>13 DEF HumanPromised, callVars, repairVars, turnVars
  <2>2. CASE callback.at = "requesting"
    <3>1. provider' = ProviderClosed /\ callback' = NoCallback /\ provider.link = "open"
      BY <1>13, <2>2 DEF HumanPromised, SessionInv, NoCallback
    <3> QED BY <2>1, <3>1, Sessions DEF SessionInv, CallType
  <2>3. CASE callback.at # "requesting"
    BY <1>13, <2>1, <2>3, SessionFrame DEF HumanPromised
  <2> QED BY <2>2, <2>3
<1>14. ASSUME NEW r \in Repairs, Repair(r) PROVE SessionInv'
  <2>8. /\ handler' = handler /\ begun' = begun /\ repairs[r] # "idle"
    BY <1>14 DEF Repair, RepairClears, RepairCloses, RepairFindsNone, RepairReplaces, RepairConnects,
       RepairReplays, RepairGivesUp, RepairEnds, Goes, Restarting, callVars, turnVars
  <2>0. /\ handler' = handler /\ begun' = begun /\ repairs[r] # "idle" /\ handler # "connecting"
        /\ repairs[r] \in Busy => \A q \in Repairs : repairs[q] \in Busy => q = r
        /\ provider \in Provider /\ repairs \in [Repairs -> Places]
    BY <2>8 DEF SessionInv, Alone, CallType
  <2> USE DEF Busy, Restarting
  <2>6. ASSUME UNCHANGED <<provider, callback>>,
               \E p \in Places \ {"closing", "connecting"} : repairs' = [repairs EXCEPT ![r] = p],
               repairs[r] \notin {"closing", "connecting"}
        PROVE  SessionInv'
    <3>1. \A q \in Repairs : /\ repairs'[q] = "closing" <=> repairs[q] = "closing"
                             /\ repairs'[q] = "connecting" <=> repairs[q] = "connecting"
      BY <2>0, <2>6
    <3> QED BY <2>0, <2>6, <3>1 DEF SessionInv
  <2>1. CASE RepairClears(r) \/ RepairFindsNone(r) \/ RepairEnds(r) \/ RepairReplays(r)
    <3>1. /\ UNCHANGED <<provider, callback>>
          /\ \E p \in Places \ {"closing", "connecting"} : repairs' = [repairs EXCEPT ![r] = p]
          /\ repairs[r] \notin {"closing", "connecting"}
      BY <2>0, <2>1 DEF RepairClears, RepairFindsNone, RepairEnds, RepairReplays, Goes, aiVars, Places
    <3> QED BY <2>6, <3>1
  <2>2. CASE RepairCloses(r) /\ ~CloseRaises
    <3>1. /\ repairs[r] = "locking" /\ repairs' = [repairs EXCEPT ![r] = "closing"] /\ CloseProvider
          /\ provider.link # "broken"
      BY <2>0, <2>2 DEF RepairCloses, Goes, CloseRaises
    <3>2. \A q \in Repairs : /\ repairs[q] \notin {"closing", "connecting"}
                             /\ repairs'[q] # "connecting"
      BY <2>0, <3>1
    <3>3. provider.link # "connecting"
      BY <2>0, <3>2 DEF SessionInv
    <3>4. provider'.link = "closed" /\ callback' = NoCallback
      BY <2>0, <3>1, <3>3, CloseType DEF Provider
    <3>5. provider'.open = {} /\ provider'.reply = NoTurn
      BY <3>1, <3>3, CloseType DEF SessionInv
    <3> QED BY <2>0, <3>2, <3>4, <3>5 DEF SessionInv
  <2>7. CASE RepairCloses(r) /\ CloseRaises
    <3>1. /\ UNCHANGED <<provider, callback>> /\ repairs' = [repairs EXCEPT ![r] = "breaking"]
          /\ repairs[r] = "locking"
      BY <2>7 DEF RepairCloses, Goes
    <3> QED BY <2>6, <3>1 DEF Places
  <2>3. CASE RepairReplaces(r)
    <3>1. /\ repairs[r] = "closing" /\ callback' = callback
          /\ repairs' = [repairs EXCEPT ![r] = "connecting"]
          /\ provider' = NewProvider(LastTurn)
      BY <2>0, <2>3 DEF RepairReplaces, Goes
    <3>2. LastTurn \in Nat /\ \A t \in begun : t <= LastTurn
      BY LastIsHighest DEF CallType
    <3>3. \A q \in Repairs : repairs'[q] # "closing" /\ (repairs'[q] = "connecting" => q = r)
      BY <2>0, <3>1
    <3> QED BY <2>0, <3>1, <3>2, <3>3, Sessions DEF SessionInv
  <2>4. CASE RepairConnects(r)
    <3>1. /\ repairs[r] = "connecting" /\ callback' = callback
          /\ repairs' = [repairs EXCEPT ![r] = "replaying"]
          /\ provider' = [provider EXCEPT !.link = "open"]
      BY <2>0, <2>4 DEF RepairConnects, Goes
    <3>2. \A q \in Repairs : repairs'[q] \notin {"closing", "connecting"}
      BY <2>0, <3>1
    <3> QED BY <2>0, <3>1, <3>2, Sessions DEF SessionInv
  <2>5. CASE RepairGivesUp(r)
    <3>1. /\ repairs' = [repairs EXCEPT ![r] = "breaking"] /\ callback' = callback
          /\ IF repairs[r] = "connecting" THEN provider' = ProviderClosed ELSE provider' = provider
      BY <2>0, <2>5 DEF RepairGivesUp
    <3>2. CASE repairs[r] \notin {"closing", "connecting"}
      BY <2>6, <3>1, <3>2 DEF Places
    <3>3. CASE repairs[r] \in {"closing", "connecting"}
      <4>1. \A q \in Repairs : repairs'[q] \notin {"closing", "connecting"}
        BY <2>0, <3>1, <3>3
      <4>2. repairs[r] = "closing" => provider.link = "closed"
        BY DEF SessionInv
      <4> QED BY <2>0, <3>1, <3>3, <4>1, <4>2, Sessions DEF SessionInv
    <3> QED BY <3>2, <3>3
  <2> QED BY <1>14, <2>1, <2>2, <2>3, <2>4, <2>5, <2>7 DEF Repair
<1>15. CASE Worker \/ QueueCompleted \/ UNCHANGED vars
  <2>1. UNCHANGED <<provider, callback, repairs, begun, handler>>
    BY <1>15 DEF Worker, TakeFrame, PrefillFrame, Prefilled, FrameSent, QueueCompleted, vars,
       callVars, aiVars, repairVars, turnVars
  <2> QED BY <2>1, SessionFrame
<1> QED BY <1>1, <1>2, <1>3, <1>4, <1>5, <1>6, <1>7, <1>8, <1>9, <1>10, <1>11, <1>12, <1>13,
  <1>14, <1>15, <1>16 DEF Next, Handler, Callback, Handoff

\* A callback that came to the end of a turn is about the turn being answered.
LEMMA SuggestingStep ==
  ASSUME CallType, SessionInv, SuggestingInv, [Next]_vars PROVE SuggestingInv'
<1> USE Names
<1>1. CASE TurnCompleted
  BY <1>1 DEF TurnCompleted, SuggestingInv, In, CallType, Provider, TurnsOrNone
<1>2. CASE callback' = NoCallback
  BY <1>2 DEF NoCallback, SuggestingInv
<1>3. CASE callback'.at # "suggesting"
  BY <1>3 DEF SuggestingInv
<1>4. CASE UNCHANGED <<provider, callback, asks>>
  BY <1>4 DEF SuggestingInv
<1>5. CASE Handler \/ Shutdown
  <2>1. handler = "connecting" => callback = NoCallback
    BY DEF SessionInv
  <2> QED BY <1>2, <1>4, <1>5, <2>1, CloseType DEF Handler, ConnectReturns, ConnectFails,
            StartOpening, BargeIn, AppendRaises, MediaCloses, Shutdown, ShutdownCloses,
            ShutdownJoins, ShutdownEnds, aiVars
<1>6. CASE \/ SpeechStarted \/ ProviderBreaks \/ InputEnds \/ AudioDelta \/ FinalizeTurn
           \/ DuplicateHandoff
  <2>1. callback' = NoCallback
    BY <1>6, ReturnedType DEF SpeechStarted, ProviderBreaks, InputEnds, AudioDelta, FinalizeTurn, DuplicateHandoff,
       Reads
  <2> QED BY <1>2, <2>1
<1>7. CASE HumanAskedFor \/ HumanAskedForInTurn
  <2>1. callback'.at = "transitioning"
    BY <1>7 DEF HumanAskedFor, HumanAskedForInTurn, TriggerHandoff, In
  <2> QED BY <1>3, <2>1
<1>8. CASE RequestHuman
  <2>1. callback'.at = "requesting"
    BY <1>8 DEF RequestHuman, CallType, Callbacks
  <2> QED BY <1>3, <2>1
<1>9. CASE HumanPromised \/ HumanRefused
  BY <1>9, <1>2, <1>4, ReturnedType DEF HumanPromised, HumanRefused
<1>10. ASSUME NEW r \in Repairs, Repair(r) PROVE SuggestingInv'
  <2>1. repairs[r] \in {"closing", "connecting"} => callback = NoCallback
    BY DEF SessionInv
  <2> QED BY <1>10, <1>2, <1>4, <2>1, CloseType DEF Repair, RepairClears, RepairCloses,
            RepairFindsNone, RepairReplaces, RepairConnects, RepairReplays, RepairGivesUp, RepairEnds, Goes, aiVars
<1>11. CASE Worker \/ QueueCompleted \/ UNCHANGED vars
  BY <1>11, <1>4 DEF Worker, TakeFrame, PrefillFrame, Prefilled, FrameSent, QueueCompleted, vars,
     aiVars
<1> QED BY <1>1, <1>5, <1>6, <1>7, <1>8, <1>9, <1>10, <1>11 DEF Next, Callback, Handoff

-----------------------------------------------------------------------------
(* Nothing of the model is heard once a human is on the way                *)

\* From the moment a human is asked for no answer plays and none is kept.
HumanInv ==
  requested \/ Transitioning => output \in {NoTurn, Opening} /\ buffers = {}

LEMMA HumanStep == ASSUME CallType, PlayType, HumanInv, [Next]_vars PROVE HumanInv'
<1> USE Names DEF Transitioning
<1>1. CASE StartOpening
  BY <1>1 DEF StartOpening, HumanInv, aiVars, handoffVars
<1>2. CASE AudioDelta
  <2>1. callback.at = "none" /\ UNCHANGED <<callback, requested>>
    BY <1>2 DEF AudioDelta, Reads, NoCallback, handoffVars
  <2>2. requested => UNCHANGED <<output, buffers>>
    BY <1>2 DEF AudioDelta, QueueAudio
  <2> QED BY <2>1, <2>2 DEF HumanInv
<1>3. CASE FinalizeTurn
  <2>1. callback'.at = "none" /\ UNCHANGED requested
    BY <1>3, ReturnedType DEF FinalizeTurn, NoCallback, handoffVars
  <2>2. requested => output' \in {NoTurn, Opening} /\ buffers' = {}
    BY <1>3 DEF FinalizeTurn, HumanInv
  <2> QED BY <2>1, <2>2 DEF HumanInv
<1>4. CASE HumanAskedFor \/ HumanAskedForInTurn
  BY <1>4 DEF HumanAskedFor, HumanAskedForInTurn, TriggerHandoff, StopPlayback, HumanInv
<1>5. CASE RequestHuman
  BY <1>5 DEF RequestHuman, HumanInv, turnVars, markVars
<1>6. CASE HumanRefused \/ HumanPromised
  BY <1>6, ReturnedType DEF HumanRefused, HumanPromised, HumanInv, NoCallback, turnVars, markVars
<1>7. ASSUME NEW r \in Repairs, RepairClears(r) PROVE HumanInv'
  BY <1>7 DEF RepairClears, StopPlayback, HumanInv
<1>8. CASE FrameSent \/ QueueCompleted
  BY <1>8 DEF FrameSent, QueueCompleted, CompleteIfReady, HumanInv, aiVars, handoffVars
<1>9. CASE /\ UNCHANGED <<requested, output, buffers>>
           /\ callback'.at = "transitioning" => callback.at = "transitioning"
  BY <1>9 DEF HumanInv
<1>10. CASE (Handler /\ ~StartOpening) \/ Shutdown
  BY <1>9, <1>10, CloseType DEF Handler, ConnectReturns, ConnectFails, BargeIn, AppendRaises,
     MediaCloses, Shutdown, ShutdownCloses, ShutdownJoins, ShutdownEnds, aiVars, handoffVars,
     turnVars, markVars, NoCallback
<1>11. CASE SpeechStarted \/ ProviderBreaks \/ InputEnds \/ TurnCompleted \/ DuplicateHandoff
  BY <1>9, <1>11 DEF SpeechStarted, ProviderBreaks, InputEnds, TurnCompleted, DuplicateHandoff, In, handoffVars,
     turnVars, markVars
<1>12. ASSUME NEW r \in Repairs, Repair(r), ~RepairClears(r) PROVE HumanInv'
  BY <1>9, <1>12, CloseType DEF Repair, RepairCloses, RepairFindsNone, RepairReplaces,
     RepairConnects, RepairReplays, RepairGivesUp, RepairEnds, aiVars, handoffVars, turnVars, markVars, NoCallback
<1>13. CASE TakeFrame \/ PrefillFrame \/ Prefilled \/ UNCHANGED vars
  BY <1>9, <1>13 DEF TakeFrame, PrefillFrame, Prefilled, vars, aiVars, handoffVars, turnVars,
     markVars
<1> QED BY <1>1, <1>2, <1>3, <1>4, <1>5, <1>6, <1>7, <1>8, <1>10, <1>11, <1>12, <1>13
        DEF Next, Callback, Handoff, Worker

\* What is sent is of the turn that plays.
LEMMA Sending ==
  ASSUME PlayType, [Next]_vars, worker'.at = "sending", worker' # worker
  PROVE  output \in Played
<1>1. worker \in Workers
  BY DEF PlayType
<1>2. CASE TakeFrame
  <2>1. Head(queue) \in prefilled /\ Head(queue) = output
    BY <1>1, <1>2 DEF TakeFrame, Workers
  <2>2. <<output>> \in Seq(Played) /\ SendNext(<<output>>, output, opening)
    BY <1>2, <2>1, Names DEF TakeFrame, PlayType, Played
  <2> QED BY <2>2, SendFacts
<1>3. CASE PrefillFrame
  BY <1>1, <1>3 DEF PrefillFrame, Collecting, Waiting, Workers
<1>4. CASE Prefilled
  BY <1>1, <1>4, SendFacts DEF Prefilled, Workers
<1>5. CASE FrameSent
  <2>1. Tail(worker.held) \in Seq(Played)
    BY <1>1, <1>5 DEF FrameSent, PlayType, Workers
  <2>2. PICK playsNow \in {output, NoTurn}, openingNow \in {opening, "over"} :
          SendNext(Tail(worker.held), playsNow, openingNow)
    BY <1>5 DEF FrameSent, OpeningAfter
  <2>3. playsNow \in Played
    BY <2>1, <2>2, SendFacts
  <2> QED BY <2>2, <2>3, Names DEF Played
<1>6. CASE ~Worker
  BY <1>6 DEF Next, Handler, ConnectReturns, ConnectFails, StartOpening, BargeIn, AppendRaises,
     MediaCloses, Shutdown, ShutdownCloses, ShutdownJoins, ShutdownEnds, Callback, SpeechStarted,
     ProviderBreaks, InputEnds, AudioDelta, TurnCompleted, FinalizeTurn, Handoff, HumanAskedFor,
     HumanAskedForInTurn, TriggerHandoff, DuplicateHandoff, RequestHuman, HumanPromised,
     HumanRefused, Repair, RepairClears, RepairCloses, RepairFindsNone, RepairReplaces,
     RepairConnects, RepairReplays, RepairGivesUp, RepairEnds, QueueCompleted, vars, playVars
<1> QED BY <1>2, <1>3, <1>4, <1>5, <1>6 DEF Worker

\* While a human is being asked for, or has been promised, no answer is sent.
NoAnswerSent == [][worker'.at = "sending" /\ worker' # worker => output = Opening \/ ~requested]_vars

\* Once a human is asked for, only an opening may still be heard, in whatever
\* order the worker, the repairs, the speech session and the requester run.
THEOREM NoAnswerOnceHuman == Spec => NoAnswerSent
<1>1. Init => CallType /\ PlayType /\ HumanInv
  BY InitTypeInv, Names DEF TypeInv, Init, HumanInv, Transitioning, NoCallback
<1>2. CallType /\ PlayType /\ HumanInv /\ [Next]_vars => CallType' /\ PlayType' /\ HumanInv'
  BY CallTypeStep, PlayTypeStep, HumanStep
<1>3. PlayType /\ HumanInv /\ [Next]_vars =>
        [worker'.at = "sending" /\ worker' # worker => output = Opening \/ ~requested]_vars
  BY Sending, Names DEF HumanInv, Played
<1> QED BY <1>1, <1>2, <1>3, PTL DEF Spec, NoAnswerSent

-----------------------------------------------------------------------------
(* The history and the audio that is kept                                  *)

\* A turn in the history cannot be completed again: it is closed, or asked for
\* a human, or the session is done with it and nothing of it is pending.
Settled(t) ==
  \/ t \in closed \cup asks
  \/ t \in begun /\ t \notin provider.open /\ <<t, "input">> \notin pending

HistoryInv ==
  /\ Once(committed)
  /\ asks \subseteq begun
  /\ \A t \in Turns : <<t, "input">> \in pending =>
       t \in begun /\ t \notin provider.open /\ t \notin asks
  /\ \A t \in TurnsIn(committed) : Settled(t)
  /\ output \notin closed

\* A repair has cleared the playback and goes on to restart the session.
Cleared == \E r \in Repairs : repairs[r] \in Restarting

\* Audio that is kept is of the turn that plays or is being answered, and of no
\* closed turn unless its end is known not to be played; what a repair about to
\* restart the session finds kept is of the turn that plays, and not ended.
BufferedInv ==
  /\ Cleared => \A t \in buffers : output = t /\ t \notin modelDone
  /\ Cleared /\ provider.link = "open" =>
       \A t \in modelDone : t \in Nat /\ t <= provider.issued /\ t \notin provider.open
  /\ \A t \in buffers :
       /\ output = t \/ provider.reply = t \/ Dead
       /\ t \in modelDone => provider.reply = t \/ Dead
       /\ t \in closed => Dead \/ (provider.reply = t /\ provider.cut = TRUE)

TalkInv ==
  /\ CallType /\ PlayType /\ BookType /\ AskedInv /\ Alone
  /\ SessionInv /\ SuggestingInv /\ HumanInv /\ HistoryInv /\ BufferedInv

\* What holds of every call, and of one that is not strained.
CallInv ==
  /\ CallType /\ PlayType /\ AskedInv /\ HumanInv
  /\ strained \/ TalkInv

\* The worker and FreeSWITCH complete a turn that is not in the history yet.
LEMMA CompleteFacts ==
  ASSUME PlayType, BookType, HistoryInv, NEW t \in Played, NEW stillPlaying, NEW played,
         CompleteIfReady(t, stillPlaying, played)
  PROVE  /\ pending' \subseteq pending
         /\ committed' \in Seq(Entries) /\ Once(committed')
         /\ \A u \in TurnsIn(committed') :
              \/ u \in TurnsIn(committed)
              \/ u = t /\ <<u, "input">> \in pending /\ <<u, "input">> \notin pending'
         /\ \/ output' = output /\ modelDone' = modelDone
            \/ output' = NoTurn /\ output = t /\ t \in modelDone /\ modelDone' = modelDone \ {t}
<1>1. CASE Over(t, stillPlaying, played)
  <2>1. /\ output = t /\ t \in modelDone /\ output' = NoTurn /\ modelDone' = modelDone \ {t}
        /\ pending' = Without(t, pending)
        /\ committed' = IF t # Opening /\ Parts(t, pending) = {"input", "output"}
                        THEN Append(committed, Committed(t, "completed")) ELSE committed
    BY <1>1 DEF CompleteIfReady, Over
  <2>2. pending' \subseteq pending /\ <<t, "input">> \notin pending'
    BY <2>1 DEF Without
  <2>3. CASE t # Opening /\ Parts(t, pending) = {"input", "output"}
    <3>1. <<t, "input">> \in pending /\ t \in Turns
      BY <2>3 DEF Parts, Played
    <3>2. ~IsCommitted(t, committed)
      <4>1. ~Settled(t)
        BY <3>1, <2>1 DEF HistoryInv, Settled
      <4> QED BY <4>1 DEF HistoryInv, IsCommitted, TurnsIn
    <3>3. /\ committed' \in Seq(Entries) /\ Once(committed')
          /\ TurnsIn(committed') = TurnsIn(committed) \cup {t}
      BY <2>1, <2>3, <3>1, <3>2, AppendOnce DEF BookType, HistoryInv
    <3> QED BY <2>1, <2>2, <3>1, <3>3
  <2>4. CASE ~(t # Opening /\ Parts(t, pending) = {"input", "output"})
    BY <2>1, <2>2, <2>4 DEF BookType, HistoryInv
  <2> QED BY <2>3, <2>4
<1>2. CASE ~Over(t, stillPlaying, played)
  BY <1>2 DEF CompleteIfReady, BookType, HistoryInv
<1> QED BY <1>1, <1>2

\* What of a step keeps the history.
LEMMA HistoryKept ==
  ASSUME HistoryInv, begun \subseteq begun', asks \subseteq asks', asks' \subseteq begun',
         closed \subseteq closed', pending' \subseteq pending,
         \A u \in begun : u \in provider'.open => u \in provider.open,
         \A u \in begun : u \in asks' => u \in asks \/ <<u, "input">> \notin pending',
         Once(committed'),
         \A u \in TurnsIn(committed') : u \in TurnsIn(committed) \/ Settled(u)',
         output' \notin closed'
  PROVE  HistoryInv'
<1>1. ASSUME NEW u \in TurnsIn(committed) PROVE Settled(u)'
  BY <1>1 DEF HistoryInv, Settled
<1>2. \A t \in Turns : <<t, "input">> \in pending' =>
        t \in begun' /\ t \notin provider'.open /\ t \notin asks'
  BY DEF HistoryInv
<1> QED BY <1>1, <1>2 DEF HistoryInv

\* A step that leaves the history alone, and what is played.
LEMMA HistoryFrame ==
  ASSUME HistoryInv, UNCHANGED <<asks, closed, pending, committed, begun, output>>,
         provider'.open \subseteq provider.open
  PROVE  HistoryInv'
<1>1. \A t \in TurnsIn(committed) : Settled(t)'
  BY DEF HistoryInv, Settled
<1> QED BY <1>1 DEF HistoryInv

\* A repair and a handoff give up the turn that plays.
LEMMA StopFacts ==
  ASSUME PlayType, BookType, NEW exchanges \in SUBSET pending,
         NEW history \in Seq(Entries), Once(history), StopPlayback(exchanges, history)
  PROVE  /\ BookType' /\ Once(committed') /\ closed \subseteq closed' /\ pending' \subseteq exchanges
         /\ \A u \in TurnsIn(committed') : u \in TurnsIn(history) \/ u \in closed'
         /\ output' = NoTurn /\ NoTurn \notin closed' /\ buffers' = {} /\ modelDone' = {}
<1>1. /\ Abandon(output, exchanges, texts, history)
      /\ output' = NoTurn /\ buffers' = {} /\ modelDone' = {}
  BY DEF StopPlayback
<1>2. output \in Played \cup {NoTurn} /\ exchanges \in SUBSET (Turns \X {"input", "output"})
  BY DEF PlayType, BookType
<1>3. /\ BookType' /\ Once(committed')
      /\ closed' = closed \cup ({output} \cap Turns)
      /\ pending' \subseteq exchanges
      /\ TurnsIn(committed') \subseteq TurnsIn(history) \cup ({output} \cap Turns)
  BY <1>1, <1>2, AbandonFacts
<1>4. NoTurn \notin closed'
  BY <1>3, Names DEF BookType
<1> QED BY <1>1, <1>3, <1>4

\* A turn is in the history once, and stays settled there.
LEMMA HistoryStep == ASSUME TalkInv, [Next]_vars PROVE BookType' /\ HistoryInv'
<1> USE Names
<1>0. /\ CallType /\ PlayType /\ BookType /\ SessionInv /\ SuggestingInv /\ HistoryInv
      /\ BufferedInv
  BY DEF TalkInv
<1> USE DEF Dead
<1>1. CASE /\ UNCHANGED <<asks, closed, pending, committed, begun, output>>
           /\ provider'.open \subseteq provider.open
  BY <1>0, <1>1, HistoryFrame DEF BookType
<1>2. CASE ConnectReturns \/ ConnectFails \/ BargeIn \/ AppendRaises \/ MediaCloses
  <2>1. provider'.open \subseteq provider.open
    BY <1>0, <1>2, Sessions DEF ConnectReturns, ConnectFails, BargeIn, AppendRaises, MediaCloses,
       CallType, aiVars
  <2> QED BY <1>1, <1>2, <2>1 DEF ConnectReturns, ConnectFails, BargeIn, AppendRaises, MediaCloses,
            aiVars, turnVars, bookVars
<1>3. CASE StartOpening
  <2>1. output' \notin closed' /\ UNCHANGED <<asks, closed, pending, committed, begun, provider>>
    BY <1>0, <1>3 DEF StartOpening, BookType, aiVars, bookVars
  <2> QED BY <1>0, <2>1, HistoryKept DEF BookType, HistoryInv
<1>4. CASE Shutdown
  <2>1. provider'.open \subseteq provider.open
    BY <1>0, <1>4, CloseType DEF Shutdown, ShutdownCloses, ShutdownJoins, ShutdownEnds, aiVars
  <2> QED BY <1>1, <1>4, <2>1 DEF Shutdown, ShutdownCloses, ShutdownJoins, ShutdownEnds, aiVars,
            turnVars, bookVars
<1>5. CASE SpeechStarted
  <2> DEFINE t == provider.issued + 1
  <2>1. /\ t \in Turns /\ provider'.open = provider.open \cup {t}
        /\ asks' = asks \ {t}
        /\ begun' = begun \cup {t} /\ provider.link = "open" /\ output' = output
    BY <1>0, <1>5, SpeechType DEF SpeechStarted, Reads
  <2>2. t \notin begun /\ t \notin asks
    <3>1. provider.issued \in Nat /\ begun \subseteq Nat /\ \A u \in begun : u <= provider.issued
      BY <1>0, <2>1 DEF CallType, Provider, SessionInv
    <3> QED BY <1>0, <3>1 DEF HistoryInv
  <2> HIDE DEF t
  <2>3. /\ BookType' /\ Once(committed') /\ closed \subseteq closed' /\ pending' \subseteq pending
        /\ output \notin closed'
        /\ \A u \in TurnsIn(committed') : u \in TurnsIn(committed) \/ u \in closed'
    <3>1. CASE UNCHANGED <<closed, pending, committed>>
      BY <1>0, <3>1 DEF BookType, HistoryInv
    <3>2. CASE Abandon(capture, pending, texts, committed) /\ capture # output
      <4>1. /\ capture \in Played \cup {NoTurn} /\ pending \in SUBSET (Turns \X {"input", "output"})
            /\ committed \in Seq(Entries) /\ Once(committed)
        BY <1>0 DEF CallType, TurnsOrNone, Played, BookType, HistoryInv
      <4>2. /\ BookType' /\ Once(committed')
            /\ closed' = closed \cup ({capture} \cap Turns)
            /\ pending' \subseteq pending
            /\ TurnsIn(committed') \subseteq TurnsIn(committed) \cup ({capture} \cap Turns)
        BY <1>0, <3>2, <4>1, AbandonFacts
      <4> QED BY <1>0, <3>2, <4>2 DEF HistoryInv
    <3> QED BY <1>5, <3>1, <3>2 DEF SpeechStarted
  <2>4. \A u \in TurnsIn(committed') : u \in TurnsIn(committed) \/ Settled(u)'
    BY <2>3 DEF Settled
  <2>5. asks \subseteq asks' /\ asks' \subseteq begun'
    BY <1>0, <2>1, <2>2 DEF HistoryInv
  <2> QED BY <1>0, <2>1, <2>2, <2>3, <2>4, <2>5, HistoryKept
<1>16. CASE ProviderBreaks
  <2>1. provider'.open \subseteq provider.open
    BY <1>0, <1>16, Sessions DEF ProviderBreaks, CallType
  <2> QED BY <1>1, <1>16, <2>1 DEF ProviderBreaks, turnVars, bookVars
<1>6. CASE InputEnds \/ TurnCompleted \/ RequestHuman
  <2>1. provider'.open \subseteq provider.open
    BY <1>0, <1>6 DEF InputEnds, TurnCompleted, RequestHuman, CallType, Provider
  <2> QED BY <1>1, <1>6, <2>1 DEF InputEnds, TurnCompleted, RequestHuman, turnVars, bookVars
<1>7. CASE AudioDelta
  <2>1. PICK t \in Turns :
          /\ Answered(t) /\ provider' = Answering(t)
          /\ IF provider.cut THEN UNCHANGED <<output, buffers, queue>> ELSE QueueAudio(t)
    BY <1>7 DEF AudioDelta
  <2>2. /\ UNCHANGED <<asks, begun, closed, pending, committed>> /\ provider.link = "open"
        /\ provider'.open = provider.open \cup {t}
    BY <1>0, <1>7, <2>1, AnsweringType DEF AudioDelta, Reads, bookVars
  <2>3. t \in provider.open \/ t \notin begun
    <3>1. provider.issued \in Nat /\ begun \subseteq Nat /\ \A u \in begun : u <= provider.issued
      BY <1>0, <2>2 DEF CallType, Provider, SessionInv
    <3>2. t \in provider.open \/ t = provider.issued + 1
      BY <1>0, <2>1 DEF Answered, SessionInv
    <3> QED BY <3>1, <3>2
  <2>4. output' \notin closed
    BY <1>0, <2>1 DEF QueueAudio, HistoryInv
  <2> QED BY <1>0, <2>2, <2>3, <2>4, HistoryKept DEF BookType, HistoryInv
<1>8. CASE FinalizeTurn
  <2> DEFINE t == callback.turn
  <2>1. /\ t \in Turns /\ t \notin asks /\ t = provider.reply /\ t \in provider.open
        /\ provider.link = "open" /\ UNCHANGED <<asks, begun>>
        /\ callback.status \in {"completed", "cancelled"}
        /\ callback.status = "completed" => provider.cut = FALSE
    BY <1>0, <1>8 DEF FinalizeTurn, SuggestingInv, SessionInv, NoCallback, turnVars
  <2>2. provider'.open = provider.open \ {t}
    BY <1>0, <1>8, <2>1, ReturnedType DEF FinalizeTurn
  <2>3. PICK said \in SUBSET {"input", "output"} :
          /\ "input" \in said => t \in begun
          /\ LET exchanges == pending \cup {<<t, part>> : part \in said}
             IN IF callback.status = "completed"
                  THEN pending' = exchanges /\ UNCHANGED <<closed, committed>>
                ELSE IF t \in closed THEN Abandon(t, exchanges, texts', committed)
                ELSE pending' = Without(t, exchanges) /\ UNCHANGED <<closed, committed>>
    BY <1>8 DEF FinalizeTurn
  <2> DEFINE exchanges == pending \cup {<<t, part>> : part \in said}
  <2>4. \/ output' \in {output, NoTurn}
        \/ output' = t /\ t \in buffers /\ callback.status = "completed"
    BY <1>8 DEF FinalizeTurn
  <2>5. output' \notin closed
    BY <1>0, <2>1, <2>4 DEF HistoryInv, BufferedInv, BookType
  <2>6. exchanges \in SUBSET (Turns \X {"input", "output"})
    <3>1. {<<t, part>> : part \in said} \subseteq Turns \X {"input", "output"}
      BY <2>1
    <3> QED BY <1>0, <3>1 DEF BookType
  <2>7. CASE callback.status = "completed"
    <3>1. pending' = exchanges /\ UNCHANGED <<closed, committed>>
      BY <2>3, <2>7
    <3>2. \A u \in Turns : <<u, "input">> \in pending' =>
            u \in begun /\ u \notin provider'.open /\ u \notin asks
      BY <1>0, <2>1, <2>2, <2>3, <3>1 DEF HistoryInv
    <3>3. ASSUME NEW u \in TurnsIn(committed) PROVE Settled(u)'
      <4>1. Settled(u)
        BY <1>0 DEF HistoryInv
      <4>2. CASE u = t
        BY <2>1, <3>1, <4>1, <4>2 DEF Settled
      <4>3. CASE u # t
        BY <2>1, <2>2, <3>1, <4>1, <4>3 DEF Settled
      <4> QED BY <4>2, <4>3
    <3> QED BY <1>0, <2>1, <2>5, <2>6, <3>1, <3>2, <3>3 DEF BookType, HistoryInv
  <2>8. CASE callback.status # "completed"
    <3>1. /\ BookType' /\ Once(committed') /\ closed' = closed /\ pending' \subseteq pending
          /\ TurnsIn(committed') \subseteq TurnsIn(committed) \cup closed
      <4>1. CASE t \in closed
        <5>1. /\ Abandon(t, exchanges, texts', committed)
              /\ t \in Played \cup {NoTurn} /\ committed \in Seq(Entries) /\ Once(committed)
          BY <1>0, <2>1, <2>3, <2>8, <4>1 DEF Played, BookType, HistoryInv
        <5>2. /\ BookType' /\ Once(committed') /\ closed' = closed \cup ({t} \cap Turns)
              /\ TurnsIn(committed') \subseteq TurnsIn(committed) \cup ({t} \cap Turns)
          BY <1>0, <2>6, <5>1, AbandonFacts
        <5>3. pending' = Without(t, exchanges)
          BY <2>1, <5>1 DEF Abandon
        <5>4. Without(t, exchanges) \subseteq pending
          BY DEF Without
        <5> QED BY <4>1, <5>2, <5>3, <5>4
      <4>2. CASE t \notin closed
        <5>1. pending' = Without(t, exchanges) /\ UNCHANGED <<closed, committed>>
          BY <2>3, <2>8, <4>2
        <5>2. Without(t, exchanges) \subseteq pending
          BY DEF Without
        <5> QED BY <1>0, <5>1, <5>2 DEF BookType, HistoryInv
      <4> QED BY <4>1, <4>2
    <3>2. \A u \in TurnsIn(committed') : u \in TurnsIn(committed) \/ Settled(u)'
      BY <3>1 DEF Settled
    <3>3. asks' \subseteq begun'
      BY <1>0, <2>1 DEF HistoryInv
    <3> QED BY <1>0, <2>1, <2>2, <2>5, <3>1, <3>2, <3>3, HistoryKept
  <2> QED BY <2>7, <2>8
<1>9. CASE HumanAskedFor \/ HumanAskedForInTurn
  <2>1. PICK t \in begun, status \in {"transcript", "completed"} : TriggerHandoff(t, status)
    BY <1>9 DEF HumanAskedFor, HumanAskedForInTurn
  <2>2. /\ t \in Turns /\ asks' = asks \cup {t} /\ begun' = begun
        /\ provider'.open = provider.open
        /\ StopPlayback(Without(t, pending), RequestCommitted(t))
    BY <1>0, <2>1 DEF TriggerHandoff, CallType, Provider
  <2>3. Without(t, pending) \in SUBSET pending
    BY DEF Without
  <2>4. /\ RequestCommitted(t) \in Seq(Entries) /\ Once(RequestCommitted(t))
        /\ TurnsIn(RequestCommitted(t)) \subseteq TurnsIn(committed) \cup {t}
    BY <1>0, <2>2, RequestFacts DEF HistoryInv
  <2>5. /\ BookType' /\ Once(committed') /\ closed \subseteq closed' /\ pending' \subseteq pending
        /\ \A u \in TurnsIn(committed') : u \in TurnsIn(RequestCommitted(t)) \/ u \in closed'
        /\ output' \notin closed' /\ <<t, "input">> \notin pending'
    <3>1. pending' \subseteq Without(t, pending)
      BY <1>0, <2>2, <2>3, <2>4, StopFacts
    <3>2. <<t, "input">> \notin pending' /\ pending' \subseteq pending
      BY <3>1 DEF Without
    <3> QED BY <1>0, <2>2, <2>3, <2>4, <3>2, StopFacts
  <2>6. \A u \in TurnsIn(committed') : u \in TurnsIn(committed) \/ Settled(u)'
    BY <2>1, <2>2, <2>4, <2>5 DEF Settled
  <2>7. asks' \subseteq begun'
    BY <1>0, <2>2 DEF HistoryInv
  <2> QED BY <1>0, <2>2, <2>5, <2>6, <2>7, HistoryKept
<1>10. CASE DuplicateHandoff
  <2> DEFINE t == provider.reply
  <2>1. /\ t \in begun /\ t \in Turns /\ asks' = asks \cup {t}
        /\ UNCHANGED <<begun, closed, output>>
        /\ provider'.open \subseteq provider.open /\ pending' = Without(t, pending)
        /\ committed' = RequestCommitted(t)
    BY <1>0, <1>10 DEF DuplicateHandoff, CallType, Provider
  <2>2. /\ RequestCommitted(t) \in Seq(Entries) /\ Once(RequestCommitted(t))
        /\ TurnsIn(RequestCommitted(t)) \subseteq TurnsIn(committed) \cup {t}
    BY <1>0, <2>1, RequestFacts DEF HistoryInv
  <2>3. pending' \subseteq pending /\ <<t, "input">> \notin pending'
    BY <2>1 DEF Without
  <2>4. BookType'
    BY <1>0, <2>1, <2>2, <2>3 DEF BookType
  <2>5. \A u \in TurnsIn(committed') : u \in TurnsIn(committed) \/ Settled(u)'
    BY <2>1, <2>2 DEF Settled
  <2>6. output' \notin closed' /\ asks' \subseteq begun'
    BY <1>0, <2>1 DEF HistoryInv
  <2> QED BY <1>0, <2>1, <2>2, <2>3, <2>4, <2>5, <2>6, HistoryKept
<1>11. CASE HumanPromised \/ HumanRefused
  <2>1. provider'.open \subseteq provider.open
    BY <1>0, <1>11, Sessions, ReturnedType DEF HumanPromised, HumanRefused, CallType
  <2> QED BY <1>1, <1>11, <2>1 DEF HumanPromised, HumanRefused, turnVars, bookVars
<1>12. ASSUME NEW r \in Repairs, RepairClears(r) PROVE BookType' /\ HistoryInv'
  <2>1. /\ UNCHANGED <<asks, begun, provider>> /\ StopPlayback(pending, committed)
        /\ pending \in SUBSET pending /\ committed \in Seq(Entries) /\ Once(committed)
    BY <1>0, <1>12 DEF RepairClears, aiVars, BookType, HistoryInv
  <2>2. /\ BookType' /\ Once(committed') /\ closed \subseteq closed' /\ pending' \subseteq pending
        /\ \A u \in TurnsIn(committed') : u \in TurnsIn(committed) \/ u \in closed'
        /\ output' \notin closed'
    BY <1>0, <2>1, StopFacts
  <2>3. \A u \in TurnsIn(committed') : u \in TurnsIn(committed) \/ Settled(u)'
    BY <2>2 DEF Settled
  <2>4. asks' \subseteq begun'
    BY <1>0, <2>1 DEF HistoryInv
  <2> QED BY <1>0, <2>1, <2>2, <2>3, <2>4, HistoryKept
<1>13. ASSUME NEW r \in Repairs, Repair(r), ~RepairClears(r) PROVE BookType' /\ HistoryInv'
  <2>1. provider'.open \subseteq provider.open
    <3>1. LastTurn \in Nat
      BY <1>0, LastIsHighest DEF CallType
    <3> QED BY <1>0, <1>13, <3>1, CloseType, Sessions DEF Repair, RepairCloses, RepairFindsNone,
              RepairReplaces, RepairConnects, RepairReplays, RepairGivesUp, RepairEnds, CallType, aiVars
  <2> QED BY <1>1, <1>13, <2>1 DEF Repair, RepairCloses, RepairFindsNone, RepairReplaces,
            RepairConnects, RepairReplays, RepairGivesUp, RepairEnds, aiVars, turnVars, bookVars
<1>14. CASE FrameSent \/ QueueCompleted
  <2>1. /\ UNCHANGED <<asks, begun, closed, provider>>
        /\ \/ \E t \in Played : \E stillPlaying, played : CompleteIfReady(t, stillPlaying, played)
           \/ UNCHANGED <<output, pending, committed>>
    <3>1. FrameSent => Head(worker.held) \in Played
      BY <1>0 DEF FrameSent, PlayType, Workers
    <3>2. output # NoTurn => output \in Played
      BY <1>0 DEF PlayType
    <3> QED BY <1>14, <3>1, <3>2 DEF FrameSent, QueueCompleted, aiVars
  <2>2. CASE UNCHANGED <<output, pending, committed>>
    BY <1>1, <2>1, <2>2
  <2>3. ASSUME NEW t \in Played, NEW stillPlaying, NEW played,
               CompleteIfReady(t, stillPlaying, played)
        PROVE  BookType' /\ HistoryInv'
    <3>1. /\ pending' \subseteq pending
          /\ committed' \in Seq(Entries) /\ Once(committed')
          /\ \A u \in TurnsIn(committed') :
               \/ u \in TurnsIn(committed)
               \/ u = t /\ <<u, "input">> \in pending /\ <<u, "input">> \notin pending'
          /\ output' \in {output, NoTurn}
      BY <1>0, <2>3, CompleteFacts
    <3>2. BookType'
      BY <1>0, <2>1, <3>1 DEF BookType
    <3>3. ASSUME NEW u \in TurnsIn(committed'), u \notin TurnsIn(committed) PROVE Settled(u)'
      <4>1. <<u, "input">> \in pending /\ <<u, "input">> \notin pending' /\ u \in Turns
        BY <1>0, <3>1, <3>3 DEF BookType
      <4> QED BY <1>0, <2>1, <4>1 DEF HistoryInv, Settled
    <3>4. output' \notin closed' /\ asks' \subseteq begun'
      BY <1>0, <2>1, <3>1 DEF HistoryInv, BookType
    <3> QED BY <1>0, <2>1, <3>1, <3>2, <3>3, <3>4, HistoryKept
  <2> QED BY <2>1, <2>2, <2>3
<1>15. CASE TakeFrame \/ PrefillFrame \/ Prefilled \/ UNCHANGED vars
  BY <1>1, <1>15 DEF TakeFrame, PrefillFrame, Prefilled, vars, aiVars, turnVars, bookVars
<1> QED BY <1>2, <1>3, <1>4, <1>5, <1>6, <1>7, <1>8, <1>9, <1>10, <1>11, <1>12, <1>13, <1>14,
  <1>15, <1>16 DEF Next, Handler, Callback, Handoff, Worker

\* Nothing that is kept, known of it, or said of the repairs and the session
\* changes, except that sessions close and repairs leave their places.
LEMMA BufferedFrame ==
  ASSUME BufferedInv, UNCHANGED <<output, closed, modelDone, buffers>>,
         Cleared' => Cleared,
         \/ Dead'
         \/ /\ provider'.link = provider.link /\ provider'.reply = provider.reply
            /\ provider'.cut = provider.cut /\ provider'.issued = provider.issued
            /\ provider'.open = provider.open
  PROVE  BufferedInv'
BY DEF BufferedInv, Dead

\* Nothing is kept.
LEMMA NothingKept ==
  ASSUME buffers' = {}, modelDone' = {} PROVE BufferedInv'
BY DEF BufferedInv

\* A session opens that knows no turn, and nobody is about to restart it.
LEMMA SessionOpens ==
  ASSUME PlayType, BufferedInv, SessionInv, provider.link = "connecting",
         UNCHANGED <<output, closed, modelDone, buffers>>, ~Cleared',
         provider'.reply = provider.reply
  PROVE  BufferedInv'
<1>1. provider.reply = NoTurn /\ NoTurn \notin buffers
  BY Names DEF SessionInv, PlayType
<1> QED BY <1>1 DEF BufferedInv, Dead

\* Whatever begins, waits and ends, the kept audio is of a turn that may play.
LEMMA BufferedStep ==
  ASSUME TalkInv, [Next]_vars, ~strained' PROVE BufferedInv'
<1> USE Names DEF Dead
<1>0. /\ CallType /\ PlayType /\ BookType /\ AskedInv /\ Alone /\ SessionInv /\ SuggestingInv /\ HumanInv
      /\ HistoryInv /\ BufferedInv
  BY DEF TalkInv
<1>a. /\ provider \in Provider /\ provider.issued \in Nat /\ provider.open \subseteq Turns
      /\ buffers \subseteq Turns /\ Turns \subseteq Nat
  BY <1>0 DEF CallType, Provider, PlayType
<1>1. CASE ConnectReturns
  <2>1. ~Cleared' /\ provider.link = "connecting"
    BY <1>0, <1>1 DEF ConnectReturns, SessionInv, Cleared, Restarting, repairVars
  <2>2. provider'.reply = provider.reply
    BY <1>a, <1>1, Sessions DEF ConnectReturns
  <2> QED BY <1>0, <1>1, <2>1, <2>2, SessionOpens DEF ConnectReturns, turnVars, markVars, bookVars
<1>2. CASE ConnectFails
  <2>1. provider'.link = "closed" /\ UNCHANGED repairs
    BY <1>2 DEF ConnectFails, ProviderClosed, repairVars
  <2> QED BY <1>0, <1>2, <2>1, BufferedFrame DEF ConnectFails, Cleared, turnVars, markVars, bookVars
<1>3. CASE StartOpening
  <2>1. /\ output = NoTurn /\ output' = Opening /\ modelDone' = modelDone \cup {Opening}
        /\ UNCHANGED <<provider, repairs, buffers, closed>>
    BY <1>3, Calm DEF StartOpening, aiVars, repairVars, bookVars
  <2>2. Cleared => buffers = {}
    BY <1>0, <2>1, <1>a DEF BufferedInv
  <2>3. Cleared' = Cleared
    BY <2>1 DEF Cleared
  <2>4. /\ Opening \in Nat /\ Opening <= provider.issued /\ Opening \notin provider.open
        /\ Opening \notin buffers
    BY <1>a DEF Opening
  <2>5. Cleared' /\ provider'.link = "open" =>
          \A t \in modelDone' : t \in Nat /\ t <= provider'.issued /\ t \notin provider'.open
    BY <1>0, <2>1, <2>3, <2>4 DEF BufferedInv
  <2>6. ASSUME NEW t \in buffers
        PROVE  /\ output' = t \/ provider.reply = t \/ Dead
               /\ t \in modelDone' => provider.reply = t \/ Dead
               /\ t \in closed =>
                    Dead \/ (provider.reply = t /\ provider.cut = TRUE)
    BY <1>0, <1>a, <2>1, <2>4, <2>6 DEF BufferedInv
  <2> QED BY <2>1, <2>2, <2>3, <2>5, <2>6 DEF BufferedInv
<1>4. CASE BargeIn \/ AppendRaises \/ MediaCloses
  <2>1. Cleared' => Cleared
    BY <1>0, <1>4 DEF BargeIn, StartRepair, AppendRaises, MediaCloses, Cleared, Restarting, CallType, repairVars
  <2> QED BY <1>0, <1>4, <2>1, BufferedFrame DEF BargeIn, AppendRaises, MediaCloses, aiVars,
            turnVars, markVars, bookVars
<1>5. CASE Shutdown
  <2>1. provider' = provider \/ Dead'
    BY <1>0, <1>5, CloseType DEF Shutdown, ShutdownCloses, ShutdownJoins, ShutdownEnds, aiVars
  <2>2. Cleared' => Cleared
    BY <1>5 DEF Shutdown, ShutdownCloses, ShutdownJoins, ShutdownEnds, Cleared, repairVars
  <2> QED BY <1>0, <1>5, <2>1, <2>2, BufferedFrame DEF Shutdown, ShutdownCloses, ShutdownJoins,
            ShutdownEnds, turnVars, markVars, bookVars
<1>6. CASE SpeechStarted
  <2> DEFINE t == provider.issued + 1
  <2>1. /\ provider.link = "open" /\ UNCHANGED <<output, buffers, modelDone>>
        /\ provider'.link = provider.link /\ provider'.open = provider.open \cup {t}
        /\ provider'.reply = provider.reply /\ provider'.issued = t
        /\ provider'.cut = (provider.reply # NoTurn)
    BY <1>0, <1>6, SpeechType DEF SpeechStarted, Reads, markVars
  <2>2. Cleared' => Cleared
    BY <1>0, <1>6 DEF SpeechStarted, StartRepair, Cleared, Restarting, CallType, repairVars
  <2>3. \A u \in closed' : u \in closed \/ u # output
    <3>1. \/ closed' = closed
          \/ Abandon(capture, pending, texts, committed) /\ capture # output
      BY <1>6 DEF SpeechStarted
    <3>2. Abandon(capture, pending, texts, committed) => closed' \subseteq closed \cup {capture}
      BY DEF Abandon
    <3> QED BY <3>1, <3>2
  <2>4. \A u \in buffers : u \in closed' => provider.reply = u
    BY <1>0, <2>1, <2>3 DEF BufferedInv
  <2>5. \A u \in Nat : u <= provider.issued => u <= t /\ u # t
    BY <1>a
  <2>6. Cleared' => \A u \in modelDone : u \in Nat /\ u <= t /\ u \notin provider'.open
    BY <1>0, <2>1, <2>2, <2>5 DEF BufferedInv
  <2>7. \A u \in buffers : u # NoTurn
    BY <1>a
  <2> HIDE DEF t
  <2>8. ASSUME NEW u \in buffers
        PROVE  /\ output' = u \/ provider'.reply = u \/ Dead'
               /\ u \in modelDone' => provider'.reply = u \/ Dead'
               /\ u \in closed' =>
                    Dead' \/ (provider'.reply = u /\ provider'.cut = TRUE)
    BY <1>0, <2>1, <2>4, <2>7, <2>8 DEF BufferedInv
  <2> QED BY <1>0, <2>1, <2>2, <2>6, <2>8 DEF BufferedInv
<1>18. CASE ProviderBreaks
  <2>1. Dead'
    BY <1>a, <1>18, Sessions DEF ProviderBreaks
  <2>2. Cleared' => Cleared
    BY <1>18 DEF ProviderBreaks, Cleared, repairVars
  <2> QED BY <1>0, <1>18, <2>1, <2>2, BufferedFrame DEF ProviderBreaks, turnVars, markVars, bookVars
<1>7. CASE InputEnds \/ TurnCompleted
  <2>1. /\ provider'.link = provider.link /\ provider'.reply = provider.reply
        /\ provider'.cut = provider.cut /\ provider'.issued = provider.issued
        /\ provider'.open = provider.open
    BY <1>a, <1>7 DEF InputEnds, TurnCompleted, Provider
  <2>2. Cleared' => Cleared
    BY <1>7 DEF InputEnds, TurnCompleted, Cleared, repairVars
  <2> QED BY <1>0, <1>7, <2>1, <2>2, BufferedFrame DEF InputEnds, TurnCompleted, turnVars, markVars,
            bookVars
<1>8. CASE AudioDelta
  <2>1. PICK t \in Turns :
          /\ Answered(t) /\ provider' = Answering(t)
          /\ IF provider.cut THEN UNCHANGED <<output, buffers, queue>> ELSE QueueAudio(t)
    BY <1>8 DEF AudioDelta
  <2>2. /\ provider.link = "open" /\ UNCHANGED <<modelDone, closed, repairs>>
        /\ provider'.link = provider.link /\ provider'.open = provider.open \cup {t}
        /\ provider'.reply = t /\ provider'.cut = provider.cut
        /\ provider'.issued = IF t > provider.issued THEN t ELSE provider.issued
    BY <1>0, <1>8, <2>1, AnsweringType DEF AudioDelta, Reads, repairVars, bookVars
  <2>3. Cleared' = Cleared
    BY <2>2 DEF Cleared
  <2>4. t \in Nat /\ (t \in provider.open \/ t = provider.issued + 1)
    BY <1>0, <1>a, <2>1 DEF Answered, SessionInv
  <2>5. Cleared => t \notin modelDone
    <3>1. ~(provider.issued + 1 <= provider.issued)
      BY <1>a
    <3> QED BY <1>0, <2>2, <2>4, <3>1 DEF BufferedInv
  <2>6. Cleared' /\ provider'.link = "open" =>
          \A u \in modelDone' : u \in Nat /\ u <= provider'.issued /\ u \notin provider'.open
    <3>1. \A u \in Nat : u <= provider.issued => u <= provider'.issued
      BY <1>a, <2>2, <2>4
    <3> QED BY <1>0, <2>2, <2>3, <2>5, <3>1 DEF BufferedInv
  <2>7. \A u \in buffers : output = u \/ u = t
    <3>1. ASSUME NEW u \in buffers, output # u PROVE u = t
      <4>1. provider.reply = u /\ u # NoTurn
        BY <1>0, <1>a, <2>2, <3>1 DEF BufferedInv
      <4> QED BY <2>1, <4>1, <1>0, <1>a DEF Answered, SessionInv
    <3> QED BY <3>1
  <2>8. CASE UNCHANGED <<output, buffers>>
    <3>1. ASSUME NEW u \in buffers, provider.reply = u PROVE u = t
      <4>1. u # NoTurn
        BY <1>a
      <4> QED BY <1>0, <1>a, <2>1, <3>1, <4>1 DEF Answered, SessionInv
    <3>2. ASSUME NEW u \in buffers
          PROVE  /\ output' = u \/ provider'.reply = u \/ Dead'
                 /\ u \in modelDone' => provider'.reply = u \/ Dead'
                 /\ u \in closed' =>
                      Dead' \/ (provider'.reply = u /\ provider'.cut = TRUE)
      BY <1>0, <2>2, <2>7, <2>8, <3>1 DEF BufferedInv
    <3>3. Cleared' => \A u \in buffers' : output' = u /\ u \notin modelDone'
      BY <1>0, <2>2, <2>3, <2>8 DEF BufferedInv
    <3> QED BY <2>6, <2>8, <3>2, <3>3 DEF BufferedInv
  <2>9. CASE /\ output' = t /\ buffers' = buffers \cup {t}
             /\ t \notin closed /\ output \in {NoTurn, t}
    <3>1. \A u \in buffers' : u = t
      BY <1>a, <2>7, <2>9
    <3> QED BY <2>2, <2>3, <2>5, <2>6, <2>9, <3>1 DEF BufferedInv
  <2> QED BY <2>1, <2>8, <2>9 DEF QueueAudio
<1>9. CASE FinalizeTurn
  <2> DEFINE t == callback.turn
  <2>1. /\ t \in Turns /\ t = provider.reply /\ t \in provider.open /\ provider.link = "open"
        /\ callback.status \in {"completed", "cancelled"}
        /\ UNCHANGED repairs /\ buffers' = buffers \ {t}
    BY <1>0, <1>9 DEF FinalizeTurn, SuggestingInv, SessionInv, NoCallback, repairVars
  <2>2. /\ provider'.link = provider.link /\ provider'.issued = provider.issued
        /\ provider'.open = provider.open \ {t}
    BY <1>0, <1>9, <2>1, ReturnedType DEF FinalizeTurn
  <2>3. closed' = closed
    <3>1. \/ closed' = closed
          \/ t \in closed /\ \E exchanges, outputs : Abandon(t, exchanges, outputs, committed)
      BY <1>9 DEF FinalizeTurn
    <3> QED BY <3>1 DEF Abandon
  <2>4. /\ modelDone' \subseteq modelDone \cup {t}
        /\ \/ output' = output
           \/ output \in {NoTurn, t} /\ output' \in {NoTurn, t}
    BY <1>9 DEF FinalizeTurn
  <2>5. \A u \in buffers' : u \in buffers /\ u # t /\ u # NoTurn
    BY <1>a, <2>1
  <2>6. \A u \in buffers' : output = u /\ u \notin modelDone /\ u \notin closed
    BY <1>0, <2>1, <2>5 DEF BufferedInv
  <2>7. \A u \in buffers' : output' = u /\ u \notin modelDone' /\ u \notin closed'
    BY <2>3, <2>4, <2>5, <2>6
  <2>8. t \in Nat /\ t <= provider.issued
    BY <1>0, <1>a, <2>1 DEF SessionInv
  <2>9. Cleared' => Cleared
    BY <2>1 DEF Cleared
  <2>10. Cleared' => \A u \in modelDone' : u \in Nat /\ u <= provider'.issued /\ u \notin provider'.open
    BY <1>0, <2>1, <2>2, <2>4, <2>8, <2>9 DEF BufferedInv
  <2> QED BY <2>7, <2>10 DEF BufferedInv
<1>10. CASE HumanAskedFor \/ HumanAskedForInTurn
  BY <1>10, NothingKept DEF HumanAskedFor, HumanAskedForInTurn, TriggerHandoff, StopPlayback
<1>11. CASE DuplicateHandoff
  <2>1. /\ buffers = {} /\ buffers' = {} /\ provider.link = "open" /\ UNCHANGED repairs
        /\ provider.reply \in provider.open /\ modelDone' = modelDone \cup {provider.reply}
        /\ provider' = [provider EXCEPT !.reply = NoTurn, !.cut = FALSE,
                                        !.open = @ \ {provider.reply}]
    BY <1>0, <1>11 DEF DuplicateHandoff, Reads, HumanInv, SessionInv, CallType, repairVars
  <2>2. provider'.issued = provider.issued /\ provider'.open = provider.open \ {provider.reply}
    BY <1>a, <2>1 DEF Provider
  <2>3. provider.reply \in Nat /\ provider.reply <= provider.issued
    BY <1>0, <1>a, <2>1 DEF SessionInv
  <2>4. Cleared' => Cleared
    BY <2>1 DEF Cleared
  <2>5. Cleared' => \A u \in modelDone' : u \in Nat /\ u <= provider'.issued /\ u \notin provider'.open
    BY <1>0, <2>1, <2>2, <2>3, <2>4 DEF BufferedInv
  <2> QED BY <2>1, <2>5 DEF BufferedInv
<1>12. CASE RequestHuman
  BY <1>0, <1>12, BufferedFrame DEF RequestHuman, Cleared, repairVars, turnVars, markVars, bookVars
<1>13. CASE HumanPromised
  <2>1. provider' = provider \/ Dead'
    BY <1>13, Sessions, <1>a DEF HumanPromised
  <2> QED BY <1>0, <1>13, <2>1, BufferedFrame DEF HumanPromised, Cleared, repairVars, turnVars,
            markVars, bookVars
<1>14. CASE HumanRefused
  <2>1. UNCHANGED <<output, closed, modelDone, buffers, repairs>>
    BY <1>14 DEF HumanRefused, repairVars, turnVars, markVars, bookVars
  <2>2. Cleared' => Cleared
    BY <2>1 DEF Cleared
  <2>3. CASE callback.at = "requesting"
    <3>1. buffers = {} /\ Returned
      BY <1>0, <1>14, <2>3 DEF HumanRefused, AskedInv, HumanInv
    <3>2. /\ provider'.link = provider.link /\ provider'.issued = provider.issued
          /\ provider'.open \subseteq provider.open
      BY <1>0, <3>1, ReturnedType
    <3> QED BY <1>0, <2>1, <2>2, <3>1, <3>2 DEF BufferedInv
  <2>4. CASE callback.at # "requesting"
    BY <1>0, <1>14, <2>1, <2>2, <2>4, BufferedFrame DEF HumanRefused
  <2> QED BY <2>3, <2>4
<1>15. ASSUME NEW r \in Repairs, Repair(r) PROVE BufferedInv'
  <2>0. /\ repairs[r] \in Restarting => \A q \in Repairs : repairs[q] \in Restarting => q = r
        /\ repairs \in [Repairs -> Places]
    BY <1>0 DEF Alone, Busy, CallType
  <2> USE DEF Restarting
  <2>1. CASE RepairClears(r)
    BY <2>1, NothingKept DEF RepairClears, StopPlayback
  <2>2. CASE RepairCloses(r)
    <3>1. provider' = provider \/ Dead'
      BY <1>0, <2>2, CloseType DEF RepairCloses
    <3>2. Cleared
      BY <2>2 DEF RepairCloses, Goes, Cleared
    <3> QED BY <1>0, <2>2, <3>1, <3>2, BufferedFrame DEF RepairCloses, turnVars, markVars, bookVars
  <2>3. CASE RepairFindsNone(r) \/ RepairEnds(r) \/ RepairReplays(r)
    <3>1. Cleared' => Cleared
      BY <2>0, <2>3 DEF RepairFindsNone, RepairEnds, RepairReplays, Goes, Cleared
    <3> QED BY <1>0, <2>3, <3>1, BufferedFrame DEF RepairFindsNone, RepairEnds, RepairReplays, aiVars,
              turnVars, markVars, bookVars
  <2>4. CASE RepairReplaces(r)
    <3>1. Cleared /\ provider'.link = "connecting"
      <4>1. LastTurn \in Nat
        BY <1>0, LastIsHighest DEF CallType
      <4> QED BY <1>a, <2>4, <4>1, Sessions DEF RepairReplaces, Goes, Cleared
    <3>2. UNCHANGED <<output, closed, modelDone, buffers>>
      BY <2>4 DEF RepairReplaces, markVars, bookVars
    <3>3. \A t \in buffers : output = t /\ t \notin modelDone /\ t \notin closed
      BY <1>0, <3>1 DEF BufferedInv, HistoryInv
    <3> QED BY <3>1, <3>2, <3>3 DEF BufferedInv
  <2>5. CASE RepairConnects(r)
    <3>1. provider.link = "connecting" /\ ~Cleared'
      BY <1>0, <2>0, <2>5 DEF RepairConnects, Goes, SessionInv, Cleared
    <3>2. provider'.reply = provider.reply
      BY <1>a, <2>5, Sessions DEF RepairConnects
    <3> QED BY <1>0, <2>5, <3>1, <3>2, SessionOpens DEF RepairConnects, turnVars, markVars, bookVars
  <2>6. CASE RepairGivesUp(r)
    <3>1. provider' = provider \/ Dead'
      BY <1>a, <2>6, Sessions DEF RepairGivesUp
    <3>2. Cleared' => Cleared
      BY <2>0, <2>6 DEF RepairGivesUp, Cleared
    <3> QED BY <1>0, <2>6, <3>1, <3>2, BufferedFrame DEF RepairGivesUp, turnVars, markVars, bookVars
  <2> QED BY <1>15, <2>1, <2>2, <2>3, <2>4, <2>5, <2>6 DEF Repair
<1>16. CASE FrameSent \/ QueueCompleted
  <2>1. /\ UNCHANGED <<closed, provider, buffers, repairs>>
        /\ \/ \E t \in Played : \E stillPlaying, played : CompleteIfReady(t, stillPlaying, played)
           \/ UNCHANGED <<output, modelDone>>
    <3>1. FrameSent => Head(worker.held) \in Played
      BY <1>0 DEF FrameSent, PlayType, Workers
    <3>2. output # NoTurn => output \in Played
      BY <1>0 DEF PlayType
    <3> QED BY <1>16, <3>1, <3>2 DEF FrameSent, QueueCompleted, aiVars, repairVars
  <2>2. Cleared' => Cleared
    BY <2>1 DEF Cleared
  <2>3. CASE UNCHANGED <<output, modelDone>>
    BY <1>0, <2>1, <2>2, <2>3, BufferedFrame
  <2>4. ASSUME NEW t \in Played, NEW stillPlaying, NEW played,
               CompleteIfReady(t, stillPlaying, played)
        PROVE  BufferedInv'
    <3>1. \/ output' = output /\ modelDone' = modelDone
          \/ output' = NoTurn /\ output = t /\ t \in modelDone /\ modelDone' = modelDone \ {t}
      BY <1>0, <2>4, CompleteFacts
    <3>2. CASE output' = NoTurn /\ output = t /\ t \in modelDone /\ modelDone' = modelDone \ {t}
      BY <1>0, <2>1, <2>2, <3>2 DEF BufferedInv
    <3> QED BY <2>1, <2>3, <3>1, <3>2
  <2> QED BY <2>1, <2>3, <2>4
<1>17. CASE TakeFrame \/ PrefillFrame \/ Prefilled \/ UNCHANGED vars
  BY <1>0, <1>17, BufferedFrame DEF TakeFrame, PrefillFrame, Prefilled, vars, Cleared, aiVars,
     repairVars, turnVars, markVars, bookVars
<1> QED BY <1>1, <1>2, <1>3, <1>4, <1>5, <1>6, <1>7, <1>8, <1>9, <1>10, <1>11, <1>12, <1>13,
  <1>14, <1>15, <1>16, <1>17, <1>18 DEF Next, Handler, Callback, Handoff, Worker

-----------------------------------------------------------------------------
(* What is heard and what is remembered                                    *)

LEMMA TalkInit == Init => CallInv
<1> SUFFICES ASSUME Init PROVE CallInv
  OBVIOUS
<1>1. CallType /\ PlayType /\ BookType
  BY InitTypeInv DEF TypeInv
<1>2. AskedInv /\ SuggestingInv /\ HumanInv
  BY DEF Init, AskedInv, SuggestingInv, HumanInv, NoCallback, Transitioning
<1>3. SessionInv /\ Alone
  BY DEF Init, SessionInv, NewProvider, ProviderClosed, Dead, Alone, Busy, Restarting
<1>4. HistoryInv
  BY Names DEF Init, HistoryInv, Once, TurnsIn
<1>5. BufferedInv
  BY DEF Init, BufferedInv, Cleared, Restarting
<1> QED BY <1>1, <1>2, <1>3, <1>4, <1>5 DEF CallInv, TalkInv

LEMMA TalkStep == ASSUME CallInv, [Next]_vars PROVE CallInv'
<1>1. CallType' /\ PlayType' /\ AskedInv' /\ HumanInv'
  BY CallTypeStep, PlayTypeStep, AskedStep, HumanStep DEF CallInv
<1>2. ASSUME ~strained' PROVE TalkInv'
  <2>1. TalkInv
    BY <1>2, Calm DEF CallInv
  <2>2. SessionInv' /\ SuggestingInv' /\ Alone'
    BY <1>2, <2>1, SessionStep, SuggestingStep, AloneStep DEF TalkInv
  <2>3. BookType' /\ HistoryInv' /\ BufferedInv'
    BY <1>2, <2>1, HistoryStep, BufferedStep
  <2> QED BY <1>1, <2>2, <2>3 DEF TalkInv
<1> QED BY <1>1, <1>2 DEF CallInv

\* A turn is in the history once, as long as no two repairs were to restart the
\* session at once and no opening began over an answer: whether the worker,
\* FreeSWITCH, a repair or a handoff put it there, and however often the
\* session was restarted, broke or was closed.
THEOREM RememberedOnce == Spec => []CommittedOnce
<1>1. CallInv /\ [Next]_vars => CallInv'
  BY TalkStep
<1>2. CallInv => CommittedOnce
  BY DEF CallInv, TalkInv, HistoryInv, Once, CommittedOnce
<1> QED BY TalkInit, <1>1, <1>2, PTL DEF Spec

\* Nothing of a turn that was given up is sent, with the same two exceptions;
\* and nothing of the model, with none, once a human is asked for.
THEOREM OnlyLiveSent == Spec => OnlyLiveAnswersSent
<1>1. CallInv /\ [Next]_vars => CallInv'
  BY TalkStep
<1>2. CallInv /\ [Next]_vars =>
        [worker'.at = "sending" /\ worker' # worker =>
           /\ output \notin closed \/ strained
           /\ output = Opening \/ ~requested]_vars
  BY Sending, Names DEF CallInv, TalkInv, HistoryInv, HumanInv, Played
<1> QED BY TalkInit, <1>1, <1>2, PTL DEF Spec, OnlyLiveAnswersSent
=============================================================================
