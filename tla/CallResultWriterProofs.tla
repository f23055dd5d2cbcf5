----------------------- MODULE CallResultWriterProofs -----------------------
(***************************************************************************)
(* What CallResultWriter guarantees for any calls, payloads, queue size    *)
(* and number of attempts: which payloads are reported, what a reported    *)
(* success and an update that returned True say of the row, and that no    *)
(* row refers to a missing recording.                                      *)
(***************************************************************************)
EXTENDS CallResultWriter, TLAPS

Tasks == {"idle", "selecting", "executing", "lookup", "storing", "inserting",
          "marking", "publishing", "stopped"}
Producers == {"none", "waiting", "timed_out", "accepted", "refused"}
Updates == {"none", "scheduled", "committing", "orphaned", "committed", "noop",
            "true", "false"}

RowType == /\ row \in [Calls -> {"0", "1", "2", "3", "4", "none"}]
           /\ changed \in [Calls -> SUBSET (Payloads \cup Calls)]
           /\ update \in [Calls -> Updates]

QueueType == /\ producer \in [Payloads -> Producers]
             /\ ready \in Seq(Payloads) /\ queue \in Seq(Payloads)
             /\ outcome \in [Payloads -> {"none", "SUCCESS", "FAILED"}]

\* The task has a payload exactly while it works.
TaskType == /\ task \in Tasks
            /\ current \in Payloads \cup {Nothing}
            /\ task \in {"idle", "stopped"} <=> current = Nothing

UploadType == /\ mark \in [Calls -> Payloads \cup {Nothing}]
              /\ objects \subseteq Calls /\ ossRows \subseteq Payloads

TypeInv == RowType /\ QueueType /\ TaskType /\ UploadType

-----------------------------------------------------------------------------
(* Sequences as sets of payloads                                           *)

In(s, p) == \E i \in DOMAIN s : s[i] = p
Once(s) == \A i, j \in DOMAIN s : s[i] = s[j] => i = j

LEMMA AppendFacts ==
  ASSUME NEW S, NEW s \in Seq(S), NEW x \in S
  PROVE  /\ Append(s, x) \in Seq(S)
         /\ Len(Append(s, x)) = Len(s) + 1
         /\ \A p : In(Append(s, x), p) <=> In(s, p) \/ p = x
         /\ Once(s) /\ ~In(s, x) => Once(Append(s, x))
<1>1. /\ Append(s, x) \in Seq(S) /\ Len(Append(s, x)) = Len(s) + 1
      /\ Len(s) \in Nat
      /\ DOMAIN s = 1..Len(s) /\ DOMAIN Append(s, x) = 1..(Len(s) + 1)
      /\ \A i \in 1..Len(s) : Append(s, x)[i] = s[i]
      /\ Append(s, x)[Len(s) + 1] = x
  OBVIOUS
<1>2. ASSUME NEW p PROVE In(Append(s, x), p) <=> In(s, p) \/ p = x
  BY <1>1 DEF In
<1>3. ASSUME Once(s), ~In(s, x) PROVE Once(Append(s, x))
  BY <1>1, <1>3 DEF Once, In
<1> QED BY <1>1, <1>2, <1>3

LEMMA TailFacts ==
  ASSUME NEW S, NEW s \in Seq(S), s # <<>>
  PROVE  /\ Head(s) \in S /\ Tail(s) \in Seq(S)
         /\ Len(Tail(s)) = Len(s) - 1
         /\ In(s, Head(s))
         /\ \A p : In(Tail(s), p) => In(s, p)
         /\ Once(s) => Once(Tail(s)) /\ ~In(Tail(s), Head(s))
<1>1. /\ Head(s) = s[1] /\ Head(s) \in S /\ Tail(s) \in Seq(S)
      /\ Len(s) \in Nat \ {0} /\ Len(Tail(s)) = Len(s) - 1
      /\ DOMAIN s = 1..Len(s) /\ DOMAIN Tail(s) = 1..(Len(s) - 1)
      /\ \A i \in 1..(Len(s) - 1) : Tail(s)[i] = s[i + 1]
  OBVIOUS
<1>2. In(s, Head(s))
  BY <1>1 DEF In
<1>3. ASSUME NEW p, In(Tail(s), p) PROVE In(s, p)
  <2>1. PICK i \in 1..(Len(s) - 1) : Tail(s)[i] = p
    BY <1>1, <1>3 DEF In
  <2>2. i + 1 \in 1..Len(s) /\ s[i + 1] = p
    BY <1>1, <2>1
  <2> QED BY <1>1, <2>2 DEF In
<1>4. ASSUME Once(s) PROVE Once(Tail(s)) /\ ~In(Tail(s), Head(s))
  <2>1. \A i \in 1..(Len(s) - 1) : i + 1 \in 1..Len(s) /\ i + 1 # 1
    BY <1>1
  <2>2. Once(Tail(s))
    BY <1>1, <1>4, <2>1 DEF Once
  <2>3. ~In(Tail(s), Head(s))
    BY <1>1, <1>4, <2>1 DEF Once, In
  <2> QED BY <2>2, <2>3
<1> QED BY <1>1, <1>2, <1>3, <1>4

-----------------------------------------------------------------------------
(* Types                                                                   *)

LEMMA ExecuteType ==
  ASSUME RowType, NEW c \in Calls, NEW who \in Payloads \cup Calls,
         NEW to \in {"2", "3", "4"}, NEW from, Execute(c, who, to, from)
  PROVE  /\ row' \in [Calls -> {"0", "1", "2", "3", "4", "none"}]
         /\ changed' \in [Calls -> SUBSET (Payloads \cup Calls)]
BY DEF RowType, Execute, rowVars

LEMMA PutType ==
  ASSUME QueueType, NEW p \in Payloads, PutNowait(p)
  PROVE  producer' \in [Payloads -> Producers] /\ queue' \in Seq(Payloads)
<1>1. producer' \in [Payloads -> Producers]
  BY DEF QueueType, Producers, PutNowait
<1>2. queue' = Append(queue, p) \/ queue' = queue
  BY DEF PutNowait
<1> QED BY <1>1, <1>2, AppendFacts DEF QueueType

\* The task publishes the callback of its payload next.
LEMMA PublishType ==
  ASSUME TypeInv, current \in Payloads, NEW kind \in {"SUCCESS", "FAILED"},
         PublishNext(kind)
  PROVE  /\ TaskType'
         /\ outcome' \in [Payloads -> {"none", "SUCCESS", "FAILED"}]
BY NothingAssumption DEF TypeInv, QueueType, TaskType, Tasks, PublishNext

LEMMA GoToType ==
  ASSUME TypeInv, current \in Payloads,
         NEW place \in Tasks \ {"idle", "stopped"}, GoTo(place)
  PROVE  TaskType' /\ UNCHANGED outcome
BY NothingAssumption DEF TypeInv, TaskType, GoTo

\* While the task works it has a payload, of a call.
LEMMA Works ==
  ASSUME TypeInv, task \notin {"idle", "stopped"}
  PROVE  /\ current \in Payloads /\ Call \in Calls
         /\ KindOf[current] \in Kinds
         /\ NoopOutcome(current) \in {"SUCCESS", "FAILED"}
         /\ To(current) \in {"2", "4"}
BY CallOfAssumption, KindOfAssumption DEF TypeInv, TaskType, Call, NoopOutcome, To

LEMMA InitTypeInv == Init => TypeInv
<1> SUFFICES ASSUME Init PROVE TypeInv
  OBVIOUS
<1>1. RowType
  BY DEF Init, RowType, Updates
<1>2. QueueType
  BY DEF Init, QueueType, Producers
<1>3. TaskType /\ UploadType
  BY DEF Init, TaskType, Tasks, UploadType
<1> QED BY <1>1, <1>2, <1>3 DEF TypeInv

LEMMA EnqueueKeepsType ==
  ASSUME TypeInv, PutOnLoop \/ \E p \in Payloads : Enqueue(p)
  PROVE  TypeInv'
<1>1. UNCHANGED <<row, changed, update, task, current, outcome, mark, objects,
                  ossRows>>
  BY DEF PutOnLoop, Enqueue, EnqueueFromThread, EnqueueDirectly, EnqueueTimesOut,
     rowVars, taskVars, uploadVars
<1>2. QueueType'
  <2>1. ASSUME NEW p \in Payloads, EnqueueFromThread(p) PROVE QueueType'
    BY <1>1, <2>1, AppendFacts DEF EnqueueFromThread, TypeInv, QueueType, Producers
  <2>2. ASSUME NEW p \in Payloads, EnqueueDirectly(p) PROVE QueueType'
    BY <1>1, <2>2, PutType DEF EnqueueDirectly, TypeInv, QueueType
  <2>3. ASSUME NEW p \in Payloads, EnqueueTimesOut(p) PROVE QueueType'
    BY <1>1, <2>3 DEF EnqueueTimesOut, TypeInv, QueueType, Producers
  <2>4. CASE PutOnLoop
    <3>1. Head(ready) \in Payloads /\ Tail(ready) \in Seq(Payloads)
      BY <2>4, TailFacts DEF PutOnLoop, TypeInv, QueueType
    <3> QED BY <1>1, <2>4, <3>1, PutType DEF PutOnLoop, TypeInv, QueueType
  <2> QED BY <2>1, <2>2, <2>3, <2>4 DEF Enqueue
<1> QED BY <1>1, <1>2 DEF TypeInv, RowType, TaskType, UploadType

LEMMA UpdateKeepsType ==
  ASSUME TypeInv, NEW c \in Calls, Update(c)
  PROVE  TypeInv'
<1>1. UNCHANGED <<producer, ready, queue, task, current, outcome, mark, objects,
                  ossRows>>
  BY DEF Update, UpdateScheduled, UpdateSelects, UpdateCommits, UpdateReturns,
     UpdateTimesOut, queueVars, taskVars, uploadVars
<1>2. update' \in [Calls -> Updates]
  BY DEF Update, UpdateScheduled, UpdateSelects, UpdateCommits, UpdateReturns,
     UpdateTimesOut, SetUpdate, TypeInv, RowType, Updates
<1>3. /\ row' \in [Calls -> {"0", "1", "2", "3", "4", "none"}]
      /\ changed' \in [Calls -> SUBSET (Payloads \cup Calls)]
  <2>1. CASE UpdateCommits(c)
    BY <2>1, ExecuteType DEF UpdateCommits, TypeInv
  <2>2. CASE UNCHANGED rowVars
    BY <2>2 DEF rowVars, TypeInv, RowType
  <2> QED BY <2>1, <2>2 DEF Update, UpdateScheduled, UpdateSelects,
    UpdateReturns, UpdateTimesOut
<1> QED BY <1>1, <1>2, <1>3 DEF TypeInv, RowType, QueueType, TaskType, UploadType

LEMMA TaskKeepsType == ASSUME TypeInv, TaskStep PROVE TypeInv'
<1>1. UNCHANGED <<producer, ready, update>>
  BY DEF TaskStep, TakePayload, SelectRow, WriteRow, WriteRaises, LookUpMark,
     StoreObject, InsertOssRow, MarkRecording, UploadRaises, PublishAttempt,
     queueVars
<1>2. QueueType' /\ TaskType'
  <2>1. CASE TakePayload
    <3>1. Head(queue) \in Payloads /\ Tail(queue) \in Seq(Payloads)
      BY <2>1, TailFacts DEF TakePayload, TypeInv, QueueType
    <3> QED BY <1>1, <2>1, <3>1, NothingAssumption
      DEF TakePayload, TypeInv, QueueType, TaskType, Tasks
  <2>2. CASE PublishAttempt
    BY <1>1, <2>2 DEF PublishAttempt, queueVars, TypeInv, QueueType, TaskType, Tasks
  <2>3. CASE ~TakePayload /\ ~PublishAttempt
    <3>1. task \notin {"idle", "stopped"} /\ UNCHANGED queue
      BY <2>3 DEF TaskStep, SelectRow, WriteRow, WriteRaises, LookUpMark,
         StoreObject, InsertOssRow, MarkRecording, UploadRaises, queueVars
    <3>2. \/ \E kind \in {"SUCCESS", "FAILED"} : PublishNext(kind)
          \/ \E place \in Tasks \ {"idle", "stopped"} : GoTo(place)
      BY <2>3, <3>1, Works DEF TaskStep, SelectRow, WriteRow, WriteRaises,
         LookUpMark, StoreObject, InsertOssRow, MarkRecording, UploadRaises, Tasks
    <3> QED BY <1>1, <3>1, <3>2, Works, PublishType, GoToType DEF TypeInv, QueueType
  <2> QED BY <2>1, <2>2, <2>3
<1>3. RowType'
  <2>1. CASE WriteRow \/ WriteRaises
    <3>1. task \notin {"idle", "stopped"}
      BY <2>1 DEF WriteRow, WriteRaises
    <3>2. UNCHANGED rowVars \/ Execute(Call, current, To(current), From(current))
      BY <2>1 DEF WriteRow, WriteRaises
    <3> QED BY <1>1, <3>1, <3>2, Works, ExecuteType DEF TypeInv, RowType, rowVars
  <2>2. CASE UNCHANGED rowVars
    BY <1>1, <2>2 DEF rowVars, TypeInv, RowType
  <2> QED BY <2>1, <2>2 DEF TaskStep, TakePayload, SelectRow, LookUpMark,
    StoreObject, InsertOssRow, MarkRecording, UploadRaises, PublishAttempt
<1>4. UploadType'
  <2>1. CASE StoreObject \/ InsertOssRow \/ MarkRecording
    <3>1. current \in Payloads /\ Call \in Calls
      BY <2>1, Works DEF StoreObject, InsertOssRow, MarkRecording
    <3> QED BY <2>1, <3>1 DEF StoreObject, InsertOssRow, MarkRecording, TypeInv,
      UploadType
  <2>2. CASE UNCHANGED uploadVars
    BY <2>2 DEF uploadVars, TypeInv, UploadType
  <2> QED BY <2>1, <2>2 DEF TaskStep, TakePayload, SelectRow, WriteRow,
    WriteRaises, LookUpMark, UploadRaises, PublishAttempt
<1> QED BY <1>2, <1>3, <1>4 DEF TypeInv

LEMMA TypeInvStep == ASSUME TypeInv, [Next]_vars PROVE TypeInv'
<1>1. CASE Stop
  BY <1>1 DEF Stop, rowVars, uploadVars, queueVars, TypeInv, RowType, QueueType,
     TaskType, Tasks, UploadType
<1>2. CASE UNCHANGED vars
  BY <1>2 DEF vars, rowVars, uploadVars, queueVars, taskVars, TypeInv, RowType,
     QueueType, TaskType, UploadType
<1> QED BY <1>1, <1>2, EnqueueKeepsType, UpdateKeepsType, TaskKeepsType DEF Next

-----------------------------------------------------------------------------
(* Where a payload is                                                      *)

\* A payload is in one place at a time and its callback is chosen as the task
\* goes on to publish it; one that is new or refused is in none.
PlaceInv ==
  /\ Len(queue) <= Capacity
  /\ Once(ready) /\ Once(queue)
  /\ \A p \in Payloads :
       /\ producer[p] \in {"none", "refused"} =>
            ~In(ready, p) /\ ~In(queue, p) /\ current # p /\ outcome[p] = "none"
       /\ In(ready, p) => ~In(queue, p) /\ current # p /\ outcome[p] = "none"
       /\ In(queue, p) => current # p /\ outcome[p] = "none"
       /\ current = p => (task = "publishing" <=> outcome[p] # "none")

\* _put_nowait with a payload that is in no place: it is queued or refused.
LEMMA PutPlace ==
  ASSUME TypeInv, PlaceInv, NEW p \in Payloads, PutNowait(p),
         UNCHANGED <<task, current, outcome>>,
         ready' \in Seq(Payloads), Once(ready'), ~In(ready', p),
         \A q \in Payloads : In(ready', q) => In(ready, q),
         ~In(queue, p), current # p, outcome[p] = "none"
  PROVE  PlaceInv'
<1>0. queue \in Seq(Payloads) /\ producer \in [Payloads -> Producers]
  BY DEF TypeInv, QueueType
<1>1. /\ Once(queue') /\ Len(queue') <= Capacity
      /\ \A q \in Payloads \ {p} : In(queue', q) <=> In(queue, q)
      /\ In(queue', p) => Len(queue) < Capacity
  <2>1. CASE Len(queue) < Capacity
    <3>1. queue' = Append(queue, p)
      BY <2>1 DEF PutNowait
    <3>2. Len(queue') <= Capacity
      BY <1>0, <2>1, <3>1, AppendFacts, SizesAssumption
    <3> QED BY <1>0, <2>1, <3>1, <3>2, AppendFacts DEF PlaceInv
  <2>2. CASE ~(Len(queue) < Capacity)
    BY <2>2 DEF PutNowait, PlaceInv
  <2> QED BY <2>1, <2>2
<1>2. /\ \A q \in Payloads \ {p} : producer'[q] = producer[q]
      /\ Len(queue) < Capacity => producer'[p] \in {"timed_out", "accepted"}
  BY <1>0 DEF PutNowait
<1> QED BY <1>1, <1>2 DEF PlaceInv

LEMMA EnqueuePlace ==
  ASSUME TypeInv, PlaceInv, PutOnLoop \/ \E p \in Payloads : Enqueue(p)
  PROVE  PlaceInv'
<1>0. /\ ready \in Seq(Payloads) /\ producer \in [Payloads -> Producers]
      /\ UNCHANGED <<task, current, outcome>>
  BY DEF TypeInv, QueueType, PutOnLoop, Enqueue, EnqueueFromThread,
     EnqueueDirectly, EnqueueTimesOut, taskVars
<1>1. ASSUME NEW p \in Payloads, EnqueueFromThread(p) PROVE PlaceInv'
  <2>1. /\ producer[p] = "none" /\ producer'[p] = "waiting"
        /\ ready' = Append(ready, p) /\ UNCHANGED queue
        /\ \A q \in Payloads \ {p} : producer'[q] = producer[q]
    BY <1>0, <1>1 DEF EnqueueFromThread
  <2>2. /\ Once(ready')
        /\ \A q \in Payloads : In(ready', q) <=> In(ready, q) \/ q = p
    BY <1>0, <2>1, AppendFacts DEF PlaceInv
  <2> QED BY <1>0, <2>1, <2>2 DEF PlaceInv
<1>2. ASSUME NEW p \in Payloads, EnqueueDirectly(p) PROVE PlaceInv'
  <2>1. producer[p] = "none" /\ PutNowait(p) /\ UNCHANGED ready
    BY <1>2 DEF EnqueueDirectly
  <2>2. ~In(ready, p) /\ ~In(queue, p) /\ current # p /\ outcome[p] = "none"
    BY <2>1 DEF PlaceInv
  <2> QED BY <1>0, <2>1, <2>2, PutPlace DEF PlaceInv
<1>3. ASSUME NEW p \in Payloads, EnqueueTimesOut(p) PROVE PlaceInv'
  <2>1. /\ producer'[p] = "timed_out" /\ UNCHANGED <<ready, queue>>
        /\ \A q \in Payloads \ {p} : producer'[q] = producer[q]
    BY <1>0, <1>3 DEF EnqueueTimesOut
  <2> QED BY <1>0, <2>1 DEF PlaceInv
<1>4. CASE PutOnLoop
  <2> DEFINE p == Head(ready)
  <2>1. /\ p \in Payloads /\ In(ready, p)
        /\ ready' \in Seq(Payloads) /\ Once(ready') /\ ~In(ready', p)
        /\ \A q \in Payloads : In(ready', q) => In(ready, q)
    BY <1>0, <1>4, TailFacts DEF PutOnLoop, PlaceInv
  <2>2. PutNowait(p)
    BY <1>4 DEF PutOnLoop
  <2>3. ~In(queue, p) /\ current # p /\ outcome[p] = "none"
    BY <2>1 DEF PlaceInv
  <2> HIDE DEF p
  <2> QED BY <1>0, <2>1, <2>2, <2>3, PutPlace
<1> QED BY <1>1, <1>2, <1>3, <1>4 DEF Enqueue

LEMMA TaskPlace == ASSUME TypeInv, PlaceInv, TaskStep PROVE PlaceInv'
<1>0. /\ queue \in Seq(Payloads) /\ Nothing \notin Payloads
      /\ outcome \in [Payloads -> {"none", "SUCCESS", "FAILED"}]
  BY NothingAssumption DEF TypeInv, QueueType
<1>1. UNCHANGED <<producer, ready>>
  BY DEF TaskStep, TakePayload, SelectRow, WriteRow, WriteRaises, LookUpMark,
     StoreObject, InsertOssRow, MarkRecording, UploadRaises, PublishAttempt,
     queueVars
<1>2. CASE TakePayload
  <2>1. /\ Head(queue) \in Payloads /\ In(queue, Head(queue))
        /\ Len(queue') <= Capacity
        /\ Once(queue') /\ ~In(queue', Head(queue))
        /\ \A q : In(queue', q) => In(queue, q)
    <3>1. queue # <<>> /\ queue' = Tail(queue)
      BY <1>2 DEF TakePayload
    <3>2. Len(queue) \in Nat /\ Capacity \in Nat
      BY <1>0, SizesAssumption
    <3>3. Len(queue') <= Capacity
      BY <1>0, <3>1, <3>2, TailFacts DEF PlaceInv
    <3> QED BY <1>0, <3>1, <3>3, TailFacts DEF PlaceInv
  <2>2. current' = Head(queue) /\ task' = "selecting" /\ UNCHANGED outcome
    BY <1>2 DEF TakePayload
  <2> QED BY <1>1, <2>1, <2>2 DEF PlaceInv
<1>3. CASE PublishAttempt
  BY <1>0, <1>1, <1>3 DEF PublishAttempt, queueVars, PlaceInv
<1>4. CASE ~TakePayload /\ ~PublishAttempt
  <2>1. task \notin {"idle", "stopped", "publishing"} /\ UNCHANGED <<queue, current>>
    BY <1>4 DEF TaskStep, SelectRow, WriteRow, WriteRaises, LookUpMark,
       StoreObject, InsertOssRow, MarkRecording, UploadRaises, queueVars,
       PublishNext, GoTo
  <2>2. current \in Payloads /\ NoopOutcome(current) \in {"SUCCESS", "FAILED"}
    BY <2>1, Works
  <2>3. outcome[current] = "none"
    BY <2>1, <2>2 DEF PlaceInv
  <2>4. \/ \E kind \in {"SUCCESS", "FAILED"} : PublishNext(kind)
        \/ \E place \in Tasks \ {"publishing"} : GoTo(place)
    BY <1>4, <2>2 DEF TaskStep, SelectRow, WriteRow, WriteRaises, LookUpMark,
       StoreObject, InsertOssRow, MarkRecording, UploadRaises, Tasks
  <2>5. /\ task' = "publishing" <=> outcome'[current] # "none"
        /\ \A q \in Payloads \ {current} : outcome'[q] = outcome[q]
    BY <1>0, <2>2, <2>3, <2>4 DEF PublishNext, GoTo
  <2> QED BY <1>1, <2>1, <2>5 DEF PlaceInv
<1> QED BY <1>2, <1>3, <1>4

LEMMA PlaceStep == ASSUME TypeInv, PlaceInv, [Next]_vars PROVE PlaceInv'
<1>1. CASE Stop
  BY <1>1, NothingAssumption DEF Stop, queueVars, PlaceInv
<1>2. CASE UNCHANGED vars
  BY <1>2 DEF vars, queueVars, taskVars, PlaceInv
<1>3. ASSUME NEW c \in Calls, Update(c) PROVE PlaceInv'
  BY <1>3 DEF Update, UpdateScheduled, UpdateSelects, UpdateCommits,
     UpdateReturns, UpdateTimesOut, queueVars, taskVars, PlaceInv
<1> QED BY <1>1, <1>2, <1>3, EnqueuePlace, TaskPlace DEF Next

LEMMA InitPlace == Init => PlaceInv
BY SizesAssumption, NothingAssumption DEF Init, PlaceInv, Once, In

\* The attempts of the callback that is being published, and what the flow
\* engine has received of the others.
ReceivedInv ==
  /\ attempt \in Nat /\ attempt < MaxAttempts
  /\ task # "publishing" => attempt = 0
  /\ received \in [Payloads -> Nat]
  /\ \A p \in Payloads :
       /\ received[p] <= MaxAttempts
       /\ outcome[p] = "none" => received[p] = 0
       /\ current = p /\ task = "publishing" => received[p] <= attempt

LEMMA ReceivedStep ==
  ASSUME TypeInv, PlaceInv, ReceivedInv, [Next]_vars
  PROVE  ReceivedInv'
<1>0. /\ outcome \in [Payloads -> {"none", "SUCCESS", "FAILED"}]
      /\ MaxAttempts \in Nat \ {0} /\ Nothing \notin Payloads
  BY SizesAssumption, NothingAssumption DEF TypeInv, QueueType
<1>1. CASE UNCHANGED taskVars
  BY <1>1 DEF taskVars, ReceivedInv
<1>2. CASE TakePayload
  BY <1>2 DEF TakePayload, ReceivedInv
<1>3. CASE PublishAttempt
  <2>1. /\ task = "publishing" /\ current \in Payloads /\ UNCHANGED outcome
        /\ attempt \in Nat /\ received[current] \in Nat
        /\ received[current] <= attempt
    BY <1>3, Works DEF PublishAttempt, ReceivedInv
  <2>2. /\ received' \in [Payloads -> Nat]
        /\ \A q \in Payloads \ {current} : received'[q] = received[q]
        /\ received'[current] <= attempt + 1
    BY <1>3, <2>1 DEF PublishAttempt, ReceivedInv
  <2>3. \/ /\ attempt + 1 < MaxAttempts /\ attempt' = attempt + 1
           /\ task' = task /\ current' = current
        \/ task' = "idle" /\ current' = Nothing /\ attempt' = 0
    BY <1>3 DEF PublishAttempt
  <2>4. outcome[current] # "none"
    BY <1>3, <2>1 DEF PlaceInv
  <2> QED BY <1>0, <2>1, <2>2, <2>3, <2>4 DEF ReceivedInv
<1>4. CASE TaskStep /\ ~TakePayload /\ ~PublishAttempt
  <2>1. /\ task \notin {"idle", "stopped", "publishing"}
        /\ UNCHANGED <<current, attempt, received>>
    BY <1>4 DEF TaskStep, SelectRow, WriteRow, WriteRaises, LookUpMark,
       StoreObject, InsertOssRow, MarkRecording, UploadRaises, PublishNext, GoTo
  <2>2. /\ \A q \in Payloads \ {current} : outcome'[q] = outcome[q]
        /\ current \in Payloads => outcome[current] = "none"
    BY <1>0, <1>4, <2>1 DEF TaskStep, SelectRow, WriteRow, WriteRaises, LookUpMark,
       StoreObject, InsertOssRow, MarkRecording, UploadRaises, PublishNext, GoTo,
       PlaceInv
  <2> QED BY <2>1, <2>2 DEF ReceivedInv
<1>5. CASE Stop
  BY <1>0, <1>5 DEF Stop, Blocked, ReceivedInv
<1> QED BY <1>1, <1>2, <1>3, <1>4, <1>5 DEF Next, PutOnLoop, Enqueue,
  EnqueueFromThread, EnqueueDirectly, EnqueueTimesOut, Update, UpdateScheduled,
  UpdateSelects, UpdateCommits, UpdateReturns, UpdateTimesOut, vars

\* The flow engine receives the callback of a payload at most MaxAttempts
\* times, of one that the queue refused never, for any capacity and any callers:
\* a payload that is queued late is in no second place.
THEOREM EachReportedOnce == Spec => []ReportedOnce
<1>1. Init => ReceivedInv
  BY SizesAssumption, NothingAssumption DEF Init, ReceivedInv
<1>2. TypeInv /\ PlaceInv /\ ReceivedInv /\ [Next]_vars
        => TypeInv' /\ PlaceInv' /\ ReceivedInv'
  BY TypeInvStep, PlaceStep, ReceivedStep
<1>3. PlaceInv /\ ReceivedInv => ReportedOnce
  BY DEF PlaceInv, ReceivedInv, ReportedOnce
<1> QED BY InitTypeInv, InitPlace, <1>1, <1>2, <1>3, PTL DEF Spec

\* The callback of a payload is chosen once: while the task still decides it
\* has none, and a payload that has one is nowhere to be taken from again.
THEOREM OutcomeIsStable == Spec => OutcomeStable
<1>1. ASSUME TypeInv, PlaceInv, [Next]_vars, NEW p \in Payloads,
             outcome[p] # "none"
      PROVE  outcome'[p] = outcome[p]
  <2>1. CASE UNCHANGED outcome
    BY <2>1
  <2>2. CASE ~UNCHANGED outcome
    <3>1. TaskStep /\ ~TakePayload /\ ~PublishAttempt
      BY <1>1, <2>2 DEF Next, Stop, PutOnLoop, Enqueue, EnqueueFromThread,
         EnqueueDirectly, EnqueueTimesOut, Update, UpdateScheduled,
         UpdateSelects, UpdateCommits, UpdateReturns, UpdateTimesOut,
         TakePayload, PublishAttempt, vars, taskVars
    <3>2. /\ task # "publishing"
          /\ \A q \in Payloads \ {current} : outcome'[q] = outcome[q]
      BY <1>1, <3>1 DEF TaskStep, SelectRow, WriteRow, WriteRaises, LookUpMark,
         StoreObject, InsertOssRow, MarkRecording, UploadRaises, PublishNext,
         GoTo, TypeInv, QueueType
    <3>3. current # p
      BY <1>1, <3>2 DEF PlaceInv
    <3> QED BY <1>1, <3>2, <3>3
  <2> QED BY <2>1, <2>2
<1>2. TypeInv /\ PlaceInv /\ [Next]_vars => TypeInv' /\ PlaceInv'
  BY TypeInvStep, PlaceStep
<1>3. TypeInv /\ PlaceInv /\ [Next]_vars
        => [\A p \in Payloads : outcome[p] # "none" => outcome'[p] = outcome[p]]_vars
  BY <1>1
<1> QED BY InitTypeInv, InitPlace, <1>2, <1>3, PTL DEF Spec, OutcomeStable

-----------------------------------------------------------------------------
(* What is known of a row                                                  *)

Open == {"0", "1"}
Uploading == {"lookup", "storing", "inserting", "marking"}

\* A row is written at most once, by whoever "changed" names: a thread that is
\* told so, or a payload whose transcript completed it.
RowInv == \A c \in Calls :
  /\ row[c] \in Open \cup {"none"} => changed[c] = {}
  /\ update[c] \in {"committed", "true"} =>
       row[c] \in {"2", "3"} /\ changed[c] = {c}

\* A transcript whose recording is being uploaded, or that is reported as a
\* success, completed its row.
SuccessInv ==
  /\ task \in Uploading => row[Call] = "4" /\ changed[Call] = {current}
  /\ SuccessIsWritten

LEMMA ExecuteRow ==
  ASSUME RowType, NEW c \in Calls, NEW who, NEW to,
         NEW from \in SUBSET Open, Execute(c, who, to, from)
  PROVE  /\ \A d \in Calls \ {c} : row'[d] = row[d] /\ changed'[d] = changed[d]
         /\ \/ /\ row[c] \in Open /\ row'[c] = to
               /\ changed'[c] = changed[c] \cup {who}
            \/ row[c] \notin from /\ row'[c] = row[c] /\ changed'[c] = changed[c]
BY DEF RowType, Execute, rowVars

\* The rows that are not open keep what is known of them.
LEMMA ExecuteClosed ==
  ASSUME RowType, RowInv, NEW c \in Calls, NEW who,
         NEW to \in {"2", "3", "4"}, NEW from \in SUBSET Open,
         Execute(c, who, to, from)
  PROVE  /\ \A d \in Calls : row[d] \notin Open =>
              row'[d] = row[d] /\ changed'[d] = changed[d]
         /\ \A d \in Calls : row'[d] \in Open \cup {"none"} => changed'[d] = {}
<1>1. \A d \in Calls : row[d] \notin Open =>
        row'[d] = row[d] /\ changed'[d] = changed[d]
  BY ExecuteRow
<1>2. ASSUME NEW d \in Calls, row'[d] \in Open \cup {"none"}
      PROVE  changed'[d] = {}
  <2>1. row'[d] = row[d] /\ changed'[d] = changed[d]
    BY <1>2, ExecuteRow DEF Open
  <2> QED BY <1>2, <2>1 DEF RowInv
<1> QED BY <1>1, <1>2

\* An open row is written, by "who" alone.
LEMMA ExecuteWrites ==
  ASSUME RowType, RowInv, NEW c \in Calls, NEW who, NEW to,
         NEW from \in SUBSET Open, Execute(c, who, to, from), row[c] \in from
  PROVE  row'[c] = to /\ changed'[c] = {who}
<1>1. row'[c] = to /\ changed'[c] = changed[c] \cup {who}
  BY DEF Execute, RowType
<1>2. changed[c] = {}
  BY DEF RowInv
<1> QED BY <1>1, <1>2

\* The update of a payload starts from an open row.
LEMMA FromOpen == \A p \in Payloads : From(p) \in SUBSET Open
BY DEF From, Open

LEMMA RowStep == ASSUME TypeInv, RowInv, [Next]_vars PROVE RowInv'
<1>0. RowType
  BY DEF TypeInv
<1>1. CASE UNCHANGED <<row, changed, update>>
  BY <1>1 DEF RowInv
<1>2. CASE WriteRow \/ WriteRaises
  <2>1. CASE UNCHANGED rowVars
    BY <1>2, <2>1 DEF WriteRow, WriteRaises, rowVars, RowInv
  <2>2. CASE Execute(Call, current, To(current), From(current))
    <3>1. /\ current \in Payloads /\ Call \in Calls /\ To(current) \in {"2", "3", "4"}
          /\ From(current) \in SUBSET Open
      BY <1>2, Works, FromOpen DEF WriteRow, WriteRaises
    <3>2. UNCHANGED update
      BY <1>2 DEF WriteRow, WriteRaises
    <3>3. /\ \A d \in Calls : row[d] \notin Open =>
               row'[d] = row[d] /\ changed'[d] = changed[d]
          /\ \A d \in Calls : row'[d] \in Open \cup {"none"} => changed'[d] = {}
      BY <1>0, <2>2, <3>1, ExecuteClosed
    <3> QED BY <3>2, <3>3 DEF RowInv, Open
  <2> QED BY <1>2, <2>1, <2>2 DEF WriteRow, WriteRaises
<1>3. ASSUME NEW c \in Calls, UpdateCommits(c) PROVE RowInv'
  <2>1. PICK to \in {"2", "3"} : Execute(c, c, to, Open)
    BY <1>3 DEF UpdateCommits, Open
  <2>2. /\ \A d \in Calls : row[d] \notin Open =>
             row'[d] = row[d] /\ changed'[d] = changed[d]
        /\ \A d \in Calls : row'[d] \in Open \cup {"none"} => changed'[d] = {}
    BY <1>0, <2>1, ExecuteClosed
  <2>3. row[c] \in Open => row'[c] = to /\ changed'[c] = {c}
    BY <1>0, <2>1, ExecuteWrites
  <2>4. /\ \A d \in Calls \ {c} : update'[d] = update[d]
        /\ update'[c] \in {"committed", "true"} => row[c] \in Open
    BY <1>0, <1>3 DEF UpdateCommits, SetUpdate, RowType, Open
  <2> QED BY <2>1, <2>2, <2>3, <2>4 DEF RowInv, Open
<1>4. ASSUME NEW c \in Calls, Update(c), ~UpdateCommits(c) PROVE RowInv'
  <2>1. UNCHANGED rowVars
    BY <1>4 DEF Update, UpdateScheduled, UpdateSelects, UpdateReturns,
       UpdateTimesOut
  <2>2. /\ \A d \in Calls \ {c} : update'[d] = update[d]
        /\ update'[c] \in {"committed", "true"} => update[c] = "committed"
    BY <1>0, <1>4 DEF Update, UpdateScheduled, UpdateSelects, UpdateReturns,
       UpdateTimesOut, SetUpdate, RowType
  <2> QED BY <2>1, <2>2 DEF RowInv, rowVars
<1> QED BY <1>1, <1>2, <1>3, <1>4 DEF Next, TaskStep, TakePayload, SelectRow,
  LookUpMark, StoreObject, InsertOssRow, MarkRecording, UploadRaises,
  PublishAttempt, Stop, PutOnLoop, Enqueue, EnqueueFromThread, EnqueueDirectly,
  EnqueueTimesOut, rowVars, vars

\* SUCCESS is chosen for a payload of the local scene, or after the row has
\* been completed.
LEMMA SuccessStep == ASSUME TypeInv, RowInv, SuccessInv, [Next]_vars PROVE SuccessInv'
<1>0. RowType /\ outcome \in [Payloads -> {"none", "SUCCESS", "FAILED"}]
  BY DEF TypeInv, QueueType
<1>1. \A d \in Calls : row[d] \notin Open =>
        row'[d] = row[d] /\ changed'[d] = changed[d]
  <2>1. CASE UNCHANGED rowVars
    BY <2>1 DEF rowVars
  <2>2. CASE WriteRow \/ WriteRaises
    <3>1. /\ current \in Payloads /\ Call \in Calls /\ To(current) \in {"2", "3", "4"}
          /\ From(current) \in SUBSET Open
      BY <2>2, Works, FromOpen DEF WriteRow, WriteRaises
    <3>2. UNCHANGED rowVars \/ Execute(Call, current, To(current), From(current))
      BY <2>2 DEF WriteRow, WriteRaises
    <3> QED BY <1>0, <2>1, <3>1, <3>2, ExecuteClosed
  <2>3. ASSUME NEW c \in Calls, UpdateCommits(c)
        PROVE  \A d \in Calls : row[d] \notin Open =>
                 row'[d] = row[d] /\ changed'[d] = changed[d]
    <3>1. PICK to \in {"2", "3"} : Execute(c, c, to, Open)
      BY <2>3 DEF UpdateCommits, Open
    <3> QED BY <1>0, <3>1, ExecuteClosed
  <2> QED BY <2>1, <2>2, <2>3 DEF Next, TaskStep, TakePayload, SelectRow,
    LookUpMark, StoreObject, InsertOssRow, MarkRecording, UploadRaises,
    PublishAttempt, Stop, PutOnLoop, Enqueue, EnqueueFromThread,
    EnqueueDirectly, EnqueueTimesOut, Update, UpdateScheduled, UpdateSelects,
    UpdateReturns, UpdateTimesOut, rowVars, vars
<1>2. task' \in Uploading => row'[Call'] = "4" /\ changed'[Call'] = {current'}
  <2>1. CASE UNCHANGED <<task, current>>
    <3>1. task \in Uploading => Call \in Calls
      BY Works DEF Uploading
    <3> QED BY <1>1, <2>1, <3>1 DEF SuccessInv, Open, Call
  <2>2. CASE TaskStep
    <3>1. CASE WriteRow
      <4>1. /\ current \in Payloads /\ Call \in Calls
            /\ To(current) \in {"2", "3", "4"} /\ From(current) \in SUBSET Open
        BY <3>1, Works, FromOpen DEF WriteRow
      <4>2. task' \in Uploading => /\ row[Call] \in From(current)
                                   /\ KindOf[current] = "completed"
        BY <3>1 DEF WriteRow, PublishNext, Uploading
      <4>3. row[Call] \in From(current) =>
              row'[Call] = To(current) /\ changed'[Call] = {current}
        BY <1>0, <3>1, <4>1, ExecuteWrites DEF WriteRow
      <4>4. current' = current
        BY <3>1 DEF WriteRow, PublishNext, GoTo
      <4> QED BY <4>2, <4>3, <4>4 DEF To, Call
    <3>2. CASE LookUpMark \/ StoreObject \/ InsertOssRow
      <4>1. task \in Uploading /\ current' = current
        BY <3>2 DEF LookUpMark, StoreObject, InsertOssRow, PublishNext, GoTo,
           Uploading
      <4>2. Call \in Calls
        BY <4>1, Works DEF Uploading
      <4> QED BY <1>1, <4>1, <4>2 DEF SuccessInv, Open, Call
    <3>3. CASE ~WriteRow /\ ~LookUpMark /\ ~StoreObject /\ ~InsertOssRow
      BY <2>1, <2>2, <3>3 DEF TaskStep, TakePayload, SelectRow, WriteRaises,
         MarkRecording, UploadRaises, PublishAttempt, PublishNext, GoTo, Uploading
    <3> QED BY <3>1, <3>2, <3>3
  <2>3. CASE Stop
    BY <2>3 DEF Stop, Uploading
  <2> QED BY <2>1, <2>2, <2>3 DEF Next, PutOnLoop, Enqueue, EnqueueFromThread,
    EnqueueDirectly, EnqueueTimesOut, Update, UpdateScheduled, UpdateSelects,
    UpdateCommits, UpdateReturns, UpdateTimesOut, taskVars, vars
<1>3. ASSUME NEW p \in Payloads, outcome'[p] = "SUCCESS", CallOf[p] \notin LocalCalls
      PROVE  row'[CallOf[p]] = "4" /\ changed'[CallOf[p]] = {p}
  <2>0. CallOf[p] \in Calls
    BY CallOfAssumption
  <2>1. CASE outcome[p] = "SUCCESS"
    BY <1>1, <1>3, <2>0, <2>1 DEF SuccessInv, SuccessIsWritten, Open
  <2>2. CASE outcome[p] # "SUCCESS"
    <3>1. /\ TaskStep /\ current = p
          /\ \/ task \in Uploading
             \/ NoopOutcome(p) = "SUCCESS"
      <4>1. TaskStep
        BY <1>3, <2>2 DEF Next, Stop, PutOnLoop, Enqueue, EnqueueFromThread,
           EnqueueDirectly, EnqueueTimesOut, Update, UpdateScheduled,
           UpdateSelects, UpdateCommits, UpdateReturns, UpdateTimesOut, vars,
           taskVars
      <4>2. \/ PublishNext("SUCCESS") /\ task \in Uploading
            \/ PublishNext(NoopOutcome(current))
        BY <1>0, <1>3, <2>2, <4>1 DEF TaskStep, TakePayload, SelectRow, WriteRow,
           WriteRaises, LookUpMark, StoreObject, InsertOssRow, MarkRecording,
           UploadRaises, PublishAttempt, PublishNext, GoTo, Uploading
      <4> QED BY <1>0, <1>3, <2>2, <4>1, <4>2 DEF PublishNext
    <3>2. task \in Uploading
      BY <1>3, <3>1 DEF NoopOutcome
    <3>3. row[CallOf[p]] = "4" /\ changed[CallOf[p]] = {p}
      BY <3>1, <3>2 DEF SuccessInv, Call
    <3> QED BY <1>1, <2>0, <3>3 DEF Open
  <2> QED BY <2>1, <2>2
<1> QED BY <1>2, <1>3 DEF SuccessInv, SuccessIsWritten

LEMMA InitRow == Init => RowInv /\ SuccessInv
BY DEF Init, RowInv, SuccessInv, SuccessIsWritten, Uploading

\* An update that returned True ended the row by its own statement, whatever
\* other threads and the task write and however many of them time out.
THEOREM TrueIsWritten == Spec => []TrueMeansWritten
<1>1. TypeInv /\ RowInv /\ [Next]_vars => TypeInv' /\ RowInv'
  BY TypeInvStep, RowStep
<1>2. RowInv => TrueMeansWritten
  BY DEF RowInv, TrueMeansWritten
<1> QED BY InitTypeInv, InitRow, <1>1, <1>2, PTL DEF Spec

\* A SUCCESS callback means that this result completed the row and that nobody
\* has changed it since.
THEOREM SuccessWritten == Spec => []SuccessIsWritten
<1>1. TypeInv /\ RowInv /\ SuccessInv /\ [Next]_vars
        => TypeInv' /\ RowInv' /\ SuccessInv'
  BY TypeInvStep, RowStep, SuccessStep
<1>2. SuccessInv => SuccessIsWritten
  BY DEF SuccessInv
<1> QED BY InitTypeInv, InitRow, <1>1, <1>2, PTL DEF Spec

-----------------------------------------------------------------------------
(* The recording                                                           *)

\* The upload goes object, sys_oss row, mark.
UploadInv ==
  /\ MarkHasRecording
  /\ task \in {"inserting", "marking"} => Call \in objects
  /\ task = "marking" => current \in ossRows

LEMMA UploadStep == ASSUME TypeInv, UploadInv, [Next]_vars PROVE UploadInv'
<1>1. CASE TaskStep
  <2>1. CASE StoreObject
    BY <2>1 DEF StoreObject, GoTo, UploadInv, MarkHasRecording, Call
  <2>2. CASE InsertOssRow
    BY <2>2 DEF InsertOssRow, GoTo, UploadInv, MarkHasRecording, Call
  <2>3. CASE MarkRecording
    <3>1. /\ current \in Payloads /\ Call \in Calls
          /\ Call \in objects /\ current \in ossRows
      BY <2>3, Works DEF MarkRecording, UploadInv
    <3>2. /\ UNCHANGED <<objects, ossRows>> /\ task' = "publishing"
          /\ mark' = mark \/ mark' = [mark EXCEPT ![Call] = current]
      BY <2>3 DEF MarkRecording, PublishNext
    <3>3. mark \in [Calls -> Payloads \cup {Nothing}]
      BY DEF TypeInv, UploadType
    <3> QED BY <3>1, <3>2, <3>3 DEF UploadInv, MarkHasRecording, Call
  <2>4. CASE ~StoreObject /\ ~InsertOssRow /\ ~MarkRecording
    <3>1. \/ UNCHANGED uploadVars /\ task' \notin {"inserting", "marking"}
          \/ UNCHANGED <<uploadVars, task, current>>
      BY <1>1, <2>4 DEF TaskStep, TakePayload, SelectRow, WriteRow, WriteRaises,
         LookUpMark, UploadRaises, PublishAttempt, PublishNext, GoTo
    <3> QED BY <3>1 DEF UploadInv, MarkHasRecording, uploadVars, Call
  <2> QED BY <2>1, <2>2, <2>3, <2>4
<1>2. CASE Stop
  BY <1>2 DEF Stop, uploadVars, UploadInv, MarkHasRecording
<1>3. CASE UNCHANGED <<uploadVars, task, current>>
  BY <1>3 DEF uploadVars, UploadInv, MarkHasRecording, Call
<1> QED BY <1>1, <1>2, <1>3 DEF Next, PutOnLoop, Enqueue, EnqueueFromThread,
  EnqueueDirectly, EnqueueTimesOut, Update, UpdateScheduled, UpdateSelects,
  UpdateCommits, UpdateReturns, UpdateTimesOut, taskVars, vars

\* A row that refers to a recording has its sys_oss row and its object: the
\* mark is the last step, and what raises before it leaves no mark.
THEOREM MarkedIsStored == Spec => []MarkHasRecording
<1>1. Init => UploadInv
  BY DEF Init, UploadInv, MarkHasRecording
<1>2. TypeInv /\ UploadInv /\ [Next]_vars => TypeInv' /\ UploadInv'
  BY TypeInvStep, UploadStep
<1>3. UploadInv => MarkHasRecording
  BY DEF UploadInv
<1> QED BY InitTypeInv, <1>1, <1>2, <1>3, PTL DEF Spec
=============================================================================
