---------------------------- MODULE PlayoutEngine ----------------------------
(***************************************************************************)
(* PlayoutEngine (app/playout_engine.py): the audio of responses becomes   *)
(* telephone frames in one queue, from which a sender drains while         *)
(* responses are finished, canceled and replaced in any order.  The        *)
(* model's audio comes in chunks of bytes, two to a sample, cut anywhere;  *)
(* each chunk is resampled on its own.                                     *)
(***************************************************************************)
EXTENDS Integers, Sequences, FiniteSets

CONSTANTS
  Responses,   \* pairs of turn_id and response_id
  SourceRate,  \* model_output_sample_rate
  TargetRate,  \* the telephone's sample_rate
  FrameUnits,  \* the telephone's samples in a frame
  TailFrames,  \* tail_silence_ms, in frames
  ChunkSizes,  \* the bytes a chunk may have
  MaxChunks,   \* bound on the chunks of a response
  None

VARIABLES
  queue,    \* _queue: the response and number of each frame
  pending,  \* _buffers: the odd byte of each response and its samples short of a frame
  active,   \* _active_key
  closed,   \* _closed_keys
  sequence, \* _sequence
  fed,      \* the bytes and chunks appended to each response
  ended,    \* finished or canceled, whichever came first
  drained   \* frames drained of each response

vars == <<queue, pending, active, closed, sequence, fed, ended, drained>>

\* resample_samples_mono: how many samples n become, rounded half to even.
Resampled(n) ==
  LET whole == (n * TargetRate) \div SourceRate
      rest  == 2 * ((n * TargetRate) % SourceRate)
  IN IF rest > SourceRate \/ (rest = SourceRate /\ whole % 2 = 1) THEN whole + 1 ELSE whole

EmptyBuffer == [odd |-> 0, units |-> 0]

\* _DownsampleFrameBuffer.push: the samples it has then, frames or not.
Pushed(buffer, bytes) == buffer.units + Resampled((buffer.odd + bytes) \div 2)

\* flush: an odd byte makes a sample, and the last frame is padded.
Flushed(buffer) == (buffer.units + Resampled(buffer.odd) + FrameUnits - 1) \div FrameUnits

Init ==
  /\ queue = <<>>
  /\ pending = [k \in Responses |-> None]
  /\ active = None
  /\ closed = {}
  /\ sequence = 0
  /\ fed = [k \in Responses |-> [bytes |-> 0, chunks |-> 0]]
  /\ ended = [k \in Responses |-> "no"]
  /\ drained = [k \in Responses |-> 0]

Frames(k, n) == [i \in 1..n |-> [key |-> k, sequence |-> sequence + i - 1]]
FramesOf(k) == {i \in DOMAIN queue : queue[i].key = k}
End(k, how) == ended' = [ended EXCEPT ![k] = IF @ = "no" THEN how ELSE @]

\* What stands at these places of the queue, in its order.
Only(places) ==
  [n \in 1..Cardinality(places) |->
     queue[CHOOSE i \in places : Cardinality({j \in places : j < i}) = n - 1]]
WithoutFramesOf(k) == Only(DOMAIN queue \ FramesOf(k))

\* Variant: the frames of a canceled response stay queued.
CancelQuietly(k) == queue

\* What cancel_response leaves in the queue.
Cancel(k) == WithoutFramesOf(k)

\* start_response; the response it replaces is canceled.
StartResponse(k) ==
  /\ k \notin closed
  /\ active # k
  /\ active' = k
  /\ IF active = None
       THEN /\ pending' = [pending EXCEPT ![k] = IF @ = None THEN EmptyBuffer ELSE @]
            /\ UNCHANGED <<queue, closed, ended>>
       ELSE /\ pending' = [pending EXCEPT ![active] = None,
                                          ![k] = IF @ = None THEN EmptyBuffer ELSE @]
            /\ queue' = Cancel(active)
            /\ closed' = closed \cup {active}
            /\ End(active, "canceled")
  /\ UNCHANGED <<sequence, fed, drained>>

\* append_audio, which starts a response if there is none.
AppendAudio(k, bytes) ==
  /\ fed[k].chunks < MaxChunks
  /\ k \notin closed /\ active \in {None, k}
  /\ LET buffer == IF pending[k] = None THEN EmptyBuffer ELSE pending[k]
         units  == Pushed(buffer, bytes)
         n      == units \div FrameUnits
     IN /\ queue' = queue \o Frames(k, n)
        /\ sequence' = sequence + n
        /\ pending' = [pending EXCEPT ![k] = [odd |-> (buffer.odd + bytes) % 2,
                                              units |-> units % FrameUnits]]
  /\ active' = k
  /\ fed' = [fed EXCEPT ![k] = [bytes |-> @.bytes + bytes, chunks |-> @.chunks + 1]]
  /\ UNCHANGED <<closed, ended, drained>>

\* finish_response: the rest is padded to a frame, and silence follows.
FinishResponse(k) ==
  /\ k \notin closed /\ active = k
  /\ LET n == Flushed(pending[k]) + TailFrames
     IN queue' = queue \o Frames(k, n) /\ sequence' = sequence + n
  /\ pending' = [pending EXCEPT ![k] = None]
  /\ closed' = closed \cup {k}
  /\ active' = None
  /\ End(k, "finished")
  /\ UNCHANGED <<fed, drained>>

\* cancel_response, of any response, and cancel_active.
CancelResponse(k) ==
  /\ queue' = Cancel(k)
  /\ pending' = [pending EXCEPT ![k] = None]
  /\ closed' = closed \cup {k}
  /\ active' = IF active = k THEN None ELSE active
  /\ ended' = [ended EXCEPT ![k] = "canceled"]
  /\ UNCHANGED <<sequence, fed, drained>>

\* drain_frames
DrainFrames(n) ==
  /\ n \in 1..Len(queue)
  /\ queue' = SubSeq(queue, n + 1, Len(queue))
  /\ drained' = [k \in Responses |-> drained[k] + Cardinality(FramesOf(k) \cap 1..n)]
  /\ UNCHANGED <<pending, active, closed, sequence, fed, ended>>

Next ==
  \/ \E k \in Responses :
       \/ StartResponse(k) \/ FinishResponse(k) \/ CancelResponse(k)
       \/ \E bytes \in ChunkSizes : AppendAudio(k, bytes)
  \/ \E n \in 1..2 : DrainFrames(n)

Spec == Init /\ [][Next]_vars

\* These frames hold what the model said, no more than half a sample of each
\* chunk and the last frame's padding away from it; everything is taken twice
\* and at both rates, to compare whole numbers.
HoldsAllOf(frames, said) ==
  LET rounding == SourceRate * (said.chunks + 1)
      spoken   == 2 * TargetRate * ((said.bytes + 1) \div 2)
      held(n)  == 2 * SourceRate * FrameUnits * n
  IN held(frames - 1) < spoken + rounding /\ spoken <= held(frames) + rounding

\* A canceled response is not heard any more, one that was finished is heard
\* whole, to the rounding of its chunks, and with its silence, and no two
\* responses are heard mixed.
PlayedWhole ==
  /\ \A k \in Responses :
       /\ ended[k] = "canceled" => FramesOf(k) = {}
       /\ ended[k] = "finished" =>
            HoldsAllOf(Cardinality(FramesOf(k)) + drained[k] - TailFrames, fed[k])
  /\ \A i, j \in DOMAIN queue : i < j =>
       /\ queue[i].sequence < queue[j].sequence
       /\ queue[i].key = queue[j].key =>
            \A m \in i..j : queue[m].key = queue[i].key
=============================================================================
