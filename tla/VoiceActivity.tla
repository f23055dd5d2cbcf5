---------------------------- MODULE VoiceActivity ----------------------------
(***************************************************************************)
(* EnergyVadTurnDetector (app/voice_activity.py), fed one frame at a time  *)
(* by the gateway.  A frame is abstracted to whether it is voiced, and the *)
(* thresholds are in frames, as __init__ converts them.                    *)
(***************************************************************************)
EXTENDS Naturals, Sequences, FiniteSets

CONSTANTS
  StartFrames, EndSilenceFrames, MinSpeechFrames, MaxUtteranceFrames,
  PreSpeechFrames, KeepSilenceFrames,
  None

VARIABLES
  active,
  startCounter, \* _start_counter
  silence,      \* _silence_frames
  speech,       \* _speech_frames
  buffer,       \* _buffer; its length is _total_frames
  preSpeech,    \* _pre_speech
  turn          \* the turn returned for the last frame

vars == <<active, startCounter, silence, speech, buffer, preSpeech, turn>>

Least(a, b) == IF a < b THEN a ELSE b
Ending(n, s) == SubSeq(s, Len(s) - Least(n, Len(s)) + 1, Len(s))

Init ==
  /\ active = FALSE
  /\ startCounter = 0 /\ silence = 0 /\ speech = 0
  /\ buffer = <<>> /\ preSpeech = <<>>
  /\ turn = None

\* reset
Reset ==
  /\ active' = FALSE
  /\ startCounter' = 0 /\ silence' = 0 /\ speech' = 0
  /\ buffer' = <<>> /\ preSpeech' = <<>>

Turn(frames, quiet, spoken) ==
  LET trimmed == IF quiet > KeepSilenceFrames THEN quiet - KeepSilenceFrames ELSE 0
  IN [frames |-> SubSeq(frames, 1, Len(frames) - trimmed), speech |-> spoken]

\* _process_idle_frame
IdleFrame(voiced) ==
  LET waiting == Ending(PreSpeechFrames, Append(preSpeech, voiced))
      counter == IF voiced THEN startCounter + 1 ELSE 0
      heard   == IF waiting = <<>> THEN <<voiced>> ELSE waiting
  IN /\ ~active
     /\ turn' = None
     /\ silence' = 0
     /\ IF counter < StartFrames
          THEN /\ startCounter' = counter
               /\ preSpeech' = waiting
               /\ UNCHANGED <<active, speech, buffer>>
          ELSE /\ active' = TRUE
               /\ startCounter' = counter
               /\ buffer' = heard
               /\ speech' = Least(counter, Len(heard))
               /\ preSpeech' = <<>>

\* Variant: speech does not end a pause.
SilenceSoFar(voiced) == IF voiced THEN silence ELSE silence + 1

Silence(voiced) == IF voiced THEN 0 ELSE silence + 1

\* _process_active_frame
ActiveFrame(voiced) ==
  LET frames == Append(buffer, voiced)
      spoken == IF voiced THEN speech + 1 ELSE speech
      quiet  == Silence(voiced)
      ended  == \/ Len(frames) >= MaxUtteranceFrames
                \/ spoken >= MinSpeechFrames /\ quiet >= EndSilenceFrames
  IN /\ active
     /\ IF ended THEN turn' = Turn(frames, quiet, spoken) /\ Reset
        ELSE /\ turn' = None
             /\ buffer' = frames /\ speech' = spoken /\ silence' = quiet
             /\ UNCHANGED <<active, startCounter, preSpeech>>

\* finish_if_active
FinishIfActive ==
  /\ turn' = IF active /\ speech >= MinSpeechFrames THEN Turn(buffer, silence, speech)
             ELSE None
  /\ Reset

Next == (\E voiced \in BOOLEAN : IdleFrame(voiced) \/ ActiveFrame(voiced)) \/ FinishIfActive

Spec == Init /\ [][Next]_vars

Voiced(frames) == Cardinality({i \in DOMAIN frames : frames[i]})
QuietEnd(frames) ==
  CHOOSE n \in 0..Len(frames) :
    /\ \A i \in 1..n : ~frames[Len(frames) - i + 1]
    /\ n < Len(frames) => frames[Len(frames) - n]

\* However speech and pauses alternate and however an utterance ends: cutting
\* off its silence loses none of its speech, no more than the silence to keep
\* stays behind the last voiced frame, and speech is counted only where it is.
CutOf(frames) ==
  turn' # None =>
    /\ Voiced(turn'.frames) = Voiced(frames)
    /\ QuietEnd(turn'.frames) <= KeepSilenceFrames
    /\ turn'.speech <= Voiced(turn'.frames)

SpeechIsKept ==
  [][/\ \A voiced \in BOOLEAN : ActiveFrame(voiced) => CutOf(Append(buffer, voiced))
     /\ FinishIfActive => CutOf(buffer)]_vars
=============================================================================
