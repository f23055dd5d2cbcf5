------------------------------- MODULE Parts -------------------------------
(***************************************************************************)
(* The small components, which share no state: each is an instance of its  *)
(* own module, and in each behaviour one of them moves, so that one run    *)
(* checks them all and what is proved of the whole is proved of each.      *)
(***************************************************************************)
EXTENDS Integers, Sequences

CONSTANTS
  None,
  Requests, MaxFailures,                  \* EventSocket
  Sequences, Workers, Worker, MaxClock,   \* Snowflake
  Rooms, MaxProcesses,                    \* AgentProcesses
  Calls, TaskTypes, Analysts, MaxPosts,   \* PostCallResults
  Pollers, RoomOf, MaxEvents, PollLimit, OwnNumbers, MaxPosted, \* DebugEvents
  Downloads, Chunk, MaxSize,              \* RecordingFile
  StartFrames, EndSilenceFrames, MinSpeechFrames, MaxUtteranceFrames,
  PreSpeechFrames, KeepSilenceFrames,     \* VoiceActivity
  Responses, SourceRate, TargetRate, FrameUnits, TailFrames,
  ChunkSizes, MaxChunks,                  \* PlayoutEngine
  Jobs, MaxQueries                        \* HandoffTranscript

\* The widths of an id are positive, and the worker number is a natural.
ASSUME SnowflakeAssumption ==
  /\ Sequences \in Nat \ {0} /\ Workers \in Nat \ {0}
  /\ Worker \in Nat /\ MaxClock \in Nat

\* Bytes are read in chunks that are not empty.
ASSUME RecordingAssumption == Chunk \in Nat \ {0} /\ MaxSize \in Nat

\* __init__ makes a frame at least of what must be heard before it acts.
ASSUME VoiceAssumption ==
  /\ StartFrames \in Nat \ {0} /\ EndSilenceFrames \in Nat \ {0}
  /\ MinSpeechFrames \in Nat \ {0} /\ MaxUtteranceFrames \in Nat \ {0}
  /\ PreSpeechFrames \in Nat /\ KeepSilenceFrames \in Nat

\* The store and a poll have room for an event, and browsers show rooms.
ASSUME EventsAssumption ==
  /\ MaxEvents \in Nat \ {0} /\ PollLimit \in Nat \ {0}
  /\ RoomOf \in [Pollers -> Rooms] /\ OwnNumbers \subseteq Nat

\* A frame holds audio, the rates are positive, and no response is none of
\* them; nor is a buffer.
ASSUME PlayoutAssumption ==
  /\ {SourceRate, TargetRate, FrameUnits} \subseteq Nat \ {0}
  /\ TailFrames \in Nat /\ ChunkSizes \subseteq Nat \ {0}
  /\ None \notin Responses /\ None \notin [odd : 0..1, units : Nat]

\* A lock that nobody holds is told from one that a request holds.
ASSUME SocketAssumption == None \notin Requests

VARIABLES
  part,
  sAt, sLock, sApi, sAnswer, sLoop, sEvents, sFailures,
  fLast, fSequence, fWaiting, fId,
  pAgents, pAlive, pStarted, pStopping,
  cPosts, cCreated, cTasks, cHeld,
  ePosted, eSequence, eEvents, eRenumbered, eAfter, eSeen, ePolledAt,
  dSize, dRemoved, dDownload, dUpload,
  vActive, vStart, vSilence, vSpeech, vBuffer, vBefore, vTurn,
  qQueue, qPending, qActive, qClosed, qSequence, qFed, qEnded, qDrained,
  tWorker, tThread, tQueries, tTasks, tTexts

socketVars == <<sAt, sLock, sApi, sAnswer, sLoop, sEvents, sFailures>>
flakeVars == <<fLast, fSequence, fWaiting, fId>>
processVars == <<pAgents, pAlive, pStarted, pStopping>>
resultVars == <<cPosts, cCreated, cTasks, cHeld>>
eventVars == <<ePosted, eSequence, eEvents, eRenumbered, eAfter, eSeen, ePolledAt>>
downloadVars == <<dSize, dRemoved, dDownload, dUpload>>
voiceVars == <<vActive, vStart, vSilence, vSpeech, vBuffer, vBefore, vTurn>>
playoutVars == <<qQueue, qPending, qActive, qClosed, qSequence, qFed, qEnded, qDrained>>
transcriptVars == <<tWorker, tThread, tQueries, tTasks, tTexts>>

Socket == INSTANCE EventSocket WITH
  at <- sAt, lock <- sLock, api <- sApi, answer <- sAnswer, loop <- sLoop,
  events <- sEvents, failures <- sFailures

Flake == INSTANCE Snowflake WITH
  last <- fLast, sequence <- fSequence, waiting <- fWaiting, id <- fId

Processes == INSTANCE AgentProcesses WITH
  agents <- pAgents, alive <- pAlive, started <- pStarted, stopping <- pStopping

Results == INSTANCE PostCallResults WITH
  posts <- cPosts, created <- cCreated, tasks <- cTasks, held <- cHeld

DebugLog == INSTANCE DebugEvents WITH
  posted <- ePosted, sequence <- eSequence, events <- eEvents,
  renumbered <- eRenumbered, after <- eAfter,
  seen <- eSeen, polledAt <- ePolledAt

Recordings == INSTANCE RecordingFile WITH
  size <- dSize, removed <- dRemoved, download <- dDownload, upload <- dUpload

Voice == INSTANCE VoiceActivity WITH
  active <- vActive, startCounter <- vStart, silence <- vSilence, speech <- vSpeech,
  buffer <- vBuffer, preSpeech <- vBefore, turn <- vTurn

Playout == INSTANCE PlayoutEngine WITH
  queue <- qQueue, pending <- qPending, active <- qActive, closed <- qClosed,
  sequence <- qSequence, fed <- qFed, ended <- qEnded, drained <- qDrained

Transcript == INSTANCE HandoffTranscript WITH
  worker <- tWorker, thread <- tThread, queries <- tQueries, tasks <- tTasks,
  texts <- tTexts

Init ==
  /\ part \in {"socket", "flake", "processes", "results", "events", "downloads",
              "voice", "playout", "transcript"}
  /\ Socket!Init /\ Flake!Init /\ Processes!Init /\ Results!Init /\ DebugLog!Init
  /\ Recordings!Init /\ Voice!Init /\ Playout!Init /\ Transcript!Init

Moves(which) == part = which /\ UNCHANGED part

Next ==
  \/ Moves("socket") /\ Socket!Next
     /\ UNCHANGED <<flakeVars, processVars, resultVars, eventVars,
                    downloadVars, voiceVars, playoutVars, transcriptVars>>
  \/ Moves("flake") /\ Flake!Next
     /\ UNCHANGED <<socketVars, processVars, resultVars, eventVars,
                    downloadVars, voiceVars, playoutVars, transcriptVars>>
  \/ Moves("processes") /\ Processes!Next
     /\ UNCHANGED <<socketVars, flakeVars, resultVars, eventVars,
                    downloadVars, voiceVars, playoutVars, transcriptVars>>
  \/ Moves("results") /\ Results!Next
     /\ UNCHANGED <<socketVars, flakeVars, processVars, eventVars,
                    downloadVars, voiceVars, playoutVars, transcriptVars>>
  \/ Moves("events") /\ DebugLog!Next
     /\ UNCHANGED <<socketVars, flakeVars, processVars, resultVars,
                    downloadVars, voiceVars, playoutVars, transcriptVars>>
  \/ Moves("downloads") /\ Recordings!Next
     /\ UNCHANGED <<socketVars, flakeVars, processVars, resultVars,
                    eventVars, voiceVars, playoutVars, transcriptVars>>
  \/ Moves("voice") /\ Voice!Next
     /\ UNCHANGED <<socketVars, flakeVars, processVars, resultVars,
                    eventVars, downloadVars, playoutVars, transcriptVars>>
  \/ Moves("playout") /\ Playout!Next
     /\ UNCHANGED <<socketVars, flakeVars, processVars, resultVars,
                    eventVars, downloadVars, voiceVars, transcriptVars>>
  \/ Moves("transcript") /\ Transcript!Next
     /\ UNCHANGED <<socketVars, flakeVars, processVars, resultVars,
                    eventVars, downloadVars, voiceVars, playoutVars>>

vars == <<part, socketVars, flakeVars, processVars, resultVars,
          eventVars, downloadVars, voiceVars, playoutVars, transcriptVars>>

Spec == Init /\ [][Next]_vars

\* EventSocket: a break is never told the answer to that of a request that
\* still waits, and the event loop listens only where it has subscribed.
EventSocketSafe == Socket!EventSocketSafe
\* Snowflake: ids of recordings only grow.
IdsIncrease == Flake!IdsIncrease
\* AgentProcesses: a room has one agent, which the manager knows.
OneAgentPerRoom == Processes!OneAgentPerRoom
\* PostCallResults: an analysis task has one analyst.
OneAnalystPerTask == Results!OneAnalystPerTask
\* DebugEvents: a browser that polls often enough misses no event.
NothingMissed == DebugLog!NothingMissed
\* RecordingFile: a recording's body has the length promised.
BodiesAreWhole == Recordings!BodiesAreWhole
\* VoiceActivity: cutting off the silence of an utterance loses no speech.
SpeechIsKept == Voice!SpeechIsKept
\* PlayoutEngine: a finished response is heard whole, a canceled one not.
PlayedWhole == Playout!PlayedWhole
\* HandoffTranscript: turns are made of both recordings.
TranscriptIsWhole == Transcript!TranscriptIsWhole
=============================================================================
