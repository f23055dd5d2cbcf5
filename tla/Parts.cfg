SPECIFICATION Spec
CONSTANTS
  a1 = a1
  a2 = a2
  r1 = r1
  r2 = r2
  r3 = r3
  None = NoOne
  Requests = {r1, r2, r3}
  MaxFailures = 2
  Sequences = 3
  Workers = 4
  Worker = 2
  MaxClock = 12
  Rooms = {r1, r2}
  MaxProcesses = 4
  Calls = {r1, r2}
  TaskTypes = {"summary", "tags"}
  Analysts = {a1, a2}
  MaxPosts = 3
  Pollers = {a1, a2}
  RoomOf <- SharedRoom
  MaxEvents = 3
  PollLimit = 2
  OwnNumbers = {2}
  MaxPosted = 5
  Downloads = {r1, r2}
  Chunk = 2
  MaxSize = 4
  StartFrames = 2
  EndSilenceFrames = 2
  MinSpeechFrames = 3
  MaxUtteranceFrames = 8
  PreSpeechFrames = 3
  KeepSilenceFrames = 1
  Responses = {r1, r2}
  FrameUnits = 2
  TailFrames = 1
  SourceRate = 3
  TargetRate = 1
  ChunkSizes = {2, 3, 4}
  MaxChunks = 3
  Jobs = {r1}
  MaxQueries = 2
INVARIANTS EventSocketSafe OneAgentPerRoom OneAnalystPerTask BodiesAreWhole PlayedWhole TranscriptIsWhole
PROPERTIES IdsIncrease NothingMissed SpeechIsKept
CHECK_DEADLOCK FALSE
