SPECIFICATION FairSpec
CONSTANTS
  NoAgent = NoAgent
  Agents = {a1}
  Causes = {"busy", "no_answer"}
  MaxHandoffs = 1
  MaxHangups = 0
  MaxPosts = 0
  RecordingEnabled = TRUE
  TranscriptProcessor = TRUE
  HttpHandoff = FALSE
  Faults = FALSE
PROPERTIES
  AbandonedHandoffFails
CHECK_DEADLOCK FALSE
