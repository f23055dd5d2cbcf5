SPECIFICATION Spec
CONSTANTS
  NoAgent = NoAgent
  Agents = {a1}
  Causes = {"busy", "no_answer"}
  MaxHandoffs = 1
  MaxHangups = 0
  MaxPosts = 1
  RecordingEnabled = TRUE
  TranscriptProcessor = TRUE
  HttpHandoff = FALSE
  Faults = TRUE
INVARIANTS
  GatedCallbackOnce
  HandoffCallbackOnce
  TranscriptFailureReported
CHECK_DEADLOCK FALSE
