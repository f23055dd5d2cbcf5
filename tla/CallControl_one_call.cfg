SPECIFICATION FairSpec
CONSTANTS
  NoAgent = NoAgent
  Agents = {a1}
  Causes = {"busy", "no_answer"}
  MaxHandoffs = 1
  MaxHangups = 1
  MaxPosts = 0
  RecordingEnabled = TRUE
  TranscriptProcessor = TRUE
  HttpHandoff = FALSE
  Faults = FALSE
INVARIANTS
  RecordingStoppedOnce
PROPERTIES
  RowStaysFinal
  FailedHandoffHangsUp
  TranscriptSettles
  FailedCallClosesRow
  HandedOverCallReported
CHECK_DEADLOCK FALSE
