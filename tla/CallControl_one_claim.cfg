SPECIFICATION Spec
CONSTANTS
  NoAgent = NoAgent
  Agents = {a1, a2}
  Causes = {}
  MaxHandoffs = 2
  MaxHangups = 1
  MaxPosts = 0
  RecordingEnabled = FALSE
  TranscriptProcessor = FALSE
  HttpHandoff = TRUE
  Faults = FALSE
INVARIANTS
  OneClaimEach
SYMMETRY Symmetry
CHECK_DEADLOCK FALSE
