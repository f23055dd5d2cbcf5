SPECIFICATION Spec
CONSTANTS
  NoAgent = NoAgent
  Agents = {a1, a2}
  Causes = {"busy"}
  MaxHandoffs = 1
  MaxHangups = 0
  MaxPosts = 0
  RecordingEnabled = TRUE
  TranscriptProcessor = TRUE
  HttpHandoff = TRUE
  Faults = FALSE
INVARIANTS
  TypeOK
  AgentLegOwned
  ConnectingHasOwner
  OneClaim
SYMMETRY Symmetry
CHECK_DEADLOCK FALSE
