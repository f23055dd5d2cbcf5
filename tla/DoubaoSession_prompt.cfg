SPECIFICATION Spec
CONSTANTS
  NoTurn = NoTurn
  TurnIdStart = 0
  MaxUtterances = 1
  MaxWire = 2
  ProviderInTime = TRUE
INVARIANTS
  ConnectingPromptSpoken
CHECK_DEADLOCK FALSE
