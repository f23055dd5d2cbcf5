SPECIFICATION FairSpec
CONSTANTS
  NoTurn = NoTurn
  TurnIdStart = 0
  MaxUtterances = 2
  MaxWire = 1
  ProviderInTime = FALSE
INVARIANTS
  CompletedInOrder
PROPERTIES
  NoCallbackAfterClose
  LockReleased
CHECK_DEADLOCK FALSE
