SPECIFICATION FairSpec
CONSTANTS
  HasPlaybackControl = TRUE
  PrefillFrames = 2
  TailFrames = 1
  MaxTurns = 2
  MaxTurnsAfterOpening = 1
  MaxFrames = 1
  Textless = {2}
  Repairs = {r1}
  NoTurn = NoTurn
  End = End
INVARIANTS CommittedOnce
PROPERTIES OnlyLiveAnswersSent DeferredToHandoff RepairIsOver ShutdownIsOver
CHECK_DEADLOCK FALSE
