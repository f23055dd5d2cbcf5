SPECIFICATION FairSpec
CONSTANTS
  Nothing = Nothing
  call1 = call1
  call2 = call2
  p1 = p1
  p2 = p2
  p3 = p3
  Calls = {call1, call2}
  LocalCalls = {call2}
  Payloads = {p1, p2, p3}
  CallOf <- MCCallOf
  KindOf <- MCKindOf
  Capacity = 1
  MaxAttempts = 2
INVARIANTS
  ReportedOnce
  SuccessIsWritten
  TrueMeansWritten
  MarkHasRecording
PROPERTIES
  OutcomeStable
  AcceptedIsReported
CHECK_DEADLOCK FALSE
