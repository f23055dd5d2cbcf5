SPECIFICATION FairSpec
CONSTANTS
  NoKey = NoKey
  NoCall = NoCall
  call1 = call1
  task1 = task1
  Requests = {r1, r2, r3}
  Keys <- MCKeys
  Identities <- MCIdentities
  MaxRecentCalls = 1
  Workers = 1
  MaxClock = 1
INVARIANTS
  IndexExact
  OpeningsOwned
PROPERTIES
  Idempotent
  AcceptedIsDialed
CHECK_DEADLOCK FALSE
