CONSTANTS
  safe = safe  unsafe = unsafe  NoRecord = NoRecord
  Calls = {safe, unsafe}
  ReplaySafe <- MCReplaySafe
  MaxAttempts = 3  BaseDelay = 1  MaxDelay = 3
  RetryAfters = {}
  ExpiryBound = 1
  Rotates = TRUE  IssueBound = 3  FaultBound = 1
SPECIFICATION FairAuthSpec
INVARIANTS UnsafeAppliedOnce GrantKept
PROPERTIES ImplementsTransport EveryCallEnds
CHECK_DEADLOCK FALSE
