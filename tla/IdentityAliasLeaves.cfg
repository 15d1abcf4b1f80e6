CONSTANTS
  Parts = {"identity"}

  MaxMessageChars = 6
  MinPatchChars = 2
  MaxPatches = 3
  MaxPatchFailures = 2
  Prefix = 1
  ContinuationPrefix = 2
  Suffix = 0
  TypingIndicator = 1
  TruncationNote = 2
  CancelNote = 3
  ErrorNote = 2
  EmptyFinalText = 2
  MaxInput = 14
  MaxChunk = 9

  Claimers = {fc1, fc2, fc3}
  Ttl = 1
  MaxCasAttempts = 2
  Recording = {fc1, fc2}
  ClockBound = 3
  CallBound = 4
  FaultBound = 1

  Calls = 3
  CacheTtl = 1
  Flaws = {"none"}
  KeyBound = 2
  TimeBound = 1
  FetchFaults = 1

  c1 = c1
  c2 = c2
  c3 = c3
  k1 = k1
  b1 = b1
  b2 = b2
  CacheCalls = {c1, c2, c3}
  CacheKeys = {k1}
  KeyAt <- MCKeyAt
  BytesOf <- MCBytesOf
  CacheKinds = {"file", "memory"}
  EntryTtl = 1
  CacheTimeBound = 1
  CacheFaults = 1

  u1 = u1
  u2 = u2
  Users = {u1, u2}
  AddressOf <- MCAddressOf
  AliasesOf <- MCAliasesOf
  SyncBound = 2
  IdentityKinds = {"file", "memory"}
  AddressesLeave = TRUE
  DirectoryBound = 2

  ChatInputs <- MCChatInputs
  ValidSegments <- MCValidSegments
  NumericSegments = {"0"}
  DriveInputs <- MCDriveInputs

  Threads = {t1, t2, t3}
  Paths = {p1, p2}
  Objects = {o1, o2, o3}
  Nothing = Nothing

  RawMessages <- MCRawMessages
  ContextInputs <- MCContextInputs

  SmokeCommands <- MCSmokeCommands
  SmokeFollowUps <- MCSmokeFollowUps
  SweepLimit = 2
  SmokeFaultBound = 2
  FollowUpBound = 2
SPECIFICATION PartsSpec
INVARIANT SyncTakesEffect
CHECK_DEADLOCK FALSE
