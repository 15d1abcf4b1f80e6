CONSTANTS
  MaxMessageChars = 6
  MinPatchChars = 2
  MaxPatches = 3
  MaxPatchFailures = 2
  Prefix = 1
  ContinuationPrefix = 2
  Suffix = 0
  TypingIndicator = 0
  TruncationNote = 1
  CancelNote = 3
  ErrorNote = 2
  EmptyFinalText = 2
  MaxInput = 8
  MaxChunk = 4
  Spaces = {TRUE}
  Overflow = {"split"}
  Resumed = {"split"}
  FailureBound = 0
  RestartBound = 1
SPECIFICATION FairSpec
PROPERTIES ResumePicksUpWhereItLeftOff
CHECK_DEADLOCK FALSE
