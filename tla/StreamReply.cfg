CONSTANTS
  MaxMessageChars = 7
  MinPatchChars = 2
  MaxPatches = 3
  MaxPatchFailures = 2
  Prefix = 1
  ContinuationPrefix = 2
  Suffix = 0
  TypingIndicator = 1
  TruncationNote = 1
  CancelNote = 3
  ErrorNote = 2
  EmptyFinalText = 2
  MaxInput = 10
  MaxChunk = 7
  Spaces = {TRUE, FALSE}
  Overflow = {"truncate", "split"}
  Resumed = {"truncate"}
  FailureBound = 2
  RestartBound = 1
SPECIFICATION FairSpec
INVARIANT WritesWithinBudget
PROPERTIES ImplementsAnswer Terminates
CHECK_DEADLOCK FALSE
