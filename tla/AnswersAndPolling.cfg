CONSTANTS
  Events = {e1, e2}
  Workers = {w1, w2}
  QueueKinds = {"memory", "file", "push"}
  room = room
  SpaceOf <- MCSpaceOf
  Answers = {"thinking", "done"}
  PlaceholderText = "Thinking..."
  SlugOf <- MCSlugOf
  NoTask = NoTask
  FaultBound = 2

  Modes <- MCModes
  PageSize = 1
  ClockBound = 4
  CrashBound = 1

  Deliveries <- MCDeliveries
  Repeats <- MCRepeats
  CardRequests <- MCCardRequests
  Forms <- MCClickForms
  Handlers <- MCHandlers
  CardWidgets = 14
  UserNames <- MCUserNames
  SpaceNames <- MCSpaceNames
  LocaleOrder <- MCLocaleOrder
  CodePointOrder <- MCCodePointOrder
  LastDate = 8
  LastDatetime = 5
SPECIFICATION PartsSpec
INVARIANTS
  TasksHeldOnce NoSecondAnswer
  HandedOnOncePerLife
  PortsAgree SegmentsTile KeyPerEvent ButtonsWork
PROPERTIES EveryTaskAnswered CaughtUp
CHECK_DEADLOCK FALSE
