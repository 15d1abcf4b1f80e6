CONSTANTS
  Executions <- MCExecutions
  PlanOf <- MCPlanOf
  OptionsOf <- MCOptionsOf
  NoId = NoId

  r1 = r1  r2 = r2
  first = first  second = second
  Requests = {r1, r2}
  RoutedEvents = {first, second}
  KindOf <- MCKindOf
  Keyed = {first}
  Registered = {"generic"}
  Middlewares = 1
  Deadline = "callback"
  ExpiryBound = 1
SPECIFICATION PartsSpec
INVARIANTS
  SentOnce PinsOnlyWhatIsAbsent OkAccountsForAll
  HandledOncePerClaim
PROPERTY EveryRequestAnswered
CHECK_DEADLOCK FALSE
