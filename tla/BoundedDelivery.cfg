CONSTANTS
  d1 = d1  d2 = d2  d3 = d3  e1 = e1  e2 = e2
  Deliveries = {d1, d2, d3}
  EventOf <- MCEventOf
  Coroutines = {d2, d3}
  Capacity = 2
  Workers = 1
  OnDeadline = TRUE
  VerifierCapacity = 1
  VerifierWorkers = 1
SPECIFICATION MCSpec
INVARIANTS PoolsAccounted OnlyAdmittedHandled
PROPERTY EveryDispatchAnswered
CHECK_DEADLOCK FALSE
