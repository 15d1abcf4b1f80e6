CONSTANTS
  d1 = d1  d2 = d2  d3 = d3  e1 = e1  e2 = e2
  Deliveries = {d1, d2, d3}
  EventOf <- MCEventOf
  Coroutines = {}
  Capacity = 2
  Workers = 1
  OnDeadline = FALSE
  VerifierCapacity = 1
  VerifierWorkers = 1
SPECIFICATION MCSpec
INVARIANT CapacityFailureRetryable
CHECK_DEADLOCK FALSE
