CONSTANTS
  c1 = c1  c2 = c2  c3 = c3  c4 = c4
  k1 = k1  k2 = k2  store = store
  Calls = {c1, c2, c3, c4}
  Keys = {k1, k2}
  Files = {store}
  FileOf <- MCFileOf
  KeyOf <- MCKeyOf
  None = None
  Ttl = 1
  MaxEntries = 2
  ClockBound = 2
  FaultBound = 1
SPECIFICATION FairStoreSpec
INVARIANT FirstComeFirstServed
PROPERTIES ImplementsClaim EveryClaimReturns
CHECK_DEADLOCK FALSE
