SPECIFICATION FairSpec
CONSTANTS
  c1 = c1  c2 = c2  k1 = k1  k2 = k2
  Callers = {c1, c2}
  Keys = {k1, k2}
  Asks <- MCAsks
  Retries = 1
  Slots = 1
  Threshold = 2
  MaxCalls = 3
INVARIANT OneFlightPerKey
INVARIANT SlotsAccounted
INVARIANT FreshIsLive
INVARIANT NoRetryStorm
PROPERTY EveryCallReturns
CHECK_DEADLOCK FALSE
