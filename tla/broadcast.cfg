SPECIFICATION FairSpec
CONSTANTS
  w1 = w1  w2 = w2  p1 = p1  p2 = p2
  Watchers = {w1, w2}
  Publishers = {p1, p2}
  Nobody = Nobody
  Capacity = 2
  MaxBoards = 4
  MaxConnects = 2
INVARIANT SendsToOpenChannels
INVARIANT NothingLostButOverflow
PROPERTY NeverBack
PROPERTY CatchesUp
CHECK_DEADLOCK FALSE
