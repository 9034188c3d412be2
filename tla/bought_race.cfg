SPECIFICATION Spec
CONSTANTS
  g1 = g1  g2 = g2  b1 = b1  b2 = b2  t1 = t1  x1 = x1  w1 = w1  w2 = w2
  Guests = {g1}
  Invited = {g1}
  Offers <- Twin
  NoOffer = none
  Keys <- TwinKeys
  NoKey = nokey
  KeyOf <- TwinNumber
  Vehicle <- TwinNumber
  Arrives <- TwinArrive
  Rank <- TwinRank
  Night = {t1}
  Route <- TwinRoute
  Deadline = 6
  Spacing = 2
  Caching = FALSE
  Workers = {w1, w2}
  Ticker = loop
  Clients = {c1}
  Calls = {"buy", "recheck"}
  MaxCalls = 2
  MaxMoves = 1
  MaxFails = 0
INVARIANT BoughtIsShown
SYMMETRY SlotSymmetry
CHECK_DEADLOCK FALSE
