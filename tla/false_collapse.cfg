SPECIFICATION Spec
CONSTANTS
  g1 = g1  g2 = g2  b1 = b1  b2 = b2  t1 = t1  x1 = x1  w1 = w1  w2 = w2
  Guests = {g1, g2}
  Invited = {g1, g2}
  Offers <- Line
  NoOffer = none
  Keys <- LineKeys
  NoKey = nokey
  KeyOf <- LineNumber
  Vehicle <- LineNumber
  Arrives <- LineArrive
  Rank <- LineRank
  Night = {t1}
  Route <- LineRoute
  Deadline = 6
  Spacing = 2
  Caching = FALSE
  Workers = {w1}
  Ticker = loop
  Clients = {c1}
  Calls = {"recheck"}
  MaxCalls = 1
  MaxMoves = 0
  MaxFails = 0
INVARIANT CollapseIsReal
CHECK_DEADLOCK FALSE
