SPECIFICATION Spec
CONSTANTS
  g1 = g1  g2 = g2  b1 = b1  b2 = b2  t1 = t1  x1 = x1  w1 = w1  w2 = w2
  Guests = {g1}
  Invited = {g1}
  Offers <- Solo
  NoOffer = none
  Keys <- SoloKeys
  NoKey = nokey
  KeyOf <- SoloNumber
  Vehicle <- SoloNumber
  Arrives <- SoloArrive
  Rank <- SoloRank
  Night = {t1}
  Route <- SoloRoute
  Deadline = 6
  Spacing = 2
  Caching = TRUE
  Workers = {w1, w2}
  Ticker = loop
  Clients = {c1}
  Calls = {"choose", "buy", "unbuy", "collapse", "recheck"}
  MaxCalls = 3
  MaxMoves = 0
  MaxFails = 1
INVARIANT RowsCoherent
INVARIANT InTime
INVARIANT OnlyWayStands
PROPERTY PinKeptWhenCalm
SYMMETRY SlotSymmetry
CHECK_DEADLOCK FALSE
