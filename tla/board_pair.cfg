SPECIFICATION Spec
CONSTANTS
  g1 = g1  g2 = g2  b1 = b1  b2 = b2  t1 = t1  x1 = x1  w1 = w1  w2 = w2
  Guests = {g1, g2}
  Invited = {g1}
  Offers <- Pair
  NoOffer = none
  Keys <- PairKeys
  NoKey = nokey
  KeyOf <- PairNumber
  Vehicle <- PairNumber
  Arrives <- PairArrive
  Rank <- PairRank
  Night = {t1}
  Route <- PairRoute
  Deadline = 6
  Spacing = 2
  Caching = FALSE
  Workers = {w1, w2}
  Ticker = loop
  Clients = {c1, c2}
  Calls = {"consent", "revoke", "join", "add", "buy", "recheck"}
  MaxCalls = 2
  MaxMoves = 0
  MaxFails = 0
INVARIANT NamesWereAgreed
INVARIANT OnlyWayStands
PROPERTY KeepsBoughtTicket
SYMMETRY SlotSymmetry
CHECK_DEADLOCK FALSE
