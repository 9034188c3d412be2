SPECIFICATION FairSpec
CONSTANTS
  a = a  b = b  early = early  cheap = cheap
  Guests = {a, b}
  Offers = {early, cheap}
  NoOffer = none
  NoHint = nohint
  Vehicle <- MCTrain
  Rail <- MCTrains
  Arrives <- MCArrive
  Rank <- MCRank
  Route <- MCRoute
  Direct = {}
  Payable = {cheap}
  Late = {a}
  Faults = {a}
  Deadline = 3
  Spacing = 2
INVARIANT CardTells
INVARIANT HintFits
PROPERTY PickGetsLink
