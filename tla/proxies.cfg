SPECIFICATION FairSpec
CONSTANTS
  c1 = c1  c2 = c2
  Callers = {c1, c2}
  Size = 2
  Retries = 0
  BenchFails = 2
INVARIANT WalksAround
PROPERTY BenchedForCause
PROPERTY EachTakesTurns
PROPERTY WorkingComesBack
