SPECIFICATION Spec
CONSTANTS
  c1 = c1  c2 = c2
  Callers = {c1, c2}
  Size = 3
  Retries = 2
  BenchFails = 2
INVARIANT WalksAroundAmongOthers
