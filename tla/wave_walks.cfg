SPECIFICATION Spec
CONSTANTS
  g1 = g1  g2 = g2  g3 = g3  g4 = g4
  Steps = {3, 6}
  Late = 9
  Guests = {g1, g2, g3, g4}
  Offers <- MCOffers
  NoOffer = none
  Vehicle <- MCVehicle
  Arrives <- MCArrives
  Deadline = 8
  Spacing = 3
  Place <- MCPlace
  Starts <- MCStarts
INVARIANT KeepsToWaves
INVARIANT Settled
INVARIANT ClashesAreFlagged
CHECK_DEADLOCK FALSE
