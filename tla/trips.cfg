SPECIFICATION Spec
CONSTANTS
  town = town  spa = spa  isle = isle  dale = dale  capital = capital
  None = None
  Table <- MCTable
  Interests = {"swim", "food"}
  Starts = {town, capital}
  Groups <- MCGroups
  HubOf <- MCHubOf
  Hubs <- MCHubs
  Proposals <- MCProposals
  Answers <- MCAnswers
  Hotels <- MCHotels
  Budgets = {0, 6}
  Most = 2
INVARIANT TotalIsHonest
INVARIANT MeetsWhereMostCome
PROPERTY HubIsLastResort
CHECK_DEADLOCK FALSE
