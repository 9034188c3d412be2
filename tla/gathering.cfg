SPECIFICATION Spec
CONSTANTS
  ann = ann  guest = guest  blank = blank
  cheap = cheap  fast = fast  ufa = ufa  perm = perm
  Persons = {ann, guest, blank}
  Named <- MCNamed
  Trips = {cheap, fast}
  Places = {ufa, perm}
  Dates = {1, 2}
  Hours = {1, 2}
  None = none
  DefaultHour = 2
  GatherAt <- MCGatherAt
  Starts <- MCStarts
  Asks <- MCAsks
  Editors = {e1, e2}
  MaxCalls = 2
  Horizon = 2
INVARIANT TypeOK
INVARIANT OneRowPerPerson
INVARIANT FrameAsAsked
PROPERTY WordsKeepPeople
PROPERTY ChangesArePlanned
PROPERTY ChecksGoOn
CHECK_DEADLOCK FALSE
