SPECIFICATION PlanSpec
CONSTANTS
  g = g  t = t  tdear = tdear  change = change  plane = plane
  bus = bus  coach = coach  night = night  eve = eve  late = late
  Guests = {g}
  Offers = {t, tdear, change, plane, bus, coach, night, eve, late}
  NoOffer = none
  Day = {t, tdear, change, plane, bus, coach, late}
  Night = {late, eve}
  Transfers = {change}
  Eve = {eve}
  RailMode = "railway"
  Mode <- MCMode
  Vehicle <- MCVehicle
  Departs <- MCDeparts
  Arrives <- MCArrives
  Price <- MCPrice
  Takes <- MCTakes
  Deadline = 8
  RiskMargin = 2
  Spacing = 0
  Wishes <- MCWishes
INVARIANT OutageIsNoCollapse
CHECK_DEADLOCK FALSE
