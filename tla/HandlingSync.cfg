SPECIFICATION Spec
CONSTANTS
  car = car
  light = light
  Vehicles = {car}
  Base = Base
  Custom = Custom
  Masses = {light}
  Stock = Stock
  Junk = Junk
  None = None
  IdReuse = FALSE
  RidesToTheEnd = FALSE
  EarlyPlayer = FALSE
  SameFrame = FALSE
  MaxInFlight = 1
  MaxCalls = 2
  MaxRides = 1
  MaxStreams = 3
INVARIANTS NoDangling ClientAgrees
CHECK_DEADLOCK FALSE
