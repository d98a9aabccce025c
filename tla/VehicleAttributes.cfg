SPECIFICATION AttributesSpec
CONSTANTS
  car = car
  m1 = m1
  m2 = m2
  x = x
  y = y
  Vehicles = {car}
  Models = {m1, m2}
  Values = {x, y}
  Given = {x}
  Neutral = Neutral
  Unset = Unset
  ModelDefault <- MCModelDefault
  Rebinding = FALSE
  DuringUnbind = FALSE
  BindFirst = TRUE
  MaxBinds = 2
  MaxSets = 1
  MaxLegacy = 1
  MaxSyncs = 2
  MaxInFlight = 2
INVARIANTS  NothingSurvives
CHECK_DEADLOCK FALSE
