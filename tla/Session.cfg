SPECIFICATION FairSpec
CONSTANTS
  Default = Default
  m1 = m1
  v1 = v1
  Models = {m1}
  Values = {v1}
  ClientVersions = {1, 2}
  ServerVersion = 2
  NetworkThread = TRUE
  RpcsOvertake = TRUE
  ScriptsFirst = FALSE
  MaxSessions = 2
  MaxChanges = 2
  MaxRestarts = 1
  MaxInFlight = 2
INVARIANTS BelievesRightly Delivered
PROPERTIES EventuallyAuthorized
CHECK_DEADLOCK FALSE
