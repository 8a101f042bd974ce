SPECIFICATION Spec
CONSTANTS
  Owners = {o1, o2}
  Tasks = {s1, s2}
  NoTask = none
  User = user
  Conns = {c1, c2}
  NoConn = closed
  MaxTokens = 2
  MaxRetries = 2
  MaxDrops = 2
  AutoReconnect = TRUE
SYMMETRY EitherOrder
INVARIANTS
  ReuseOnlyAfterLoss
  NoSocketLeaks
  DisconnectStops
  WaitsForTheLiving
CHECK_DEADLOCK FALSE
