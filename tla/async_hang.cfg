SPECIFICATION FairSpec
CONSTANTS
  Owners = {o1, o2}
  Tasks = {s1, s2}
  NoTask = none
  User = user
  Conns = {c1, c2}
  NoConn = closed
  MaxTokens = 1
  MaxRetries = 2
  MaxDrops = 0
  AutoReconnect = TRUE
PROPERTIES
  ConnectReturns
CHECK_DEADLOCK FALSE
