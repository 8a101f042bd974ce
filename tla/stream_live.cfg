SPECIFICATION FairSpec
CONSTANTS
  g1 = g1
  g2 = g2
  a1 = a1
  a2 = a2
  a3 = a3
  i1 = i1
  i2 = i2
  x = x
  y = y
  NoSupervisor = NoSupervisor
  NoTimer = NoTimer
  NoApp = NoApp
  Supervisors <- OneSupervisor
  Apps <- TwoApps
  Timers <- OneTimer
  Topics <- NoTopic
  MaxRetries = 2
  AutoReconnect = TRUE
  Timeouts = TRUE
PROPERTIES
  ConnectAnswered
  Recovers
