SPECIFICATION Spec
CONSTANTS
  g1 = g1
  g2 = g2
  a1 = a1
  a2 = a2
  a3 = a3
  i1 = i1
  i2 = i2
  x = x
  y = y
  NoSupervisor = NoSupervisor
  NoTimer = NoTimer
  NoApp = NoApp
  Supervisors <- TwoSupervisors
  Apps <- ThreeApps
  Timers <- TwoTimers
  Topics <- OneTopic
  MaxRetries = 2
  AutoReconnect = TRUE
  Timeouts = FALSE
SYMMETRY Renamings
INVARIANTS
  OneSocket
  DisconnectStops
  RestoredUnlessOvertaken
  NoSilentStop
  FirstConnectBounded
