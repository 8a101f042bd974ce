SPECIFICATION Spec
CONSTANTS
  t1 = t1
  t2 = t2
  NoThread = NoThread
  Threads <- TwoThreads
  Calls <- LoginCalls
  MaxTokens = 3
  PollAttempts = 2
SYMMETRY Symmetry2
INVARIANTS
  SingleFlight
  NoReuse
PROPERTIES
  ImplementsSession
