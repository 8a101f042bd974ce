SPECIFICATION FairSpec
CONSTANTS
  t1 = t1
  t2 = t2
  NoThread = NoThread
  Threads <- TwoThreads
  Calls <- RefreshCalls
  MaxTokens = 3
  PollAttempts = 1
INVARIANTS
  HeaderFollowsToken
  NoRedundantRefresh
PROPERTIES
  ClearsOnlyDeadSession
  LockReleased
