SPECIFICATION FairSpec
CONSTANTS
  t1 = t1
  t2 = t2
  Threads <- TwoThreads
  Second = 2
  Rates <- NoneOrTwo
  Limits <- NoOrOne
  Waits <- NoOrLong
  MaxWait = 3
  RateRetries = 1
  MaxRetries = 1
  Delay = 1
INVARIANTS
  RateBounded
  SendsBounded
PROPERTIES
  PausesKept
  Progress
