CHECK_DEADLOCK FALSE
SPECIFICATION Spec
CONSTANTS
  MaxBatchOrders = 2
  ClientId = "client"
  Intents <- FiveIntents
  Wanted <- MixedOrders
  Conditional <- SomeFCOs
  MaxCalls = 3
INVARIANTS
  OneOrderPerIntent
  DuplicateMeansPlaced
  SentWhole
  RoutesAgree
