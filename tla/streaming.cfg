SPECIFICATION Spec
CONSTANTS
  Codes = {"SSI", "UPCOMINDEX", "A1"}
  NoLoop = NoLoop
  Callers = {application, helper}
  Main = application
  Loops = {l1, l2}
  Menu <- MCMenu
  Frames <- MCFrames
  Settable = {"on_data", "market_flag"}
  MaxCalls = 3
  MaxPush = 1
  MaxDrops = 1
  MaxWire = 2
INVARIANTS
  NothingLeft
  ListAnswersItsOwn
  AllGivenUp
  HeardByAll
  OnePingLoop
SYMMETRY EitherLoop
CHECK_DEADLOCK FALSE
