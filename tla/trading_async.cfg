SPECIFICATION Spec
CONSTANTS
  c1 = c1
  c2 = c2
  s1 = s1
  s2 = s2
  NoSocket = NoSocket
  Callers <- TwoCallers
  Sockets <- TwoSockets
  MaxRequests = 1
  Kinds <- Signed
  Setups <- HexMode
SYMMETRY Renamings
INVARIANTS
  ToldTheTruth
  NobodyForgotten
