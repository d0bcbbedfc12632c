SPECIFICATION FairSpec
CONSTANTS
  a = a
  b = b
  Tunnels = {a, b}
  Labeled = {b}
  ChanCap = 2
  MaxGen = 2
  MaxConns = 1
  MaxStops = 1
  MayClose = {a}
  MayDrop = {a}
  SessionEnd = {"close", "drop"}
PROPERTIES  Recovers  
\* The application may make no call, the session may have ended.
CHECK_DEADLOCK FALSE
