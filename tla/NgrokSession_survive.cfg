SPECIFICATION Spec
CONSTANTS
  a = a
  b = b
  Tunnels = {a, b}
  Labeled = {}
  ChanCap = 1
  MaxGen = 2
  MaxConns = 0
  MaxStops = 0
  MayClose = {}
  MayDrop = {}
  SessionEnd = {}
INVARIANT TunnelSurvives
\* The application may make no call, the session may have ended.
CHECK_DEADLOCK FALSE
