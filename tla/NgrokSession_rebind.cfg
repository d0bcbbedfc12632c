SPECIFICATION Spec
CONSTANTS
  a = a
  b = b
  Tunnels = {a, b}
  Labeled = {b}
  ChanCap = 2
  MaxGen = 3
  MaxConns = 1
  MaxStops = 1
  MayClose = {a}
  MayDrop = {b}
  SessionEnd = {"close", "drop", "cancel"}
INVARIANTS TypeOK MapIsServed
PROPERTY ToldIsFinal
\* The application may make no call, the session may have ended.
CHECK_DEADLOCK FALSE
