SPECIFICATION Spec
CONSTANTS
  MaxId = 7
  Limit <- Limits21
  AcceptCap = 0
  SysCap = 1
  WireCap = 1
  MaxOpens <- Opens11
  MaxFrames = 1
  Closings <- ErrorGoAways
  Events <- Cancels
  MayLose = FALSE
INVARIANTS TypeOK TasksHaveHandles StreamsDoNotMix
\* A session may be over at both ends.
CHECK_DEADLOCK FALSE
