SPECIFICATION FairSpec
CONSTANTS
  MaxId = 7
  Limit <- Limits33
  AcceptCap = 0
  SysCap = 3
  WireCap = 1
  MaxOpens <- Opens10
  MaxFrames = 1
  Closings <- LongGoAways
  Events <- OneEnds
  MayLose = TRUE
 
PROPERTIES StreamsReachEnd OpenReturns HandlesFreed 
\* A session may be over at both ends.
CHECK_DEADLOCK FALSE
