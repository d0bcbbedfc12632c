SPECIFICATION FairSpec
CONSTANTS
  WireCap = 1
  SysCap = 2
  ReadSizes = {1, 2}
  W <- WinTwo
  WriteSizes = {1, 2}
  MaxBytes <- Bytes22
  MayDrop = {}
INVARIANTS NoByteLost NoFlowControlReset
 
\* Both ends may be done: nothing is left to do.
CHECK_DEADLOCK FALSE
