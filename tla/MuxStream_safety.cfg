SPECIFICATION Spec
CONSTANTS
  WireCap = 1
  SysCap = 2
  ReadSizes = {1, 2}
  W <- WinMismatch
  WriteSizes = {1, 2}
  MaxBytes <- Bytes32
  MayDrop <- AllEnds
INVARIANTS TypeOK FlowInv BufferBounded
 
\* Both ends may drop the stream: nothing is left to do.
CHECK_DEADLOCK FALSE
