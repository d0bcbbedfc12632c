SPECIFICATION Spec
CONSTANTS
  Inputs <- MCInputs
  MinLen = 3
  MaxLen = 5
  SigLen = 2
  OutLen = 2
  Rooms = {1, 3}
  MaxData = 2
INVARIANTS BytesKept CutIndependent
PROPERTY Settles
\* The application may have read and written all.
CHECK_DEADLOCK FALSE
