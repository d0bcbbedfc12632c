SPECIFICATION Spec
CONSTANTS
  Nibble = 8
  WordLen = 2
  ErrMax = 15
  Own <- MCOwn
  Foreign <- MCForeign
  MaxFrames = 2
INVARIANTS Preserves DecodesAlike
PROPERTY DecodesAll
\* All frames may have been sent and decoded.
CHECK_DEADLOCK FALSE
