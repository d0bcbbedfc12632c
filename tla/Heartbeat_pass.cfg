SPECIFICATION FairSpec
CONSTANTS
  Interval = 2
  Tolerance = 3
  Settings = {3, 4}
  Delay = 1
  CbTime = 2
  Callers = {"a", "b"}
  MaxBeats = 1
  MaxMissed = 4
INVARIANT AlarmIsTrue
PROPERTIES  DropEnds
\* Both tasks may have ended.
CHECK_DEADLOCK FALSE
