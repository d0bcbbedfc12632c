SPECIFICATION Spec
CONSTANTS
  MaxStreams = 2
  Budgets <- MCBudgets
  Types = {"Proxy", "StopTunnel", "Heartbeat", "Unknown", "Stop", "Restart"}
  Handlers = {"Stop"}
  Window = 2
  Replies = {"ok", "error", "both", "junk"}
INVARIANTS LoopIsOrderly 
PROPERTIES StreamsAreSeen LossIsSeen TasksServe
\* The service may open no stream, and the session may have ended.
CHECK_DEADLOCK FALSE
