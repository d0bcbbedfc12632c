SPECIFICATION Spec
CONSTANTS
  Kinds = {"http", "tcp", "tls", "labeled"}
  Urls <- MCUrls
  Plans <- MCPlans
  Unset = Unset
INVARIANTS BoundAsSaid  EndsWithTunnel
 
\* The application may start no tunnel, or hold one that nobody connects to.
CHECK_DEADLOCK FALSE
