\* The relay as the router uses it, and as its comment and test use it.
CONSTANTS
  Frames = {"headers", "error_headers", "empty", "data", "last", "end", "error", "other", "short"}
  FirstByteTimeout = 2
  TotalTimeout = 8
  IdleTimeout = 3
  RecvTimeout = 2
  MaxShort = 2
  HeaderFirst = {TRUE, FALSE}
SPECIFICATION FairSpec
CHECK_DEADLOCK FALSE
INVARIANTS
  TypeOK
  FinalEvents
  Deadline
  ErrorAfterHeader
PROPERTIES
  Completes
