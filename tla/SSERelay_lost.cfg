\* The agent is lost in the middle of a stream relayed by the router.
CONSTANTS
  Frames = {"headers", "error_headers", "empty", "data", "last", "end", "error", "other", "short"}
  FirstByteTimeout = 2
  TotalTimeout = 8
  IdleTimeout = 3
  RecvTimeout = 2
  MaxShort = 2
  HeaderFirst = {FALSE}
SPECIFICATION Spec
CHECK_DEADLOCK FALSE
INVARIANTS
  LostAgentReported
