\* Four requests, any of six kinds, at most two outstanding; a recv returns what two of them hold.
CONSTANTS
  Requests = 4
  Parts = 3
  RecvUnits = 6
  Kinds = {"get", "post", "chunked", "close", "malformed", "large"}
  Window = 2
  MaxRequests = 3
  BodyTimeout = 1
  None = None
SPECIFICATION FairSpec
CHECK_DEADLOCK FALSE
INVARIANTS
  TypeOK
  NoByteLost
PROPERTIES
  Refinement
  EveryRequestAnswered
