\* The client sends three requests before it has an answer, and a recv may return them all.
CONSTANTS
  Requests = 4
  Parts = 1
  RecvUnits = 3
  Kinds = {"get"}
  Window = 3
  MaxRequests = 3
  BodyTimeout = 1
  None = None
SPECIFICATION Spec
CHECK_DEADLOCK FALSE
INVARIANTS
  AnswersMatch
