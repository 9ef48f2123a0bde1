\* A byte has six values, so a uint16 holds 36.
CONSTANTS
  Base = 6
  LengthBytes = 3
  MaxPayload = 6
  RecvBytes = 70
  Requests <- MCRequests
  Answers <- MCAnswers
  Calls = 2
  None = None
SPECIFICATION Spec
CHECK_DEADLOCK FALSE
INVARIANTS
  TypeOK
  RequestIntact
  AnswerIntact
  NotLeftWaiting
