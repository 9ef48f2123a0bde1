\* More calls than clients: clients are shared and reused after the agent has closed them.
CONSTANTS
  Workers = {w1, w2}
  PoolSize = 2
  Calls = 3
  Chunks = 1
  None = None
SPECIFICATION FairSpec
CHECK_DEADLOCK FALSE
INVARIANTS
  TypeOK
  AnswerIntact
  NotCutShort
  Spread
PROPERTIES
  CallReturns
