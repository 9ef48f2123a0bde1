\* A worker that takes batches of up to two completions; Ctrl+C at any time, any call of
\* start() may fail.  The process ends, so the end of a behaviour is no deadlock.
CONSTANTS
  Workers = {w1}
  Conns = {c1, c2, c3}
  Fds = {f1, f2}
  Bufs = {b1, b2}
  AcceptSlots = 1
  MaxRequests = 1
  MaxBatch = 2
  PostMayFail = TRUE
  EagerReuse = FALSE
  None = None
SPECIFICATION LifeFairSpec
CHECK_DEADLOCK FALSE
INVARIANTS
  LifeTypeOK
PROPERTIES
  CtrlCStops
  AcceptsKept
