\* The OS issues a handle again as soon as it is closed.
CONSTANTS
  Workers = {w1, w2}
  Conns = {c1, c2, c3}
  Fds = {f1, f2}
  Bufs = {b1, b2}
  AcceptSlots = 1
  MaxRequests = 2
  MaxBatch = 1
  PostMayFail = FALSE
  EagerReuse = TRUE
  None = None
SPECIFICATION Spec
CHECK_DEADLOCK FALSE
INVARIANTS
  SocketOwnedOnce
