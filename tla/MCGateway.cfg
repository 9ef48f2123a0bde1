\* Two workers, two socket handles, two buffers, one accept slot; every call may fail.
CONSTANTS
  Workers = {w1, w2}
  Conns = {c1, c2, c3}
  Fds = {f1, f2}
  Bufs = {b1, b2}
  AcceptSlots = 1
  MaxRequests = 2
  MaxBatch = 1
  PostMayFail = TRUE
  EagerReuse = FALSE
  None = None
SPECIFICATION Spec
SYMMETRY Symmetry
CHECK_DEADLOCK FALSE
INVARIANTS
  TypeOK
  OneActivity
  BufferPinned
  BufferConserved
  NotStranded
  NoUseAfterDestroy
  SocketOwnedOnce
  KeepAliveBound
