\* Two handles, which are reused; stop() at any time; every outcome of relocking.
CONSTANTS
  Fds = {f1, f2}
  None = None
  Relock = {"waits", "throws", "counts"}
SPECIFICATION FairSpec
CHECK_DEADLOCK FALSE
INVARIANTS
  TypeOK
  MapMatchesHandles
  ReadyIsOpen
PROPERTIES
  StopTerminates
