\* Two workers and one client, whose bucket they may both create; a request costs two parts, a
\* tick brings one or two, so that a bucket fills to a fraction.  Time runs out, threads stop.
CONSTANTS
  Threads = {t1, t2}
  Ips = {a}
  Cost = 2
  Rates = {1, 2}
  GlobalCapacity = 3
  IpCapacity = 2
  MaxTime = 2
  None = None
SPECIFICATION Spec
CHECK_DEADLOCK FALSE
INVARIANTS
  TypeOK
  WithinRate
