SPECIFICATION Spec

CONSTANTS
  t1 = t1
  Threads = {t1}
  MaxThreads = 1
  MaxConns = 1
  MaxFds = 1

INVARIANT
  AllDestroyed

CHECK_DEADLOCK FALSE
