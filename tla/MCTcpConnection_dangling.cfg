SPECIFICATION Spec

CONSTANTS
  w1 = w1
  w2 = w2
  m1 = m1
  m2 = m2
  f1 = f1
  f2 = f2
  Size <- MCSize
  FileLen <- MCFileLen
  Workers = {w1, w2}
  Messages = {m1, m2}
  Files = {}
  KernelBuf = 1
  highWaterMark_ = 2
  MaxInbound = 1
  WorkerSends = TRUE
  WorkerShutdown = TRUE
  ServerDestroys = FALSE

INVARIANT
  NoDanglingChannel
