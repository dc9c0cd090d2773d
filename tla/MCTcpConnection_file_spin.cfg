SPECIFICATION FairSpec

CONSTANTS
  w1 = w1
  w2 = w2
  m1 = m1
  m2 = m2
  f1 = f1
  f2 = f2
  Size <- MCSize
  FileLen <- MCFileLen
  Workers = {}
  Messages = {m1}
  Files = {f1}
  KernelBuf = 1
  highWaterMark_ = 2
  MaxInbound = 0
  WorkerSends = TRUE
  WorkerShutdown = FALSE
  ServerDestroys = FALSE

PROPERTY
  SendFileGivesUp
