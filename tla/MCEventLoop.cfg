SPECIFICATION FairSpec

CONSTANTS
  t1 = t1
  t2 = t2
  f1 = f1
  f2 = f2
  f3 = f3
  ch1 = ch1
  LoopThread = LoopThread
  WakeupChannel = WakeupChannel
  Threads = {t1, t2}
  Functors = {f1, f2, f3}
  IoChannels = {ch1}
  Quitters = {t1, LoopThread}
  EarlyCalls = FALSE

INVARIANTS
  TypeOK
  NoLostWakeup

PROPERTIES
  ImplementsTaskQueue
  ImplementsFairTaskQueue
