SPECIFICATION TFairSpec

CONSTANTS
  t1 = t1
  f1 = f1
  f2 = f2
  ch1 = ch1
  Owner = Owner
  LoopThread = LoopThread
  WakeupChannel = WakeupChannel
  Threads = {Owner}
  Functors = {f1}
  IoChannels = {}
  Quitters = {Owner}
  EarlyCalls = FALSE

PROPERTY
  DestructorReturns
