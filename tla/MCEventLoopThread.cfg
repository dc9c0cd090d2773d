SPECIFICATION TFairSpec

CONSTANTS
  t1 = t1
  f1 = f1
  f2 = f2
  ch1 = ch1
  Owner = Owner
  LoopThread = LoopThread
  WakeupChannel = WakeupChannel
  Threads = {Owner, t1}
  Functors = {f1, f2}
  IoChannels = {ch1}
  Quitters = {Owner, t1, LoopThread}
  EarlyCalls = TRUE

INVARIANTS
  LoopPointerValid
  NothingRunsAfterJoin

PROPERTIES
  StartLoopReturns
  DestructorReturnsIfLooping

\* A loop that quits by itself before startLoop tests loop_ leaves the owner
\* blocked in cond_.wait.
CHECK_DEADLOCK FALSE
