SPECIFICATION FairSpec
CONSTANTS
  c1 = c1
  c2 = c2
  acceptChannel_ = acceptChannel_
  wakeupChannel_ = wakeupChannel_
  Nobody = Nobody
  Channels = {acceptChannel_, wakeupChannel_, c1, c2}
  MayShutdown = {c1}
  MaxFd = 4
  kInitEventListSize = 3
INVARIANTS
  ReactorTypeOK
  PollerAgrees
  EventListBounded
  ChannelsAlive
  ServerNotCalledLate
  NothingLeft
PROPERTY
  ReadyIsHandled
CHECK_DEADLOCK FALSE
