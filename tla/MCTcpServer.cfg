SPECIFICATION FairSpec

CONSTANTS
  t1 = t1
  Threads = {t1}
  MaxThreads = 2
  MaxConns = 4
  MaxFds = 3

INVARIANTS
  ServerTypeOK
  RoundRobin
  OneDestroy
  EstablishedFirst
  NoCallOnDeadServer

PROPERTIES
  StartListens
  ClosedIsTornDown
  ClientsAreServed
  ServerDestructorReturns

CHECK_DEADLOCK FALSE
