SPECIFICATION FairSpec
CONSTANTS
  a1 = a1
  a2 = a2
  a3 = a3
  p1 = p1
  p2 = p2
  p3 = p3
  Addr = {a1, a2, a3}
  Packet = {p1, p2, p3}
  Receivers <- UpToNames
  Requested <- MixedRequests
  NeighborQueues = 2
  QueuebufNum = 2
  FrameRetries = 1
  MaxBackoff = 1

INVARIANTS
  TypeOK QueuesMatchFate TimerIffQueued PoolsBalance RetriesLeft OneCallback AttemptsBounded CountsOwnAttempts
PROPERTIES
  ImplementsMac ImplementsFairMac
