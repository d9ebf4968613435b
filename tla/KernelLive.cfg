CONSTANTS
  proc = proc
  other = other
  et = et
  ct = ct
  None = None
  Process = {proc}
  Polled = {proc}
  Etimer = {et}
  Ctimer = {ct}
  Interval <- MCInterval
  NumEvents = 2
  MaxTime = 2
  MaxPosts = 1
  MaxDepth = 1
SPECIFICATION FairSpec
CHECK_DEADLOCK FALSE
INVARIANTS
  SleepsUntilNext
PROPERTIES
  ImplementsTimers
  ImplementsFairTimers
