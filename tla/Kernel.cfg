CONSTANTS
  proc = proc
  other = other
  et = et
  ct = ct
  None = None
  Process = {proc, other}
  Polled = {}
  Etimer = {et}
  Ctimer = {ct}
  Interval <- MCTick
  NumEvents = 1
  MaxTime = 1
  MaxPosts = 1
  MaxDepth = 3
SPECIFICATION Spec
SYMMETRY Processes
CHECK_DEADLOCK FALSE
INVARIANTS
  TypeOK
  ListedIffStarted
  ListedTimersNotify
  CallbacksComing
  ExpiredTimersPolled
