CONSTANTS
  root = root
  na = na
  nb = nb
  short = short
  long = long
  None = None
  Node = {root, na, nb}
  Root = root
  Radio = {short, long}
  Link <- TwoRadios
  Unstable <- AllStable
  INFINITE_RANK = 6
  MAX_RANKINC = 2
  LOLLIPOP_MAX_VALUE = 255
  LOLLIPOP_CIRCULAR_REGION = 127
  LOLLIPOP_SEQUENCE_WINDOWS = 16
  MaxFaults = 0
SPECIFICATION Spec
CHECK_DEADLOCK FALSE
INVARIANTS
  RankFollowsPreferred
