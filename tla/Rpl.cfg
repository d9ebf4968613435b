CONSTANTS
  root = root
  na = na
  nb = nb
  short = short
  long = long
  None = None
  Node = {root, na, nb}
  Root = root
  Radio = {short}
  Link <- Chain
  Unstable <- AllStable
  INFINITE_RANK = 4
  MAX_RANKINC = 1
  LOLLIPOP_MAX_VALUE = 255
  LOLLIPOP_CIRCULAR_REGION = 127
  LOLLIPOP_SEQUENCE_WINDOWS = 16
  MaxFaults = 0
SPECIFICATION FairSpec
CHECK_DEADLOCK FALSE
INVARIANTS
  TypeOK
  RankFollowsPreferred
  RankWithinLimit
PROPERTIES
  TreeForms
