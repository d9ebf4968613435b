CONSTANTS
  root = root
  na = na
  nb = nb
  short = short
  long = long
  None = None
  Node = {root, na}
  Root = root
  Radio = {short}
  Link <- Pair
  Unstable <- AllStable
  INFINITE_RANK = 4
  MAX_RANKINC = 2
  LOLLIPOP_MAX_VALUE = 19
  LOLLIPOP_CIRCULAR_REGION = 9
  LOLLIPOP_SEQUENCE_WINDOWS = 4
  MaxFaults = 4
SPECIFICATION FairSpec
CHECK_DEADLOCK FALSE
PROPERTIES
  TreeForms
