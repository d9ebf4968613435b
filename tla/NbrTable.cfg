SPECIFICATION Spec
CONSTANTS
  a1 = a1
  a2 = a2
  a3 = a3
  a4 = a4
  d1 = d1
  d2 = d2
  d3 = d3
  None = None
  Nbr = {a1, a2, a3, a4}
  Dest = {d1, d2, d3}
  MaxNeighbors = 3
  MaxRoutes = 2
  Root = FALSE
  MaxDegree = 5
SYMMETRY Symmetry
CHECK_DEADLOCK FALSE
INVARIANTS
  TypeOK TablesAgree PreferredLocked DegreeCoversChildren AddrMapMatches
PROPERTIES
  UsedNeighborsKept
