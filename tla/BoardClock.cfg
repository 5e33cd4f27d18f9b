SPECIFICATION MCSpec
CONSTANTS
  Null = Null
  ann = ann
  ben = ben
  cem = cem
  g1 = g1
  g2 = g2
  Desks = {d1, d2}
  Examined = {g1}
  Suspects = {ann}
  Reporters = {w}
  Commission = {u, v}
  Findings <- AnyOrNone
  MaxCases = 2
  MaxAppeals = 1
  Sockets <- ThreeSockets
  SideOf <- TwoOfWhite
  node = n1
  MaxCrashes = 1
  MaxPlies = 2
  MaxJoins = 2
  MaxTicks = 1
  Positions = 3
  Mated = {2}
  Users = {ann, ben}
  me = ann
  accused = ben
  PageSize = 1
  MaxEvents = 3
  MaxChanges = 1
  MaxFaults = 1
  Cfgs <- AllTypes
  MaxTime = 5
  MaxMoves = 4
  MaxSkew = 2
SYMMETRY Alike
INVARIANTS
  ClockIsAClock
CHECK_DEADLOCK FALSE
