SPECIFICATION AloneSpec
CONSTANTS
  p = p
  q = q
  s = s
  Null = Null
  Requests = {p, s}
  Handles <- PlayerAndSweeper
  Cfg <- Sudden1
  Actors <- TwoSides
  MaxTime = 2
  Horizon = 1
  MaxPly = 2
  MaxCrashes = 0
  MaxLosses = 0
PROPERTIES
  FlagIsDeclared
