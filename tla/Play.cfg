SPECIFICATION MCSpec
CONSTANTS
  p = p
  q = q
  s = s
  Null = Null
  Requests = {p, q}
  Handles <- OneSlot
  Cfg <- Fischer1
  Actors <- Stranger
  MaxTime = 3
  Horizon = 3
  MaxPly = 4
  MaxCrashes = 0
  MaxLosses = 1
INVARIANTS
  TypeOK
  ClockAddsUp
  TimeoutIsEarned
  SingleFinish
  TurnsAlternate
  EndIsAnnounced
PROPERTIES
  DrawIsAgreed
  GameOverIsFinal
  ImplementsLifecycle
