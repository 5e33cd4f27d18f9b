SPECIFICATION MCSpec
CONSTANTS
  blitz = blitz
  rapid = rapid
  t1 = t1
  t2 = t2
  t3 = t3
  w1 = w1
  w2 = w2
  Null = Null
  NumPlayers = 3
  Rating <- Spread
  Buckets = {blitz, rapid}
  Tabs = {t1, t2, t3}
  Owner <- OwnTab
  Sweepers = {w1}
  InitialDelta = 1
  DeltaStep = 1
  StepInterval = 1
  MaxDelta = 2
  MayLeave = TRUE
  MaxTime = 1
  MaxJoins = 2
  MaxCrashes = 1
  MaxExpiries = 1
INVARIANTS
  QueuesAgree
  EntriesEndOnce
PROPERTIES
  AllMeet
CHECK_DEADLOCK FALSE
