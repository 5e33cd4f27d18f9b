SPECIFICATION FairSpec
CONSTANTS
  None = None
  Pollers = {api, worker}
  Recipients = {inApp}
  NumEvents = 2
  BatchSize = 2
  MaxFaults = 2
  MaxCrashes = 1
  MaxExpiries = 1
INVARIANTS
  OnceAndInOrder
PROPERTIES
  SettledOnce
  EveryEventSettles
CHECK_DEADLOCK FALSE
