SPECIFICATION Spec
CONSTANTS
  None = None
  Pollers = {api, worker}
  Recipients = {inApp}
  NumEvents = 1
  BatchSize = 1
  MaxFaults = 1
  MaxCrashes = 0
  MaxExpiries = 0
INVARIANTS
  PublishedWasHandled
CHECK_DEADLOCK FALSE
