CONSTANTS
  Jobs = 1
  Cleaner = {c1}
  Linked = {1}
  Refusable = {1}
  Unlucky = {}
  RetainOk = 2
  RetainBad = 2
  Grace = 1
  Keep = 1
  OlderThan = {0}
  Horizon = 2
  MaxMishaps = 1
SPECIFICATION Spec
INVARIANT DetachedFirst
CHECK_DEADLOCK FALSE
