CONSTANTS
  Jobs = 2
  Cleaner = {c1}
  Linked = {1, 2}
  Refusable = {1}
  Unlucky = {1}
  RetainOk = 2
  RetainBad = 2
  Grace = 1
  Keep = 1
  OlderThan = {0}
  Horizon = 2
  MaxMishaps = 1
SPECIFICATION FairSpec
INVARIANT SourceReady TreeOutlivesProcess NothingHalfBuilt DataSafe
PROPERTY Reclaimed
CHECK_DEADLOCK FALSE
