CONSTANTS
  Jobs = {j1}
  Preemptible = {j1}
  Observed = {j1}
  Cancelled = {j1}
  Slots = 1
  MaxStarts = 1
  MaxPreempts = 1
  MaxCrashes = 1
  MaxFaults = 0
SPECIFICATION FairSpec
PROPERTY CancelHonoured DisplacementEnds EndedJobSettles PreparingSettles
CHECK_DEADLOCK FALSE
