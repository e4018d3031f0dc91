CONSTANTS
  Jobs = {j1}
  Preemptible = {j1}
  Observed = {j1}
  Cancelled = {j1}
  Slots = 1
  MaxStarts = 2
  MaxPreempts = 1
  MaxCrashes = 1
  MaxFaults = 1
SPECIFICATION Spec
INVARIANT OneRunner SuccessIsFinal SuccessIsTrue RunsOnlyAttached
PROPERTY ImplementsBackend
CHECK_DEADLOCK FALSE
