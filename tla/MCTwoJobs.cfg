CONSTANTS
  Jobs = {j1, j2}
  Preemptible = {j1, j2}
  Observed = {}
  Cancelled = {}
  Slots = 1
  MaxStarts = 2
  MaxPreempts = 1
  MaxCrashes = 1
  MaxFaults = 0
SPECIFICATION Spec
SYMMETRY JobSymmetry
INVARIANT LiveIsOwned SlotsRespected
PROPERTY HeldDisplacedReturns
CHECK_DEADLOCK FALSE
