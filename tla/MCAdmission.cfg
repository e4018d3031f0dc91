CONSTANTS
  Job = {1, 2, 3, 4}
  Ask <- MCAsk
  Device = {d1, d2}
  Card = 3
  Ram = 4
  Floor = 1
  Ceiling = 8
  Stop = 8
  Margin = 1
  FreeNeeded = 2
  Base <- MCBase
  Claims <- MCClaims
  Foreign <- MCForeign
  MaxRestarts = 1
SPECIFICATION Spec
INVARIANT ExclusiveAlone SharedFits LedgerHolds OwnedAlone
CHECK_DEADLOCK FALSE
