CONSTANTS
  Jobs = {1, 2, 3}
  Profile <- MCProfile
  OptIn = {2}
  Requests <- MCRequests
  Ranks = {0, 50, 100}
  Slots = 2
  Usable <- MCUsable
  Physical = 2
  Backfill = TRUE
  MaxSkip = 1
  HeadWait = 0
  MaxHold = 1
  MinRun = 1
  MaxRun = 1
  Foreign = {0, 2}
  MaxEdits = 1
SPECIFICATION Spec
INVARIANT LedgerHolds LookAheadIsSpentOnDifferentJobs
