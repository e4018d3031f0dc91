CONSTANTS
  Jobs = {1, 2, 3}
  Profile <- MCProfile
  OptIn = {2}
  Requests <- MCRequests
  Ranks = {0, 50, 100}
  Slots = 2
  Usable <- MCUsable
  Physical = 2
  Backfill = TRUE
  MaxSkip = 1
  HeadWait = 1
  MaxHold = 1
  MinRun = 1
  MaxRun = 1
  Foreign = {0, 1}
  MaxEdits = 0
SPECIFICATION FairSpec
PROPERTY HeadMovesOn
