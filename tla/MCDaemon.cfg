CONSTANTS
  c1 = c1
  c2 = c2
  m1 = m1
  Process = {d1, d2}
  Client = {c1, c2}
  Calls <- MCCalls
  Claim = {m1}
  Timed = {m1}
  Nobody = Nobody
  MaxCalls = 2
  MaxFaults = 1
SPECIFICATION FairSpec
INVARIANT PidNamesHolder
PROPERTY StopsWhoWasAsked StopEnds ClaimEnds
CHECK_DEADLOCK FALSE
