CONSTANTS
  Job = {1, 2}
  Node = {n1}
  Size <- MCSize
  Room <- MCRoom
  Own = {0, 1}
  Compatible = {n1}
  Pin <- MCPin
  Anywhere = anywhere
  Renamed = {n1}
  Bare = {n1}
  Small = {n1}
  MaxFaults = 1
SPECIFICATION NodesFairSpec
PROPERTY NoBacklog Placed
CHECK_DEADLOCK FALSE
