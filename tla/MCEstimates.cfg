CONSTANTS
  Job = {1}
  Machines = {0, 1}
  Here = 0
  Asks = {10, 24}
  Peaks = {6, 18}
  Takes = {2, 4}
  Usable = 25
  MinRuns = 2
  MinSamples = 2
  MaxHistory = 3
  Reads = 2
  Recent = 2
  MaxOdd = 1
  Guesses = {0, 1, 3}
  QueueLength = 3
  Views <- MCViews
SPECIFICATION MCSpec
INVARIANT AdviceSettles DurationsNotMixed ForecastSound
PROPERTY TrimFollowsHistory
