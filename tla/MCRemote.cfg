CONSTANTS
  Job = {j1}
  Node = {n1}
  Local = Local
  Own = Own
  Pin <- MCFree
  Relative = {j1}
  Submission = {s1, s2}
  MaxCopies = 2
  MaxRestarts = 1
SPECIFICATION FairSpec
INVARIANT EndedOnItsNode OneCopyPerNode NoOrphan HomeBeforeFinish
PROPERTY TreeOutlivesCopy CancelSettles
