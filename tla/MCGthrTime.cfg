SPECIFICATION TimeSpec
CONSTANTS
  MaxGThreads = 3
  GtPriorityLowest = 1
  Priorities = {0}
  InitPolicies = {"RR"}
  RuntimePolicies = {"RR"}
  Word = 16
  MaxTime = 3
  MaxSlices = 3
INVARIANTS
  TimeTypeOK
  DumpAddsUp
  SpreadSound
