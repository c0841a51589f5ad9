SPECIFICATION Spec
CONSTANTS
  MaxGThreads = 4
  GtPriorityLowest = 1
  Priorities <- MCPriorities
  InitPolicies <- MCPolicies
  RuntimePolicies <- MCRuntimePolicies
INVARIANTS
  TypeOK
  OneRunner
  ReadyResumable
  TickGate
  BoundedWait
  LotteryProportional
  MainExitsLast
