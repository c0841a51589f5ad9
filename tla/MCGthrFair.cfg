SPECIFICATION FairSpec
CONSTANTS
  MaxGThreads = 4
  GtPriorityLowest = 2
  Priorities <- MCPriorities
  InitPolicies <- MCFairPolicies
  RuntimePolicies <- MCNoPolicies
PROPERTIES
  NoStarvation
  PreemptionReturns
