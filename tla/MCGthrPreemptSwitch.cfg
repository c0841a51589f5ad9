SPECIFICATION Spec
CONSTANTS
  MaxGThreads = 3
  TickPoints <- MCDuringSwitch
INVARIANTS
  CurrentIsExecuting
