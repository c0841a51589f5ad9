SPECIFICATION Spec
CONSTANTS
  MaxGThreads = 3
  TickPoints <- SafePoints
INVARIANTS
  TypeOK
  GateMatches
  PreemptionNotLost
PROPERTIES
  RefinesGthr
