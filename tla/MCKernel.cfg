SPECIFICATION FairSpec
CONSTANTS
  Lbas <- MCLbas
  MaxLba = 2
  Values <- MCValues
  MaxProcesses = 2
  WordSize = 4
  Numbers <- MCNumbers
INVARIANTS
  TypeOK
  OneRunning
PROPERTIES
  ReadReturnsRequested
  LiveMemoryKept
  WriteOkStored
  DriverReturns
