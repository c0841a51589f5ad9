SPECIFICATION Spec
CONSTANTS
  NameLen = 2
  ExtLen = 1
  Names <- MCTwoNames
  Lengths <- MCLengths
  SectorSize = 2
  SectorsPerCluster = 2
  NumFats = 2
  FatEntries = 5
  LastCluster = 3
  NumSlots = 2
  CrashOps = {}
PROPERTIES
  AllocatesDataClusters
