SPECIFICATION Spec
CONSTANTS
  NameLen = 2
  ExtLen = 1
  SectorSize = 2
  SectorsPerCluster = 2
  FatPerSector = 4
  RootSectors = 2
  Fat <- MCFat
  Dir <- MCDir
  Threads = {1, 2}
  Programs = {"fuse"}
  CdPaths <- MCCdPaths
  FusePaths <- MCTwoPaths
  FileNames <- MCFileNames
  FuseOps = {"read"}
  Offsets = {0}
  Sizes = {4}
INVARIANTS
  ReadReturnsRange
