SPECIFICATION Spec
CONSTANTS
  NameLen = 2
  ExtLen = 1
  SectorSize = 2
  SectorsPerCluster = 2
  FatPerSector = 4
  RootSectors = 2
  Fat <- MCFat
  Dir <- MCDir
  Threads = {1}
  Programs = {"cli", "fuse"}
  CdPaths <- MCCdPaths
  FusePaths <- MCFusePaths
  FileNames <- MCFileNames
  FuseOps = {"getattr", "readdir", "open", "open_rw", "read"}
  Offsets = {0, 1, 3, 4, 6, 7, 9}
  Sizes = {0, 1, 4, 6, 12}
INVARIANTS
  TypeOK
  PathsFollowed
  ReadReturnsRange
  ListsWhole
  TreeListsAll
PROPERTIES
  CallsEnd
