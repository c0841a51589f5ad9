SPECIFICATION FairSpec
CONSTANTS
  NameLen = 2
  ExtLen = 1
  Names <- MCTwoNames
  Lengths <- MCLengths
  SectorSize = 2
  SectorsPerCluster = 2
  NumFats = 2
  FatEntries = 5
  LastCluster = 4
  NumSlots = 2
  CrashOps = {"write"}
INVARIANTS
  TypeOK
  ChainsSound
  MirrorsAgree
  NoSpaceLost
  FilesIntact
PROPERTIES
  RefinesFileStore
  CommandsEnd
