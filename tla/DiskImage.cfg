SPECIFICATION Spec
CONSTANTS
  TRACKS = 2
  SECTORS = 2
  SECTOR_SIZE = 1
  Bytes = {0, 1, 2}
  WriteValues <- MCWriteValues
  Diskettes <- MCDiskettes
  Inodes = {1, 2, 3, 4}
  HostRaces = FALSE
  MaxHostOps = 2
INVARIANTS
  TypeOK
  CacheIsFile
  DiesLoadable
PROPERTY
  ImplementsSectorStore
