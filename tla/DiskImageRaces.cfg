SPECIFICATION Spec
CONSTANTS
  TRACKS = 2
  SECTORS = 2
  SECTOR_SIZE = 1
  Bytes = {0, 1, 2}
  WriteValues <- MCWriteValues
  Diskettes <- MCDiskettes
  Inodes = {1, 2, 3, 4}
  HostRaces = TRUE
  MaxHostOps = 2
PROPERTY
  DumpOnlyIfMissing
