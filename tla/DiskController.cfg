SPECIFICATION Spec
CONSTANTS
  TRACKS = 2
  SECTORS = 1
  SECTOR_SIZE = 2
  Bytes = {0, 1}
  NDRIVES = 1
  CW1Values <- MCCW1Values
  CW2Values <- MCCW2Values
  DataValues = {1}
  Diskettes <- MCDiskettes
INVARIANTS
  TypeOK
  FlagsTellPosition
  MarkSeenBeforeHeader
  FieldIsLoaded
PROPERTY
  FailureIsRepeatable
