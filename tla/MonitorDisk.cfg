SPECIFICATION MSpec
CONSTANTS
  TRACKS = 2
  SECTORS = 2
  SECTOR_SIZE = 2
  Bytes = {0, 1, 2, 3, 4, 5, 6, 7, 8, 9}
  NDRIVES = 2
  CW1Values <- MCControlWords
  CW2Values <- MCControlWords
  DataValues <- MCControlWords
  GAP = 8
  Payload <- MCPayload
  Diskettes <- MCDiskettes
  MaxRequests = 2
  MaxSwaps = 1
CHECK_DEADLOCK FALSE
INVARIANTS
  NeverGivesUp
  NeverRaises
PROPERTIES
  ImplementsSectorService
  RequestsComplete
