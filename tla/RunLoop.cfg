SPECIFICATION FairSpec
CONSTANTS
  STEPS = 3
  CHUNK = 2
  ConsoleWaits = TRUE
CHECK_DEADLOCK FALSE
INVARIANTS
  TypeOK
  ExceptionEndsRun
  NoDeviceAfterException
  SnapshotOfOneMoment
PROPERTIES
  CtrlCStops
  PauseParks
