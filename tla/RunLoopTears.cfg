SPECIFICATION FairSpec
CONSTANTS
  STEPS = 3
  CHUNK = 2
  ConsoleWaits = FALSE
CHECK_DEADLOCK FALSE
INVARIANT
  SnapshotOfOneMoment
