SPECIFICATION FairSpec
CONSTANTS
  SEND_DELAY = 3
  SendText <- MCSendText
  Script <- MCNaNScript
  Input = {"console"}
  KeyBytes = {0, 10, 193}
  MaxKeys = 0
  MaxClock = 4
CHECK_DEADLOCK FALSE
INVARIANT
  DueExactly
