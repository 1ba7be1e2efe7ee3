SPECIFICATION FairSpec
CONSTANTS
  SEND_DELAY = 1
  SendText <- MCSendText
  Script <- MCScript
  Input = {"console", "aux"}
  KeyBytes = {0, 138}
  MaxKeys = 2
  MaxClock = 1
CHECK_DEADLOCK FALSE
INVARIANTS
  TypeOK
  KeysInOrder
  ScriptInOrder
  DueExactly
PROPERTIES
  KeysArrive
  EndedIsForgotten
