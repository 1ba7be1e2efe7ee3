SPECIFICATION Spec
CONSTANTS
  PORTS <- MCPorts
  MaxInterrupts = 1
  Commands <- MCCommands
CHECK_DEADLOCK FALSE
INVARIANTS
  TypeOK
  NothingLeft
PROPERTIES
  Settles
  AnnouncedTerminalsOpen
  DebugConsoleAttaches
