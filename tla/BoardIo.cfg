SPECIFICATION FairSpec
CONSTANTS
  Boards = {"dim-1001", "dim-1003"}
  Registers = {1, 3}
  Values = {0, 193}
  Budgets <- MCBudgets
CHECK_DEADLOCK FALSE
INVARIANTS
  TypeOK
  EachHearsItAll
  LossEndsRun
  DevicesAsProgrammed
PROPERTIES
  PrintArrives
