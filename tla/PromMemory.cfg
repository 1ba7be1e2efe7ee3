SPECIFICATION FairSpec
CONSTANTS
  Addr = {0, 1, 2, 3}
  Value = {0, 1}
  PokeAddr = {0, 2}
  NREGIONS = 2
  Span <- MCSpan
  Chip <- MCChip
INVARIANTS
  TypeOK
  ProtectionAgrees
PROPERTIES
  ImplementsBankedMemory
  SwitchCompletes
