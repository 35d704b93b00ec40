SPECIFICATION Spec
CONSTANTS
  DataSections <- MCTileSections
  ParamLists <- MCTileLists
  INT_MAX = 127
  SIZE_MAX = 65535
  Memory = 300
  BLOCK_SIZE = 2
  bump = 2
  Unit = 4
  Rolls <- MCRolls
INVARIANT NaiveComputesProduct
CHECK_DEADLOCK FALSE
