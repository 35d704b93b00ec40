SPECIFICATION Spec
CONSTANTS
  DataSections <- MCDataSections
  ParamLists <- MCParamLists
  INT_MAX = 127
  SIZE_MAX = 65535
  Memory = 300
  BLOCK_SIZE = 2
  bump = 2
  Unit = 4
  Rolls <- MCRolls
INVARIANT FlopsAsCommented
CHECK_DEADLOCK FALSE
