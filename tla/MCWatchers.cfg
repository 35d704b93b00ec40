SPECIFICATION Spec
CONSTANTS
  Scenarios <- MCScenarios
  Unwatchable = {}
  KnownKernels <- MCKernels
  Sections <- MCSections
  IntParams <- MCIntParams
  Counters = {"cycles", "misses"}
  Names <- MCNames
  StringOrder <- MCStringOrder
  Durations = {10, 30}
  Indeterminate = {0, 77}
INVARIANTS
  TypeOK
  EntriesSpan
  ReportWhole
  PastEndOnly
  HeaderFits
CHECK_DEADLOCK FALSE
