\* Safety with three cores and hand-offs in two rounds.
CONSTANTS
  Cores <- MCThreeCores
  Scenarios <- MCThree
  Unwatchable = {}
  KnownKernels <- MCKernels
  NumWatchers = 0
  MaxSyncs = 3
SPECIFICATION Spec
INVARIANTS NeverHangs HandOff
