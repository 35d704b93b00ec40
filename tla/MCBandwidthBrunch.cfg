\* The bandwidth scenario of brunch from node 0.
CONSTANTS
  Scenarios <- MCBandwidthBrunch
  Unwatchable = {}
  KnownKernels <- MCAllKernels
SPECIFICATION ArraysSpec
INVARIANT NoConflict
CHECK_DEADLOCK FALSE
