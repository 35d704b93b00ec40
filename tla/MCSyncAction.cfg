\* The shape of scenarii/test.yml: a `sync` action between init and compute.
CONSTANTS
  Cores <- MCTestYmlCores
  Scenarios <- MCTestYml
  Unwatchable = {}
  KnownKernels <- MCKernels
  NumWatchers = 0
  MaxSyncs = 3
SPECIFICATION Spec
INVARIANT SyncActionsMeet
