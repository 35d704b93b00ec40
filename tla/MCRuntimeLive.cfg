\* Liveness and refinement: two cores, one watcher, every kind of scenario.
CONSTANTS
  Cores <- MCCores
  Scenarios <- MCAll
  Unwatchable <- MCUnwatchable
  KnownKernels <- MCKernels
  NumWatchers = 1
  MaxSyncs = 3
SPECIFICATION FairSpec
PROPERTIES ImplementsBarrier ImplementsReplay BalancedEnds MainGetsThrough
\* The worker that waits alone at the barrier spins for ever.
CHECK_DEADLOCK FALSE
