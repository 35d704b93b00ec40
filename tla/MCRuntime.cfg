\* Safety: two cores, two watchers, every kind of scenario.
CONSTANTS
  Cores <- MCCores
  Scenarios <- MCAll
  Unwatchable <- MCUnwatchable
  KnownKernels <- MCKernels
  NumWatchers = 2
  MaxSyncs = 3
SPECIFICATION Spec
INVARIANTS TypeOK PopNonEmpty TasksConserved NoTaskLost HandOff NoUnwatchedRun ReportComplete UnbalancedNeverReports Consistent
\* The worker that waits alone at the barrier spins for ever.
CHECK_DEADLOCK FALSE
