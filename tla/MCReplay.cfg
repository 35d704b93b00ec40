\* The generators' scenarios on three machines.
CONSTANTS
  Scenarios <- MCGenerated
  Unwatchable = {}
  KnownKernels <- MCAllKernels
SPECIFICATION FairArraysSpec
INVARIANTS NoConflict UsedReady OrderedByMeetings
PROPERTIES AllReported
\* The report is the last step.
CHECK_DEADLOCK FALSE
