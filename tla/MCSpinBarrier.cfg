\* Safety: four threads, up to three sync tasks each, every combination of counts.
CONSTANTS
  t1 = t1
  t2 = t2
  t3 = t3
  t4 = t4
  Threads = {t1, t2, t3, t4}
  MaxSyncs = 3
SYMMETRY Symmetry
SPECIFICATION Spec
INVARIANTS TypeOK NoEarlyPass SlotFresh OnlyReleaser OneMeeting
\* Threads with more sync tasks than the others spin for ever.
CHECK_DEADLOCK FALSE
