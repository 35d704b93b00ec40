\* Refinement and liveness: three threads, up to three sync tasks each.
CONSTANTS
  t1 = t1
  t2 = t2
  t3 = t3
  Threads = {t1, t2, t3}
  MaxSyncs = 3
SPECIFICATION FairSpec
PROPERTIES ImplementsRendezvous AllCommonMeetingsHeld
\* Threads with more sync tasks than the others spin for ever.
CHECK_DEADLOCK FALSE
