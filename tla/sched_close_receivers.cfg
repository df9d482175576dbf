CONSTANTS
  Task = {t1}
  Chan = {c1}
  Worker = {w1, w2}
  Main = main
  NULL = NULL
  Capacity <- Unbuffered
  MaxSends = 0
  MaxRecvs = 1
  MaxCloses = 1
SPECIFICATION FairSpec
CHECK_DEADLOCK FALSE
PROPERTIES ClosedReleasesReceivers
