CONSTANTS
  Task = {t1, t2}
  Chan = {c1}
  Worker = {w1, w2}
  Main = main
  NULL = NULL
  Capacity <- OneSlot
  MaxSends = 2
  MaxRecvs = 2
  MaxCloses = 1
SPECIFICATION MCSpec
VIEW View
CHECK_DEADLOCK FALSE
INVARIANTS AllocatorConsistent
PROPERTIES ReadyTaskRuns ClosedReleasesSenders CollectorFinishes
