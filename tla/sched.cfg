CONSTANTS
  Task = {t1, t2}
  Chan = {"rendezvous", "buffered"}
  Worker = {w1, w2}
  Main = main
  NULL = NULL
  Capacity <- BothKinds
  MaxSends = 3
  MaxRecvs = 2
  MaxCloses = 1
SPECIFICATION Spec
SYMMETRY Symmetry
CHECK_DEADLOCK FALSE
INVARIANTS TypeOK OneQueue ReceiverMeansEmpty NoDeliveredValueLost SentOnce
PROPERTIES FifoSpec
