CONSTANTS
  Task = {t1, t2, t3}
  Chan = {c1}
  Thread = {a, b}
  NULL = NULL
  Ready = Ready
  Pointer = {p1, p2, p3, p4}
  HashRange = {0, 3, 6, 7}
  PTR_MAP_INIT_CAP = 4
  Sparse = 4
  NoPtr = NoPtr
  MaxMapCap = 8
  Layouts <- AllLayouts
  CHUNK_SIZE = 4
  InitBuckets = 1
  ChunkHash <- Spread
  MallocFails = TRUE
  None = None
  Addr = {0, 1, 2, 3, 4, 5, 6, 7, 8, 9, 11, 12, 13, 15, 16, 17, 20}
  Value = {1, 2}
  Key = {"a", "b", "c", "d"}
  HashSpan = 16
  Hashes <- Collisions
  InitCap = 2
  DictCap = 4
  DictCaps = {4, 8}
  MaxLen = 4
  Nil = Nil
SPECIFICATION MCSpec
CHECK_DEADLOCK FALSE
INVARIANTS ListsRepresentQueues ProbesEnd PointerMapExact ChunkTableExact CollectionsExact SlicesSelect
PROPERTIES ScanEnds
