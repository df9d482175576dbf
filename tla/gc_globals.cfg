CONSTANTS
  Block = {1, 2, 3}
  Thread = {main}
  Main = main
  Slot = {s1, s2}
  Global = {g1}
  MaxGlobalRoots = 0
  Request <- ClosureRequests
  ClassSizes <- TwoClasses
  FlMax = 1
  HeaderSize = 1
  MinThreshold = 6
  Interior = FALSE
  NULL = NULL
SPECIFICATION Spec
CHECK_DEADLOCK FALSE
INVARIANTS ModuleVariablesKeepObjects
