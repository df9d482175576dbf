CONSTANTS
  Task = {t1, t2}
  Chan = {c1}
  Thread = {a, b}
  NULL = NULL
  Ready = Ready
SPECIFICATION Spec
INVARIANTS WalkSeesQueued
