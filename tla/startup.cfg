SPECIFICATION Spec
CONSTANTS
  Threads = {t1, t2}
  Types = {c1, c2}
INVARIANTS TypeOK NoOrphanWindow
PROPERTIES LostForAReason FailuresReported GivesWay
CHECK_DEADLOCK FALSE
