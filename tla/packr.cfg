SPECIFICATION Spec
CONSTANTS
  Procs = {p1, p2}
  Bootstraps = {b1, b2, b3}
  ArgLess = {b3}
  EnvLess = {b2}
  Packaged = Packaged
  None = None
INVARIANTS TypeOK Startable OneBootstrap FairUpdateApplies
CHECK_DEADLOCK FALSE
