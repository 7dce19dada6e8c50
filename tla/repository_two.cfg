SPECIFICATION Spec
CONSTANTS
  l1 = l1  l2 = l2  here = here
  c1 = c1  c2 = c2  x = x
  hc1 = hc1  hc2 = hc2  hx = hx
  Launchers = {l1, l2}
  Locations = {here}
  Loc <- TwoLoc
  Names = {c1}
  Hashes = {hc1}
  Damaged = Damaged
  NoFile = NoFile
  Bootstraps <- OneRelease
  Supported <- OneRelease
  NoDiffs <- DiffsOn
  Modes = {"JVM"}
  Systems <- MCSystems
  FaithfulPatches = FALSE
PROPERTY StartsVerified
