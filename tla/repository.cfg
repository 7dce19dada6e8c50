SPECIFICATION FairSpec
CONSTANTS
  l1 = l1  l2 = l2  here = here
  c1 = c1  c2 = c2  x = x
  hc1 = hc1  hc2 = hc2  hx = hx
  Launchers = {l1}
  Locations = {here}
  Loc <- OneLoc
  Names = {c1, c2, x}
  Hashes = {hc1, hc2, hx}
  Damaged = Damaged
  NoFile = NoFile
  Bootstraps <- Releases
  Supported <- Releases
  NoDiffs <- BothSettings
  Modes = {"AUTO", "JVM", "FORK", "REFLECT"}
  Systems <- MCSystems
  FaithfulPatches = FALSE
INVARIANTS TypeOK FairAttemptSucceeds
PROPERTIES DiffsAreUsed StartsVerified IntactArtifactsStay
  ImplementsVerifiedLaunch EventuallyStarts
