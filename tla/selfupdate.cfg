SPECIFICATION Spec
CONSTANTS
  h2 = h2
  h3 = h3
  Procs = {p1}
  Platforms = {"MacOS", "Windows"}
  Recognised = TRUE
  Parts = {exe, jar}
  exe = exe
  jar = jar
  Absent = Absent
  Versions <- MCVersions
  Released <- MCReleased
  Hashes = {h2, h3}
  None = None
  Unreadable = Unreadable
  Feeds <- RolloutFeeds
  Cap = 2
  CliNoUpdate <- Any
  Choices <- Any
  AtomicMove = TRUE
  SaveMayFail = FALSE
  p1 = p1
  p2 = p2
INVARIANTS TypeOK NoUpdatesHonoured RelaunchesWhole UpdatesGoForward
PROPERTY BackoffRespected
