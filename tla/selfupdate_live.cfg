SPECIFICATION FairSpec
CONSTANTS
  h2 = h2
  h3 = h3
  Procs = {p1}
  Platforms = {"MacOS", "Windows"}
  Recognised = TRUE
  Parts = {exe, jar}
  exe = exe
  jar = jar
  Absent = Absent
  Versions <- MCVersions
  Released <- MCReleased
  Hashes = {h2, h3}
  None = None
  Unreadable = Unreadable
  Feeds <- AllFeeds
  Cap = 1
  CliNoUpdate <- Off
  Choices <- NoEditor
  AtomicMove = FALSE
  SaveMayFail = TRUE
  p1 = p1
  p2 = p2
PROPERTIES EventuallyUpdated LaunchReachesClient
