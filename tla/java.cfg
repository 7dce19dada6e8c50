SPECIFICATION Spec
CONSTANTS
  Threads = {t1}
  Releases = {1, 2}
  Parts = {java, lib, modules}
  Exe = java
  Formats = {"zip", "tar"}
  NoFile = NoFile
  Damaged = Damaged
INVARIANTS TypeOK RecordedIsUnpacked FairLaunchStarts
