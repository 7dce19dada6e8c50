---------------------------- MODULE JavaInstaller ----------------------------
(***************************************************************************)
(* The Java runtime that the launcher installs when its own is too old:     *)
(* JavaInstaller.init and the use JvmLauncher.getJava makes of the result.  *)
(* Three things on disk belong together: the archive java.zip, the          *)
(* checksum in java_hash.txt and the directory the archive is unpacked in.  *)
(* init trusts the directory when the first two agree with the release its  *)
(* own java_versions.properties names, and never looks at the directory.    *)
(*                                                                          *)
(* A release stands for its version, checksum and link, and for the archive *)
(* that has this checksum.                                                  *)
(***************************************************************************)
EXTENDS Integers

CONSTANTS
  Threads,   \* threads of launchers that are starting a client
  Releases,  \* releases of Java named by successive launchers, as numbers
  Parts,     \* files of a runtime
  Exe,       \* the one getJava looks for: bin/java or bin/java.exe
  Formats,   \* what the links point to: "zip" (Windows), "tar" (macOS, Linux)
  NoFile,
  Damaged    \* content that has the checksum of no release, or no checksum

ASSUME ReleaseAssumption ==
  /\ Releases \subseteq Nat
  /\ Formats \subseteq {"zip", "tar"}
  /\ Exe \in Parts
  /\ {NoFile, Damaged} \cap Releases = {}
  /\ NoFile # Damaged

VARIABLES
  format,    \* of the archives for this platform, which never changes
  weather,   \* "bad": network, disk and process may fail; "fair": they do not
  wanted,    \* the release of the launcher that is installed
  zip,       \* java.zip
  hash,      \* java_hash.txt: the release whose checksum it holds
  jre,       \* jre[r][x]: file x of the directory of release r
  pc,
  release,   \* the release of the running launcher
  seen,      \* localHash
  left,      \* archive entries still to be unpacked
  entry,     \* the one being written
  clear,     \* history: init began in fair weather
  broken     \* history: releases recorded as installed whose reinstallation was
             \* cut off inside a file, and not completed since

env == <<format, weather, wanted>>
disk == <<zip, hash, jre>>
runVars == <<release, seen, left, entry, clear>>
vars == <<env, disk, pc, runVars, broken>>

Points == {"idle", "hash", "check", "connect", "receive", "verify", "unzip",
           "entry", "store", "write", "launch", "started", "noJava"}

-----------------------------------------------------------------------------
Goto(t, x) == pc' = [pc EXCEPT ![t] = x]

\* A read fails, although the file is there.
Unreadable == weather = "bad"

Unpacked(r) == \A x \in Parts : jre[r][x] = "whole"

Init ==
  /\ format \in Formats
  /\ weather \in {"bad", "fair"}
  /\ wanted \in Releases
  /\ zip = NoFile
  /\ hash = NoFile
  /\ jre = [r \in Releases |-> [x \in Parts |-> "absent"]]
  /\ pc = [t \in Threads |-> "idle"]
  /\ release = [t \in Threads |-> wanted]
  /\ seen = [t \in Threads |-> NoFile]
  /\ left = [t \in Threads |-> {}]
  /\ entry = [t \in Threads |-> Exe]
  /\ clear = [t \in Threads |-> FALSE]
  /\ broken = {}

\* launch() finds a Java older than 11 and calls init, whose variables are new.
Begin(t) ==
  /\ pc[t] \in {"idle", "started", "noJava"}
  /\ release' = [release EXCEPT ![t] = wanted]
  /\ clear' = [clear EXCEPT ![t] = weather = "fair"]
  /\ seen' = [seen EXCEPT ![t] = NoFile]
  /\ left' = [left EXCEPT ![t] = {}]
  /\ entry' = [entry EXCEPT ![t] = Exe]
  /\ Goto(t, "hash")
  /\ UNCHANGED <<env, disk, broken>>

\* Mutant of ReadLocalHash: a missing checksum reads as the number 0.
ReadMissingAsZero(t) ==
  /\ pc[t] = "hash"
  /\ seen' = [seen EXCEPT ![t] = IF hash = NoFile THEN 0 ELSE hash]
  /\ Goto(t, "check")
  /\ UNCHANGED <<env, disk, release, left, entry, clear, broken>>

\* readLocalHash: null if the file is missing or empty.
ReadLocalHash(t) ==
  /\ pc[t] = "hash"
  /\ \/ seen' = [seen EXCEPT ![t] = hash]
     \/ Unreadable /\ seen' = [seen EXCEPT ![t] = NoFile]
  /\ Goto(t, "check")
  /\ UNCHANGED <<env, disk, release, left, entry, clear, broken>>

\* Mutant of Check: the archive alone is taken as proof.
CheckZipOnly(t) ==
  /\ pc[t] = "check"
  /\ Goto(t, IF zip = release[t] THEN "launch" ELSE "connect")
  /\ UNCHANGED <<env, disk, runVars, broken>>

\* Keep what is there if the recorded and the actual checksum are both right; an
\* archive that cannot be read counts as wrong.
Check(t) ==
  /\ pc[t] = "check"
  /\ \/ Goto(t, IF seen[t] = release[t] /\ zip = release[t]
                THEN "launch" ELSE "connect")
     \/ Unreadable /\ Goto(t, "connect")
  /\ UNCHANGED <<env, disk, runVars, broken>>

\* The server answers; java.zip is emptied.
Connect(t) ==
  /\ pc[t] = "connect"
  /\ zip' = Damaged
  /\ Goto(t, "receive")
  /\ UNCHANGED <<env, hash, jre, runVars, broken>>

\* The archive arrives.  What another thread writes to the same file at the same
\* time spoils it.
Receive(t) ==
  /\ pc[t] = "receive"
  /\ \/ zip' = release[t]
     \/ /\ \E u \in Threads \ {t} : pc[u] = "receive"
        /\ zip' = Damaged
  /\ Goto(t, "verify")
  /\ UNCHANGED <<env, hash, jre, runVars, broken>>

\* The stream ends early, or brings something else.
ReceiveWrong(t) ==
  /\ pc[t] = "receive"
  /\ weather = "bad"
  /\ zip' = Damaged
  /\ Goto(t, "verify")
  /\ UNCHANGED <<env, hash, jre, runVars, broken>>

\* verifyChecksum in downloadFile.
VerifyDownload(t) ==
  /\ pc[t] = "verify"
  /\ zip = release[t]
  /\ left' = [left EXCEPT ![t] = Parts]
  /\ Goto(t, "unzip")
  /\ UNCHANGED <<env, disk, release, seen, entry, clear, broken>>

\* A wrong checksum: the archive is deleted, which may fail, and init gives up.
RejectDownload(t) ==
  /\ pc[t] = "verify"
  /\ zip # release[t] \/ Unreadable
  /\ \/ zip' = NoFile
     \/ weather = "bad" /\ UNCHANGED zip
  /\ Goto(t, "launch")
  /\ UNCHANGED <<env, hash, jre, runVars, broken>>

\* unzip: the file of the next entry is created, empty ...
OpenEntry(t) ==
  /\ pc[t] = "unzip"
  /\ format = "zip"
  /\ zip = release[t]
  /\ \E x \in left[t] :
       /\ entry' = [entry EXCEPT ![t] = x]
       /\ jre' = [jre EXCEPT ![release[t]][x] = "part"]
  /\ Goto(t, "entry")
  /\ UNCHANGED <<env, zip, hash, release, seen, left, clear, broken>>

\* ... and filled.
WriteEntry(t) ==
  /\ pc[t] = "entry"
  /\ zip = release[t]
  /\ jre' = [jre EXCEPT ![release[t]][entry[t]] = "whole"]
  /\ left' = [left EXCEPT ![t] = @ \ {entry[t]}]
  /\ Goto(t, "unzip")
  /\ UNCHANGED <<env, zip, hash, release, seen, entry, clear, broken>>

\* No entry follows: all are unpacked, or what is read is no zip file.
UnzipDone(t) ==
  /\ pc[t] = "unzip"
  /\ left[t] = {} \/ format # "zip" \/ zip # release[t]
  /\ Goto(t, "store")
  /\ UNCHANGED <<env, disk, runVars, broken>>

\* storeLocalHash: java_hash.txt is emptied and then written.
EmptyHashFile(t) ==
  /\ pc[t] = "store"
  /\ hash' = Damaged
  /\ Goto(t, "write")
  /\ UNCHANGED <<env, zip, jre, runVars, broken>>

StoreLocalHash(t) ==
  /\ pc[t] = "write"
  /\ hash' = release[t]
  /\ broken' = broken \ {release[t]}
  /\ Goto(t, "launch")
  /\ UNCHANGED <<env, zip, jre, runVars>>

\* What is written ends inside a file of a release that is recorded as installed.
CutOff(t) ==
  broken' = broken \cup {r \in Releases : pc[t] = "entry" /\ release[t] = r /\ hash = r}

\* Mutant of GiveUp: the checksum is stored although something failed.
GiveUpButStore(t) ==
  /\ pc[t] \in {"connect", "receive", "unzip", "entry", "store", "write"}
  /\ \/ weather = "bad"
     \/ pc[t] = "entry" /\ zip # release[t]
  /\ hash' = release[t]
  /\ CutOff(t)
  /\ Goto(t, "launch")
  /\ UNCHANGED <<env, zip, jre, runVars>>

\* An IOException is printed, and init returns as if nothing had happened.
GiveUp(t) ==
  /\ pc[t] \in {"connect", "receive", "unzip", "entry", "store", "write"}
  /\ \/ weather = "bad"
     \/ pc[t] = "entry" /\ zip # release[t]
  /\ CutOff(t)
  /\ Goto(t, "launch")
  /\ UNCHANGED <<env, disk, runVars>>

\* getJava: the executable exists, and the client is started with it.
StartClient(t) ==
  /\ pc[t] = "launch"
  /\ jre[release[t]][Exe] # "absent"
  /\ Goto(t, "started")
  /\ UNCHANGED <<env, disk, runVars, broken>>

\* FileNotFoundException, logged; launch() returns.
NoJava(t) ==
  /\ pc[t] = "launch"
  /\ jre[release[t]][Exe] = "absent"
  /\ Goto(t, "noJava")
  /\ UNCHANGED <<env, disk, runVars, broken>>

-----------------------------------------------------------------------------
Crash(t) ==
  /\ weather = "bad"
  /\ pc[t] \notin {"idle", "started", "noJava"}
  /\ CutOff(t)
  /\ Goto(t, "idle")
  /\ UNCHANGED <<env, disk, runVars>>

\* Another launcher is installed, newer or older, with its own
\* java_versions.properties.
ReplaceLauncher ==
  /\ \A t \in Threads : pc[t] \in {"idle", "started", "noJava"}
  /\ wanted' \in Releases \ {wanted}
  /\ UNCHANGED <<format, weather, disk, pc, runVars, broken>>

Settle ==
  /\ weather = "bad"
  /\ weather' = "fair"
  /\ UNCHANGED <<format, wanted, disk, pc, runVars, broken>>

Proceed(t) ==
  \/ ReadLocalHash(t) \/ Check(t)
  \/ Connect(t) \/ Receive(t) \/ ReceiveWrong(t)
  \/ VerifyDownload(t) \/ RejectDownload(t)
  \/ OpenEntry(t) \/ WriteEntry(t) \/ UnzipDone(t)
  \/ EmptyHashFile(t) \/ StoreLocalHash(t) \/ GiveUp(t)
  \/ StartClient(t) \/ NoJava(t)

Next ==
  \/ \E t \in Threads : Begin(t) \/ Proceed(t) \/ Crash(t)
  \/ ReplaceLauncher \/ Settle

Spec == Init /\ [][Next]_vars

-----------------------------------------------------------------------------
TypeOK ==
  /\ format \in Formats
  /\ weather \in {"bad", "fair"}
  /\ wanted \in Releases
  /\ zip \in Releases \cup {NoFile, Damaged}
  /\ hash \in Releases \cup {NoFile, Damaged}
  /\ jre \in [Releases -> [Parts -> {"absent", "part", "whole"}]]
  /\ pc \in [Threads -> Points]
  /\ release \in [Threads -> Releases]
  /\ seen \in [Threads -> Releases \cup {NoFile, Damaged}]
  /\ left \in [Threads -> SUBSET Parts]
  /\ entry \in [Threads -> Parts]
  /\ clear \in [Threads -> BOOLEAN]
  /\ broken \in SUBSET Releases

AtRest == \A t \in Threads : pc[t] \in {"idle", "launch", "started", "noJava"}

\* "Check if Java is already downloaded and hash matches": whenever no thread is
\* in init, an archive and a checksum that agree vouch for a directory in which
\* everything is unpacked.  The code does not keep to it: init, which never looks
\* into the directory, leaves the old checksum in java_hash.txt while it replaces
\* the archive and the directory.  TLC refutes this; no run states it.
TrustedIsUnpacked ==
  format = "zip" /\ AtRest =>
    \A r \in Releases : hash = r /\ zip = r => Unpacked(r)

\* What can be relied on instead.  A first installation that was cut short, at
\* whatever point and however often, is never recorded; a recorded runtime is torn
\* only if the same release was being unpacked once more (because a file could not
\* be read, the archive was lost, or another launcher had replaced it in between)
\* and that was cut off inside a file.
RecordedIsUnpacked ==
  format = "zip" /\ AtRest =>
    \A r \in Releases : hash = r => Unpacked(r) \/ r \in broken

\* A launch that begins in fair weather starts the client, and on a complete
\* runtime unless such a reinstallation went before: whatever else earlier launches
\* left behind is found out and replaced.
FairLaunchStarts ==
  \A t \in Threads :
    format = "zip" /\ clear[t] =>
      /\ pc[t] # "noJava"
      /\ pc[t] = "started" => Unpacked(release[t]) \/ release[t] \in broken
=============================================================================
