------------------------------ MODULE Repository ------------------------------
(***************************************************************************)
(* The artifact repository of the launcher: what Launcher.launch does with  *)
(* the directory repository/<type>/ between fetching a bootstrap and        *)
(* starting the client.  One launch attempt runs                            *)
(*                                                                          *)
(*   getBootstrap -> clean -> download (scan, then patch or fetch each      *)
(*   outdated artifact) -> verifyJarHashes -> start the client              *)
(*                                                                          *)
(* The directory outlives the attempt: the process may die between any two  *)
(* steps, and the next attempt finds the files as they were left.  Several  *)
(* attempts may run at once (a second process, or a second click on a       *)
(* button of the selection screen, each of which starts a thread).          *)
(*                                                                          *)
(* Data abstraction.  A file is represented by the SHA-256 of its content.  *)
(* Hashes holds the hashes that bootstraps mention; Damaged is any other    *)
(* content: an empty, truncated or altered file.                            *)
(***************************************************************************)
EXTENDS Integers, Sequences

CONSTANTS
  Launchers,   \* launch attempts that may run at the same time
  Locations,   \* directories repository/<type>/
  Loc,         \* the directory each launcher works in
  Names,       \* file names
  Hashes,      \* the hashes named by bootstraps
  Damaged,     \* content whose hash no bootstrap names
  NoFile,      \* the file does not exist
  Bootstraps,  \* the artifact lists the server may serve, filtered for this platform
  Supported,   \* those for which jvmOutdated returns false
  NoDiffs,     \* values settings.isNodiffs() may take
  Modes,       \* values settings.launchMode may take
  Systems,     \* what the launcher may run on
  FaithfulPatches  \* whether applyDelta on the right source gives the right content

Content == Hashes \cup {Damaged}

Diffs == [from : Names, fromHash : Hashes, size : Nat]

Artifacts == [name : Names, hash : Hashes, size : Nat, diffs : Seq(Diffs)]

\* The operating system, whether APPIMAGE is set, what sun.java.command names (the
\* executable of packr, something else or nothing), and whether there is a java
\* executable in java.home or where JavaInstaller puts it.
System == [os : {"Windows", "MacOS", "Linux", "Other"}, appImage : BOOLEAN,
           command : {"packr", "other", "none"}, java : BOOLEAN]

ASSUME LocAssumption == Loc \in [Launchers -> Locations]

ASSUME ContentAssumption ==
  /\ Damaged \notin Hashes
  /\ NoFile \notin Content

ASSUME BootstrapAssumption ==
  /\ Bootstraps \subseteq Seq(Artifacts)
  /\ Supported \subseteq Bootstraps
  /\ NoDiffs \subseteq BOOLEAN
  /\ Modes \subseteq {"AUTO", "JVM", "FORK", "REFLECT"}
  /\ Systems \subseteq System
  /\ FaithfulPatches \in BOOLEAN

VARIABLES
  system,      \* what this machine is
  weather,     \* "bad": network, disk and process may fail; "fair": they do not
  files,       \* files[d][n]: content of file n of directory d
  pc,          \* where each attempt stands
  plan,        \* the artifacts of the bootstrap it fetched
  nodiff,      \* its nodiff setting
  mode,        \* its launch mode setting
  stale,       \* clean: files still to be deleted
  at,          \* index of the artifact a loop is at
  todo,        \* toDownload, each with the index of its diff, 0 for none
  downloaded,  \* bytes downloaded so far
  total,       \* totalDownloadBytes
  clear,       \* history: the attempt began in fair weather
  patchable    \* history: artifacts that had an intact diff source when it began

repoVars == <<system, weather, files>>
settings == <<nodiff, mode>>
loopVars == <<plan, settings, stale, at, todo>>
sizeVars == <<downloaded, total>>
history  == <<clear, patchable>>
vars == <<repoVars, pc, loopVars, sizeVars, history>>

Points == {"idle", "boot", "list", "clean", "scan", "download", "patch",
           "apply", "full", "fetch", "verify", "start", "started", "failed",
           "ended"}

\* Where no attempt is under way: "ended" is an end without a client and without
\* a message.
Over == {"idle", "started", "failed", "ended"}

Work ==
  {w \in [artifact : Artifacts, diff : Nat] : w.diff <= Len(w.artifact.diffs)}

-----------------------------------------------------------------------------
\* Shorthands

Here(l) == files[Loc[l]]

\* The file the loop of l is working on.
Item(l) == todo[l][at[l]]

Goto(l, p) == pc' = [pc EXCEPT ![l] = p]

Write(l, n, c) == files' = [files EXCEPT ![Loc[l]][n] = c]

Advance(l) == at' = [at EXCEPT ![l] = @ + 1]

\* Mutant of Restart: loops begin one before the first artifact.
RestartTooEarly(l) == at' = [at EXCEPT ![l] = 0]

Restart(l) == at' = [at EXCEPT ![l] = 1]

\* Diff k of artifact a can be applied to the files of directory f.
Usable(f, a, k) == f[a.diffs[k].from] = a.diffs[k].fromHash

Patchable(f, b) ==
  {a \in {b[j] : j \in DOMAIN b} : \E k \in DOMAIN a.diffs : Usable(f, a, k)}

\* Mutant of Wanted: the sources of diffs are deleted as well.
WantedArtifactsOnly(b) == {b[j].name : j \in DOMAIN b}

\* File names clean() keeps: the artifacts and the sources of their diffs.
Wanted(b) ==
  UNION {{b[j].name} \cup {b[j].diffs[k].from : k \in DOMAIN b[j].diffs} :
         j \in DOMAIN b}

-----------------------------------------------------------------------------
Init ==
  /\ system \in Systems
  /\ weather \in {"bad", "fair"}
  /\ files = [d \in Locations |-> [n \in Names |-> NoFile]]
  /\ pc = [l \in Launchers |-> "idle"]
  /\ plan = [l \in Launchers |-> << >>]
  /\ nodiff = [l \in Launchers |-> FALSE]
  /\ mode = [l \in Launchers |-> "AUTO"]
  /\ stale = [l \in Launchers |-> {}]
  /\ at = [l \in Launchers |-> 1]
  /\ todo = [l \in Launchers |-> << >>]
  /\ downloaded = [l \in Launchers |-> 0]
  /\ total = [l \in Launchers |-> 0]
  /\ clear = [l \in Launchers |-> FALSE]
  /\ patchable = [l \in Launchers |-> {}]

\* The variables of launch() are new in every attempt.
Fresh(l) ==
  /\ plan' = [plan EXCEPT ![l] = << >>] /\ todo' = [todo EXCEPT ![l] = << >>]
  /\ stale' = [stale EXCEPT ![l] = {}] /\ at' = [at EXCEPT ![l] = 1]
  /\ downloaded' = [downloaded EXCEPT ![l] = 0] /\ total' = [total EXCEPT ![l] = 0]
  /\ patchable' = [patchable EXCEPT ![l] = {}]

\* The user starts the launcher, again if it ended, or clicks on a client.
Launch(l) ==
  /\ pc[l] \in Over
  /\ Goto(l, "boot")
  /\ \E nd \in NoDiffs : nodiff' = [nodiff EXCEPT ![l] = nd]
  /\ \E m \in Modes : mode' = [mode EXCEPT ![l] = m]
  /\ clear' = [clear EXCEPT ![l] = weather = "fair"]
  /\ Fresh(l)
  /\ UNCHANGED repoVars

\* getBootstrap returns a signed bootstrap this launcher may use.
FetchBootstrap(l) ==
  /\ pc[l] = "boot"
  /\ \E b \in Supported :
       /\ plan' = [plan EXCEPT ![l] = b]
       /\ patchable' = [patchable EXCEPT ![l] = Patchable(Here(l), b)]
  /\ Goto(l, "list")
  /\ UNCHANGED <<repoVars, settings, stale, at, todo, sizeVars, clear>>

\* The bootstrap cannot be fetched or its signature is wrong, the directory
\* cannot be made, or the bootstrap asks for a newer launcher or Java.
BootstrapFails(l) ==
  /\ pc[l] = "boot"
  /\ weather = "bad" \/ Supported # Bootstraps
  /\ Goto(l, "failed")
  /\ UNCHANGED <<repoVars, loopVars, sizeVars, history>>

\* clean(): list the directory and pick what no artifact or diff needs.
ListFiles(l) ==
  /\ pc[l] = "list"
  /\ stale' = [stale EXCEPT ![l] =
       {n \in Names : Here(l)[n] # NoFile /\ n \notin Wanted(plan[l])}]
  /\ Goto(l, "clean")
  /\ UNCHANGED <<repoVars, plan, settings, at, todo, sizeVars, history>>

\* clean(): delete one of them; a failed deletion is only logged.
DeleteStale(l) ==
  /\ pc[l] = "clean"
  /\ \E n \in stale[l] :
       /\ stale' = [stale EXCEPT ![l] = @ \ {n}]
       /\ \/ Write(l, n, NoFile)
          \/ weather = "bad" /\ UNCHANGED files
  /\ UNCHANGED <<system, weather, pc, plan, settings, at, todo, sizeVars, history>>

CleanDone(l) ==
  /\ pc[l] = "clean"
  /\ stale[l] = {}
  /\ Goto(l, "scan")
  /\ Restart(l)
  /\ todo' = [todo EXCEPT ![l] = << >>]
  /\ total' = [total EXCEPT ![l] = 0]
  /\ UNCHANGED <<repoVars, plan, settings, stale, downloaded, history>>

\* download(), first loop.  Queue artifact a with the last of its diffs whose
\* source, among the readable ones, has the right hash.
Queue(l, f, a, readable) ==
  \E k \in 0 .. Len(a.diffs) :
    /\ k # 0 => ~nodiff[l] /\ k \in readable /\ Usable(f, a, k)
    /\ \A m \in (k + 1) .. Len(a.diffs) :
         ~nodiff[l] => m \notin readable \/ ~Usable(f, a, m)
    /\ todo' = [todo EXCEPT ![l] = Append(@, [artifact |-> a, diff |-> k])]
    /\ total' = [total EXCEPT ![l] =
                   @ + IF k = 0 THEN a.size ELSE a.diffs[k].size]

\* Mutant of Scan: a file that exists is taken to be up to date.
ScanExistence(l) ==
  /\ pc[l] = "scan"
  /\ at[l] <= Len(plan[l])
  /\ LET a == plan[l][at[l]]
     IN  IF Here(l)[a.name] # NoFile
         THEN UNCHANGED <<todo, total>>
         ELSE Queue(l, Here(l), a, DOMAIN a.diffs)
  /\ Advance(l)
  /\ UNCHANGED <<repoVars, pc, plan, settings, stale, downloaded, history>>

\* Mutant of Scan: every artifact is queued, up to date or not.
ScanQueuesAll(l) ==
  /\ pc[l] = "scan"
  /\ at[l] <= Len(plan[l])
  /\ LET a == plan[l][at[l]] IN Queue(l, Here(l), a, DOMAIN a.diffs)
  /\ Advance(l)
  /\ UNCHANGED <<repoVars, pc, plan, settings, stale, downloaded, history>>

\* download(), first loop: hash the artifact's file, skip it when up to date.
Scan(l) ==
  /\ pc[l] = "scan"
  /\ at[l] <= Len(plan[l])
  /\ LET a == plan[l][at[l]]
     IN  IF Here(l)[a.name] = a.hash
         THEN UNCHANGED <<todo, total>>
         ELSE \E readable \in SUBSET DOMAIN a.diffs :
                /\ weather = "fair" => readable = DOMAIN a.diffs
                /\ Queue(l, Here(l), a, readable)
  /\ Advance(l)
  /\ UNCHANGED <<repoVars, pc, plan, settings, stale, downloaded, history>>

\* download(), first loop: the file cannot be read.  It is deleted, which may
\* fail too, and queued.
ScanUnreadable(l) ==
  /\ pc[l] = "scan"
  /\ weather = "bad"
  /\ at[l] <= Len(plan[l])
  /\ LET a == plan[l][at[l]]
     IN  /\ Here(l)[a.name] # NoFile
         /\ Write(l, a.name, NoFile) \/ UNCHANGED files
         /\ \E readable \in SUBSET DOMAIN a.diffs :
              Queue(l, files'[Loc[l]], a, readable)
  /\ Advance(l)
  /\ UNCHANGED <<system, weather, pc, plan, settings, stale, downloaded, history>>

ScanDone(l) ==
  /\ pc[l] = "scan"
  /\ at[l] > Len(plan[l])
  /\ Goto(l, "download")
  /\ Restart(l)
  /\ downloaded' = [downloaded EXCEPT ![l] = 0]
  /\ UNCHANGED <<repoVars, plan, settings, stale, todo, total, history>>

-----------------------------------------------------------------------------
\* download(), second loop.

\* "Adjust the download size for the difference", then take the whole artifact.
FallBack(l) ==
  LET a == Item(l).artifact
  IN  /\ total' = [total EXCEPT ![l] = @ + a.size - a.diffs[Item(l).diff].size]
      /\ Goto(l, "full")

\* The diff arrives in memory, with the hash the bootstrap gives for it.
FetchPatch(l) ==
  /\ pc[l] = "download"
  /\ at[l] <= Len(todo[l])
  /\ Item(l).diff # 0
  /\ downloaded' = [downloaded EXCEPT ![l] =
                      @ + Item(l).artifact.diffs[Item(l).diff].size]
  /\ Goto(l, "patch")
  /\ UNCHANGED <<repoVars, loopVars, total, history>>

\* The download of the diff fails, or its hash is wrong.
FetchPatchFails(l) ==
  /\ pc[l] = "download"
  /\ weather = "bad"
  /\ at[l] <= Len(todo[l])
  /\ Item(l).diff # 0
  /\ FallBack(l)
  /\ UNCHANGED <<repoVars, loopVars, downloaded, history>>

\* Files.newOutputStream(dest) empties the file that will hold the result.
OpenForPatch(l) ==
  /\ pc[l] = "patch"
  /\ Write(l, Item(l).artifact.name, Damaged)
  /\ Goto(l, "apply")
  /\ UNCHANGED <<system, weather, loopVars, sizeVars, history>>

OpenForPatchFails(l) ==
  /\ pc[l] = "patch"
  /\ weather = "bad"
  /\ FallBack(l)
  /\ UNCHANGED <<repoVars, loopVars, downloaded, history>>

\* Another attempt has emptied the same file and is still filling it.
Overlap(l) ==
  \E m \in Launchers \ {l} :
    /\ Loc[m] = Loc[l]
    /\ pc[m] \in {"apply", "fetch"}
    /\ Item(m).artifact.name = Item(l).artifact.name

\* applyDelta reads the diff's source as it is now, and writes the result.
ApplyPatch(l) ==
  /\ pc[l] = "apply"
  /\ LET a == Item(l).artifact
     IN  /\ Usable(Here(l), a, Item(l).diff)
         /\ \/ Write(l, a.name, a.hash)
            \/ Overlap(l) /\ Write(l, a.name, Damaged)
  /\ Goto(l, "download")
  /\ Advance(l)
  /\ UNCHANGED <<system, weather, plan, settings, stale, todo, sizeVars, history>>

\* Mutant of ApplyPatchFails: a patched file with the wrong hash is kept.
ApplyPatchKeepsResult(l) ==
  /\ pc[l] = "apply"
  /\ ~FaithfulPatches
  /\ Goto(l, "download")
  /\ Advance(l)
  /\ UNCHANGED <<repoVars, plan, settings, stale, todo, sizeVars, history>>

\* The source is no longer what it was, an exception, or a result with the
\* wrong hash.
ApplyPatchFails(l) ==
  /\ pc[l] = "apply"
  /\ \/ weather = "bad"
     \/ ~FaithfulPatches
     \/ ~Usable(Here(l), Item(l).artifact, Item(l).diff)
  /\ FallBack(l)
  /\ UNCHANGED <<repoVars, loopVars, downloaded, history>>

\* Files.newOutputStream(dest), before the connection is opened.
OpenForFetch(l) ==
  /\ \/ pc[l] = "full"
     \/ pc[l] = "download" /\ at[l] <= Len(todo[l]) /\ Item(l).diff = 0
  /\ Write(l, Item(l).artifact.name, Damaged)
  /\ Goto(l, "fetch")
  /\ UNCHANGED <<system, weather, loopVars, sizeVars, history>>

OpenForFetchFails(l) ==
  /\ \/ pc[l] = "full"
     \/ pc[l] = "download" /\ at[l] <= Len(todo[l]) /\ Item(l).diff = 0
  /\ weather = "bad"
  /\ Goto(l, "failed")
  /\ UNCHANGED <<repoVars, loopVars, sizeVars, history>>

\* The whole artifact arrives.  Only the bytes received are hashed, so that a
\* file which another attempt is writing too may still be incomplete.
FetchArtifact(l) ==
  /\ pc[l] = "fetch"
  /\ \/ Write(l, Item(l).artifact.name, Item(l).artifact.hash)
     \/ Overlap(l) /\ Write(l, Item(l).artifact.name, Damaged)
  /\ downloaded' = [downloaded EXCEPT ![l] = @ + Item(l).artifact.size]
  /\ Goto(l, "download")
  /\ Advance(l)
  /\ UNCHANGED <<system, weather, plan, settings, stale, todo, total, history>>

\* The server sends something else: VerificationException, only logged.
FetchWrongArtifact(l) ==
  /\ pc[l] = "fetch"
  /\ weather = "bad"
  /\ \E c \in Content \ {Item(l).artifact.hash} :
       Write(l, Item(l).artifact.name, c)
  /\ Goto(l, "download")
  /\ Advance(l)
  /\ UNCHANGED <<system, weather, plan, settings, stale, todo, sizeVars, history>>

\* IOException: what arrived so far stays in the file and the attempt ends.
FetchFails(l) ==
  /\ pc[l] = "fetch"
  /\ weather = "bad"
  /\ Goto(l, "failed")
  /\ UNCHANGED <<repoVars, loopVars, sizeVars, history>>

DownloadDone(l) ==
  /\ pc[l] = "download"
  /\ at[l] > Len(todo[l])
  /\ Goto(l, "verify")
  /\ Restart(l)
  /\ UNCHANGED <<repoVars, plan, settings, stale, todo, sizeVars, history>>

-----------------------------------------------------------------------------
\* verifyJarHashes(), one artifact at a time.

Verify(l) ==
  /\ pc[l] = "verify"
  /\ at[l] <= Len(plan[l])
  /\ LET a == plan[l][at[l]] IN Here(l)[a.name] = a.hash
  /\ Advance(l)
  /\ UNCHANGED <<repoVars, pc, plan, settings, stale, todo, sizeVars, history>>

\* Mutant of VerifyFails: the VerificationException is only logged.
VerifyFailureLogged(l) ==
  /\ pc[l] = "verify"
  /\ at[l] <= Len(plan[l])
  /\ Goto(l, "start")
  /\ UNCHANGED <<repoVars, loopVars, sizeVars, history>>

VerifyFails(l) ==
  /\ pc[l] = "verify"
  /\ at[l] <= Len(plan[l])
  /\ LET a == plan[l][at[l]]
     IN  Here(l)[a.name] # a.hash \/ weather = "bad"
  /\ Goto(l, "failed")
  /\ UNCHANGED <<repoVars, loopVars, sizeVars, history>>

\* Mutant of VerifyDone: the last artifact is not hashed.
VerifyAllButLast(l) ==
  /\ pc[l] = "verify"
  /\ at[l] >= Len(plan[l])
  /\ Goto(l, "start")
  /\ UNCHANGED <<repoVars, loopVars, sizeVars, history>>

VerifyDone(l) ==
  /\ pc[l] = "verify"
  /\ at[l] > Len(plan[l])
  /\ Goto(l, "start")
  /\ UNCHANGED <<repoVars, loopVars, sizeVars, history>>

CanForkLaunch ==
  \/ system.os = "Linux" /\ system.appImage
  \/ system.os \in {"Windows", "MacOS"} /\ system.command = "packr"

\* The launcher that launch() chooses.
Way(m) ==
  CASE m = "REFLECT" -> "REFLECT"
    [] m = "FORK" \/ (m = "AUTO" /\ CanForkLaunch) -> "FORK"
    [] OTHER -> "JVM"

\* A client can be started at all: by JvmLauncher, which needs a java executable
\* outside of an AppImage.
StartsClient(m) == Way(m) = "JVM" /\ ~system.appImage /\ system.java

Start(l) ==
  /\ pc[l] = "start"
  /\ StartsClient(mode[l])
  /\ Goto(l, "started")
  /\ UNCHANGED <<repoVars, loopVars, sizeVars, history>>

\* The process cannot be created; the JVM launcher throws in an AppImage, the fork
\* launcher if sun.java.command is missing or names no program, or without artifacts.
StartFails(l) ==
  /\ pc[l] = "start"
  /\ \/ weather = "bad"
     \/ Way(mode[l]) = "JVM" /\ system.appImage
     \/ Way(mode[l]) = "FORK" /\ (system.command # "packr" \/ plan[l] = << >>)
  /\ Goto(l, "failed")
  /\ UNCHANGED <<repoVars, loopVars, sizeVars, history>>

\* launch() returns and no client runs: in REFLECT mode the type asked for is "",
\* which no client has; the process that FORK mode creates is refused by packr (see
\* NativeLauncher); without a java executable JvmLauncher writes to the log.
StartsNothing(l) ==
  /\ pc[l] = "start"
  /\ \/ Way(mode[l]) = "REFLECT"
     \/ Way(mode[l]) = "FORK" /\ system.command # "none" /\ plan[l] # << >>
     \/ Way(mode[l]) = "JVM" /\ ~system.appImage /\ (~system.java \/ weather = "bad")
  /\ Goto(l, "ended")
  /\ UNCHANGED <<repoVars, loopVars, sizeVars, history>>

-----------------------------------------------------------------------------
\* The environment.

\* The process is killed; only the files survive.
Crash(l) ==
  /\ weather = "bad"
  /\ pc[l] \notin Over
  /\ Goto(l, "idle")
  /\ UNCHANGED <<repoVars, loopVars, sizeVars, history>>

\* The network, the disk and the machine work from now on.
Settle ==
  /\ weather = "bad"
  /\ weather' = "fair"
  /\ UNCHANGED <<system, files, pc, loopVars, sizeVars, history>>

\* The steps launch() takes by itself.
Proceed(l) ==
  \/ FetchBootstrap(l) \/ BootstrapFails(l)
  \/ ListFiles(l) \/ DeleteStale(l) \/ CleanDone(l)
  \/ Scan(l) \/ ScanUnreadable(l) \/ ScanDone(l)
  \/ FetchPatch(l) \/ FetchPatchFails(l)
  \/ OpenForPatch(l) \/ OpenForPatchFails(l)
  \/ ApplyPatch(l) \/ ApplyPatchFails(l)
  \/ OpenForFetch(l) \/ OpenForFetchFails(l)
  \/ FetchArtifact(l) \/ FetchWrongArtifact(l) \/ FetchFails(l)
  \/ DownloadDone(l)
  \/ Verify(l) \/ VerifyFails(l) \/ VerifyDone(l)
  \/ Start(l) \/ StartFails(l) \/ StartsNothing(l)

Next ==
  \/ \E l \in Launchers : Launch(l) \/ Proceed(l) \/ Crash(l)
  \/ Settle

Spec == Init /\ [][Next]_vars

\* A thread that can run does; the user tries again after a failure; and
\* things that fail do not fail for ever.  The connections of download() have no
\* timeout (Launcher.java:957-973): that a server which answers goes on to the end
\* is assumed of the network.
FairSpec ==
  /\ Spec
  /\ \A l \in Launchers : WF_vars(Proceed(l)) /\ WF_vars(Launch(l))
  /\ WF_vars(Settle)

-----------------------------------------------------------------------------
TypeOK ==
  /\ system \in System
  /\ weather \in {"bad", "fair"}
  /\ files \in [Locations -> [Names -> Content \cup {NoFile}]]
  /\ pc \in [Launchers -> Points]
  /\ plan \in [Launchers -> Bootstraps \cup {<< >>}]
  /\ nodiff \in [Launchers -> BOOLEAN]
  /\ mode \in [Launchers -> {"AUTO", "JVM", "FORK", "REFLECT"}]
  /\ stale \in [Launchers -> SUBSET Names]
  /\ at \in [Launchers -> Nat \ {0}]
  /\ todo \in [Launchers -> Seq(Work)]
  /\ downloaded \in [Launchers -> Int]
  /\ total \in [Launchers -> Int]
  /\ clear \in [Launchers -> BOOLEAN]
  /\ patchable \in [Launchers -> SUBSET Artifacts]

\* No two attempts work in the same directory at the same time.
Exclusive == \A l, m \in Launchers : Loc[l] = Loc[m] => l = m

\* No bootstrap lists two artifacts under one file name, and this launcher may
\* use every bootstrap the server has.
WellFormed ==
  /\ Supported = Bootstraps
  /\ \A b \in Bootstraps : \A i, j \in DOMAIN b : b[i].name = b[j].name => i = j

\* A diff whose source is itself a file of the bootstrap starts from that file as
\* the bootstrap has it, not from an older one under the same name.
SourcesAgree ==
  \A b \in Bootstraps : \A i, j \in DOMAIN b : \A k \in DOMAIN b[i].diffs :
    b[i].diffs[k].from = b[j].name => b[i].diffs[k].fromHash = b[j].hash

\* Artifacts 1 .. n of l's bootstrap are on disk with the expected hash.
IntactUpTo(l, n) ==
  \A j \in 1 .. Len(plan[l]) :
    j <= n => Here(l)[plan[l][j].name] = plan[l][j].hash

Intact(l) == IntactUpTo(l, Len(plan[l]))

\* The client is only ever started on files that all have, at that moment, the
\* hashes of the signed bootstrap, whatever was lost, damaged or left over by
\* earlier attempts (Launcher.launch, verifyJarHashes).
StartsVerified ==
  [][\A l \in Launchers : pc[l] = "start" /\ pc'[l] = "started" => Intact(l)]_vars

\* An attempt that begins in fair weather ends without a client only where its
\* launch mode has none to start, and even then all files are those of the
\* bootstrap: outdated files, files cut short by an earlier crash, and diffs that
\* cannot be applied or give the wrong result are all repaired by download()
\* itself, so that verifyJarHashes has nothing to complain about.
FairAttemptSucceeds ==
  \A l \in Launchers :
    clear[l] /\ pc[l] \in {"failed", "ended"} => ~StartsClient(mode[l]) /\ Intact(l)

\* An attempt that begins in fair weather writes no artifact that is already
\* right, be it from before an earlier attempt was cut short: no work is lost.
IntactArtifactsStay ==
  [][\A l \in Launchers :
       clear[l] /\ pc[l] \notin Over \cup {"boot"} =>
         \A j \in DOMAIN plan[l] :
           Here(l)[plan[l][j].name] = plan[l][j].hash =>
             files'[Loc[l]][plan[l][j].name] = plan[l][j].hash]_vars

\* "Keep around the old files which diffs are from": in an attempt that begins
\* in fair weather, an artifact with an intact diff source is fetched whole only
\* after a diff was really applied to that source and gave the wrong result:
\* neither clean() nor an earlier download takes the source away.
DiffsAreUsed ==
  [][\A l \in Launchers :
       /\ clear[l] /\ ~nodiff[l]
       /\ pc[l] \notin {"full", "fetch"} /\ pc'[l] \in {"full", "fetch"}
       /\ Item(l).artifact \in patchable[l]
       => /\ pc[l] = "apply"
          /\ Usable(Here(l), Item(l).artifact, Item(l).diff)]_vars

\* What an observer of the launch sees of an attempt.
SessionAt(p) ==
  CASE p \in {"idle", "failed", "ended"} -> "off"
    [] p = "started" -> "client"
    [] OTHER -> "launching"

Session == [l \in Launchers |-> SessionAt(pc[l])]

Abstract == INSTANCE VerifiedLaunch WITH session <- Session

\* The whole pipeline implements VerifiedLaunch: only an attempt that is under
\* way writes, only in its own directory, and the client is started on the files
\* of one bootstrap or not at all, whatever failed or was killed in between.
ImplementsVerifiedLaunch == Abstract!Spec

\* While the client runs its files stay those of the bootstrap: nothing of the
\* attempt that started it is still writing.
ClientsKeepGenuineFiles == Abstract!ClientsKeepGenuineFiles

\* However often the launcher was interrupted before, once nothing fails any
\* more the client is started, by a user who does not go on choosing a launch mode
\* that has no client to start.
EventuallyStarts ==
  \A l \in Launchers :
    <>[]StartsClient(mode[l]) => (weather = "fair" ~> pc[l] = "started")
=============================================================================
