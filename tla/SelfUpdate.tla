------------------------------ MODULE SelfUpdate ------------------------------
(***************************************************************************)
(* The launcher updating itself (Updater), the settings file in which it    *)
(* records its attempts (LauncherSettings) and the configuration window     *)
(* that rewrites the same file (ConfigurationFrame).  A process is started  *)
(* as a launcher or, with --configure, as an editor of the settings:        *)
(*                                                                          *)
(*   launcher: boot -> load -> save -> download -> mount -> delete -> copy  *)
(*             -> relaunch (macOS) or -> install (Windows); client at the   *)
(*             end, or as soon as there is nothing to update                *)
(*   editor:   form -> save                                                 *)
(*                                                                          *)
(* Time is counted in hours since an event, up to Long: what the back-off   *)
(* compares.  The bundle is a set of files (Parts), each of some version;   *)
(* on macOS settings.json lies inside the bundle.                           *)
(***************************************************************************)
EXTENDS VersionOrder

CONSTANTS
  Procs,        \* launcher processes
  Platforms,    \* "MacOS", "Windows" or both
  Recognised,   \* Updater finds that it runs from an installation it knows
  Parts,        \* the files of the installed application
  Absent,       \* a part that is not there
  Versions,     \* versions of the launcher
  Released,     \* the place of each version in the order of their release
  Hashes,       \* hashes of update images
  None,         \* no hash, no update
  Unreadable,   \* settings.json does not exist or holds part of a JSON text
  Feeds,        \* update lists the bootstrap may carry, filtered for this platform
  Cap,          \* the back-off stops growing after Cap attempts: 9 in the code
  CliNoUpdate,  \* whether --noupdate may be given
  Choices,      \* what an editor may do with "Disable updates"; none: no editor
  AtomicMove,   \* the file system can move settings.json into place atomically
  SaveMayFail   \* writing the settings may fail

\* Version ships is what the image really contains; min is minimumVersion.
Updates == [version : Versions, hash : Hashes, min : Versions, ships : Versions,
            rollout : BOOLEAN]

ASSUME UpdateAssumption ==
  /\ Platforms \subseteq {"MacOS", "Windows"}
  /\ {Recognised, AtomicMove, SaveMayFail} \subseteq BOOLEAN
  /\ CliNoUpdate \subseteq BOOLEAN /\ Choices \subseteq BOOLEAN
  /\ Versions \subseteq Version
  /\ Released \in [Versions -> Nat]
  /\ Absent \notin Versions
  /\ None \notin Hashes /\ None \notin Updates
  /\ Feeds \subseteq Seq(Updates)
  /\ Cap \in Nat \ {0}

\* What the provers do not know of powers.
ASSUME PowerAssumption ==
  \A m, n \in 0 .. Cap : 2 ^ m \in Nat /\ (m <= n => 2 ^ m <= 2 ^ n)

\* Hours after which every back-off is over.
Long == 2 ^ Cap

\* num is min(lastUpdateAttemptNum, Cap + 1), since the age of lastUpdateAttemptTime.
Settings == [hash : Hashes \cup {None}, since : 0 .. Long, num : 0 .. Cap + 1,
             noupdates : BOOLEAN]

ASSUME SettingsAssumption == Unreadable \notin Settings

VARIABLES
  os,         \* the platform, which never changes
  weather,    \* "bad": network, disk and process may fail; "fair": they do not
  feed,       \* the updates the bootstrap lists
  file,       \* settings.json
  app,        \* app[x]: version of part x of the installed application
  installer,  \* Windows: what the running installer installs, or None
  pc,
  running,    \* version of the running launcher (LauncherProperties.getVersion)
  upgraded,   \* RUNELITE_UPGRADE is set in its environment
  noupdates,  \* settings.isNoupdates() as read by main
  target,     \* newestUpdate
  mine,       \* the LauncherSettings object about to be saved
  last,       \* history: the last recorded attempt, how many for this image in a row
  wish,       \* history: the last saved choice was to disable updates
  wished      \* history: wish when the launcher was started

procVars == <<pc, running, upgraded, noupdates, target, mine, wished>>
history == <<last, wish, wished>>
vars == <<os, weather, feed, file, app, installer, pc, running, upgraded, noupdates,
          target, mine, last, wish, wished>>

\* The world outside the processes; who a process is; everything but where it is.
world == <<os, weather, feed, file, app, installer>>
self == <<running, upgraded, noupdates>>
allButPc == <<world, self, target, mine, history>>

Points == {"idle", "form", "boot", "load", "save", "move", "download", "mount",
           "delete", "copy", "relaunch", "install", "client"}

-----------------------------------------------------------------------------
\* Shorthands

Goto(p, x) == pc' = [pc EXCEPT ![p] = x]

Defaults == [hash |-> None, since |-> Long, num |-> 0, noupdates |-> FALSE]

Never == [hash |-> None, since |-> Long, tries |-> 0]

UpTo(n, max) == IF n < max THEN n ELSE max

\* loadSettings: defaults when the file cannot be read.
Load == IF file = Unreadable THEN Defaults ELSE file

Whole == \E v \in Versions : \A x \in Parts : app[x] = v

Installed == CHOOSE v \in Versions : \A x \in Parts : app[x] = v

\* Mutant of Backoff: the hours keep growing with the attempts.
BackoffUncapped(n) == 2 ^ n

\* Hours to wait after the n-th attempt.
Backoff(n) == 2 ^ UpTo(n, Cap)

\* The first update of list f, of those at the places in fits, with the newest
\* version.
IsNewest(f, fits, i) ==
  \A j \in fits : /\ ~Newer(f[j].version, f[i].version)
                  /\ f[j].version = f[i].version => i <= j

Newest(f, fits) ==
  IF \E i \in fits : IsNewest(f, fits, i)
  THEN f[CHOOSE i \in fits : IsNewest(f, fits, i)]
  ELSE None

\* The places in f of the updates that launcher v may install.
Fits(f, v) == {i \in DOMAIN f : Newer(f[i].version, v) /\ ~Newer(f[i].min, v)}

FindAvailableUpdate(f, v) == Newest(f, Fits(f, v))

-----------------------------------------------------------------------------
Init ==
  /\ os \in Platforms
  /\ weather \in {"bad", "fair"}
  /\ feed \in Feeds
  /\ file = Unreadable
  /\ \E v \in Versions : app = [x \in Parts |-> v]
  /\ installer = None
  /\ pc = [p \in Procs |-> "idle"]
  /\ running \in [Procs -> Versions]
  /\ \A p \in Procs : \A x \in Parts : running[p] = app[x]
  /\ upgraded = [p \in Procs |-> FALSE]
  /\ noupdates = [p \in Procs |-> FALSE]
  /\ target = [p \in Procs |-> None]
  /\ mine = [p \in Procs |-> Defaults]
  /\ last = Never
  /\ wish = FALSE
  /\ wished = [p \in Procs |-> FALSE]

\* The process begins: main reads the settings and the command line.
Begin(p, up) ==
  /\ running' = [running EXCEPT ![p] = Installed]
  /\ upgraded' = [upgraded EXCEPT ![p] = up]
  /\ \E cli \in CliNoUpdate :
       noupdates' = [noupdates EXCEPT ![p] = cli \/ Load.noupdates]
  /\ target' = [target EXCEPT ![p] = None]
  /\ mine' = [mine EXCEPT ![p] = Defaults]
  /\ wished' = [wished EXCEPT ![p] = wish]
  /\ Goto(p, "boot")

\* The user starts the launcher.
StartLauncher(p) ==
  /\ pc[p] \in {"idle", "client"}
  /\ Whole
  /\ Begin(p, FALSE)
  /\ UNCHANGED <<world, last, wish>>

BootstrapFails(p) ==
  /\ pc[p] = "boot"
  /\ weather = "bad"
  /\ Goto(p, "idle")
  /\ UNCHANGED allButPc

\* Mutant of CheckForUpdate: a relaunched launcher looks for updates again.
CheckAfterUpgradeToo(p) ==
  /\ pc[p] = "boot"
  /\ LET u == FindAvailableUpdate(feed, running[p])
     IN  IF Recognised /\ u # None /\ ~noupdates[p]
         THEN target' = [target EXCEPT ![p] = u] /\ Goto(p, "load")
         ELSE UNCHANGED target /\ Goto(p, "client")
  /\ UNCHANGED <<world, self, mine, history>>

\* Mutant of CheckForUpdate: the settings read by main are not looked at.
CheckIgnoringSettings(p) ==
  /\ pc[p] = "boot"
  /\ LET u == FindAvailableUpdate(feed, running[p])
     IN  IF Recognised /\ u # None /\ ~upgraded[p]
         THEN target' = [target EXCEPT ![p] = u] /\ Goto(p, "load")
         ELSE UNCHANGED target /\ Goto(p, "client")
  /\ UNCHANGED <<world, self, mine, history>>

\* The bootstrap arrives; the tests made before the settings are read again.
CheckForUpdate(p) ==
  /\ pc[p] = "boot"
  /\ LET u == FindAvailableUpdate(feed, running[p])
     IN  IF Recognised /\ u # None /\ ~noupdates[p] /\ ~upgraded[p]
         THEN target' = [target EXCEPT ![p] = u] /\ Goto(p, "load")
         ELSE UNCHANGED target /\ Goto(p, "client")
  /\ UNCHANGED <<world, self, mine, history>>

\* The back-off of settings s has not passed for update u.
TooEarly(s, u) == s.hash = u.hash /\ s.since < Backoff(s.num)

\* Load the settings and skip the update, within its back-off or for the rollout.
SkipUpdate(p) ==
  /\ pc[p] = "load"
  /\ TooEarly(Load, target[p]) \/ target[p].rollout
  /\ Goto(p, "client")
  /\ UNCHANGED allButPc

\* Mutant of CommitToUpdate: the number of attempts goes down.
CommitCountsDown(p) ==
  /\ pc[p] = "load"
  /\ ~TooEarly(Load, target[p])
  /\ mine' = [mine EXCEPT ![p] =
       [Load EXCEPT !.hash = target[p].hash, !.since = 0, !.num = @ - 1]]
  /\ Goto(p, "save")
  /\ UNCHANGED <<world, self, target, history>>

\* Load the settings and set the attempt in them; the update will be attempted.
CommitToUpdate(p) ==
  /\ pc[p] = "load"
  /\ ~TooEarly(Load, target[p])
  /\ mine' = [mine EXCEPT ![p] =
       [Load EXCEPT !.hash = target[p].hash, !.since = 0,
                    !.num = UpTo(@ + 1, Cap + 1)]]
  /\ Goto(p, "save")
  /\ UNCHANGED <<world, self, target, history>>

-----------------------------------------------------------------------------
\* The configuration window (a process that has no target).

OpenForm(p) ==
  /\ pc[p] \in {"idle", "client"}
  /\ Whole
  /\ Choices # {}
  /\ target' = [target EXCEPT ![p] = None]
  /\ Goto(p, "form")
  /\ UNCHANGED <<world, self, mine, history>>

CancelForm(p) ==
  /\ pc[p] = "form"
  /\ Goto(p, "idle")
  /\ UNCHANGED allButPc

\* Mutant of SaveForm: the window's settings replace the recorded attempts.
SaveFormOnly(p) ==
  /\ pc[p] = "form"
  /\ \E c \in Choices :
       mine' = [mine EXCEPT ![p] = [Defaults EXCEPT !.noupdates = c]]
  /\ wish' = FALSE
  /\ Goto(p, "save")
  /\ UNCHANGED <<world, self, target, last, wished>>

\* The Save button: load the settings again and put the window's choices in.
SaveForm(p) ==
  /\ pc[p] = "form"
  /\ \E c \in Choices :
       mine' = [mine EXCEPT ![p] = [Load EXCEPT !.noupdates = c]]
  /\ wish' = FALSE
  /\ Goto(p, "save")
  /\ UNCHANGED <<world, self, target, last, wished>>

-----------------------------------------------------------------------------
\* saveSettings, for the updater and for the window.

\* saveSettings returns: the window closes, the updater goes on to download.
Saved(p) ==
  /\ IF target[p] = None
     THEN wish' = mine[p].noupdates /\ UNCHANGED last
     ELSE /\ last' = [hash |-> target[p].hash, since |-> mine[p].since,
                      tries |-> IF last.hash = target[p].hash
                                THEN UpTo(last.tries + 1, Cap) ELSE 1]
          /\ UNCHANGED wish
  /\ mine' = [mine EXCEPT ![p] = Defaults]
  /\ Goto(p, IF target[p] = None THEN "idle" ELSE "download")

\* The temporary file replaces settings.json in one step.
SaveAtomically(p) ==
  /\ pc[p] = "save"
  /\ AtomicMove
  /\ file' = mine[p]
  /\ Saved(p)
  /\ UNCHANGED <<os, weather, feed, app, installer, self, target, wished>>

\* AtomicMoveNotSupportedException: settings.json is removed, then copied.
SaveRemove(p) ==
  /\ pc[p] = "save"
  /\ ~AtomicMove
  /\ file' = Unreadable
  /\ Goto(p, "move")
  /\ UNCHANGED <<os, weather, feed, app, installer, self, target, mine, history>>

SaveCopy(p) ==
  /\ pc[p] = "move"
  /\ file' = mine[p]
  /\ Saved(p)
  /\ UNCHANGED <<os, weather, feed, app, installer, self, target, wished>>

\* IOException: settings.json is deleted, which may fail too, and the caller
\* goes on as if the settings had been saved.
SaveFails(p) ==
  /\ pc[p] \in {"save", "move"}
  /\ SaveMayFail
  /\ weather = "bad"
  /\ file' \in {file, Unreadable}
  /\ mine' = [mine EXCEPT ![p] = Defaults]
  /\ Goto(p, IF target[p] = None THEN "idle" ELSE "download")
  /\ UNCHANGED <<os, weather, feed, app, installer, self, target, history>>

-----------------------------------------------------------------------------
\* Performing the update.

\* The image arrives with the right hash.
Download(p) ==
  /\ pc[p] = "download"
  /\ Goto(p, IF os = "MacOS" THEN "mount" ELSE "install")
  /\ UNCHANGED allButPc

\* A failed download, a wrong hash, a time-out or an error of hdiutil, or an
\* error of the process that is started: the launcher goes on with the client.
UpdateFails(p) ==
  /\ pc[p] \in {"download", "mount", "install", "relaunch"}
  /\ weather = "bad"
  /\ Goto(p, "client")
  /\ UNCHANGED allButPc

\* hdiutil attach.
Mount(p) ==
  /\ pc[p] = "mount"
  /\ Goto(p, "delete")
  /\ UNCHANGED allButPc

\* delete(): remove a file of the bundle ...
DeletePart(p) ==
  /\ pc[p] = "delete"
  /\ \E x \in Parts : app[x] # Absent /\ app' = [app EXCEPT ![x] = Absent]
  /\ UNCHANGED <<os, weather, feed, file, installer, procVars, last, wish>>

\* ... the settings being one of them, with all that is recorded there.
DeleteSettings(p) ==
  /\ pc[p] = "delete"
  /\ file # Unreadable
  /\ file' = Unreadable
  /\ last' = Never
  /\ UNCHANGED <<os, weather, feed, app, installer, procVars, wish>>

DeleteDone(p) ==
  /\ pc[p] = "delete"
  /\ file = Unreadable /\ \A x \in Parts : app[x] = Absent
  /\ Goto(p, "copy")
  /\ UNCHANGED allButPc

\* copy(): a file of the image that is not in the bundle yet.
CopyPart(p) ==
  /\ pc[p] = "copy"
  /\ \E x \in Parts :
       app[x] = Absent /\ app' = [app EXCEPT ![x] = target[p].ships]
  /\ UNCHANGED <<os, weather, feed, file, installer, procVars, last, wish>>

\* Mutant of CopyDone: the copy is over when one file is there.
CopyDoneEarly(p) ==
  /\ pc[p] = "copy"
  /\ \E x \in Parts : app[x] # Absent
  /\ Goto(p, "relaunch")
  /\ UNCHANGED allButPc

CopyDone(p) ==
  /\ pc[p] = "copy"
  /\ \A x \in Parts : app[x] # Absent
  /\ Goto(p, "relaunch")
  /\ UNCHANGED allButPc

\* An exception of delete() or copy(): the old process goes on, without a bundle.
ReplaceFails(p) ==
  /\ pc[p] \in {"delete", "copy"}
  /\ weather = "bad" \/ \E q \in Procs \ {p} : pc[q] \in {"delete", "copy"}
  /\ Goto(p, "client")
  /\ UNCHANGED allButPc

\* Start the new launcher with the same arguments and RUNELITE_UPGRADE, exit.
Relaunch(p) ==
  /\ pc[p] = "relaunch"
  /\ IF Whole THEN Begin(p, TRUE)
     ELSE Goto(p, "idle") /\ UNCHANGED <<self, target, mine, wished>>
  /\ UNCHANGED <<world, last, wish>>

\* Windows: start the downloaded installer and exit.
StartInstaller(p) ==
  /\ pc[p] = "install"
  /\ installer' = target[p]
  /\ Goto(p, "idle")
  /\ UNCHANGED <<os, weather, feed, file, app, self, target, mine, history>>

\* The installer replaces a file.
InstallPart ==
  /\ installer # None
  /\ \E x \in Parts :
       app[x] # installer.ships /\ app' = [app EXCEPT ![x] = installer.ships]
  /\ UNCHANGED <<os, weather, feed, file, installer, procVars, last, wish>>

\* It ends, or fails.  The variables it was started with are not those that
\* upgrade.pas reads, so that it does not start the launcher again.
InstallerEnds ==
  /\ installer # None
  /\ weather = "bad" \/ \A x \in Parts : app[x] = installer.ships
  /\ installer' = None
  /\ UNCHANGED <<os, weather, feed, file, app, procVars, last, wish>>

-----------------------------------------------------------------------------
\* The environment.

Crash(p) ==
  /\ weather = "bad"
  /\ pc[p] \notin {"idle", "client"}
  /\ Goto(p, "idle")
  /\ UNCHANGED allButPc

\* An application that cannot be started is installed again, without settings.
Reinstall ==
  /\ ~Whole
  /\ installer = None
  /\ \A p \in Procs : pc[p] \in {"idle", "client"}
  /\ \E v \in Versions : app' = [x \in Parts |-> v]
  /\ file' = Unreadable
  /\ last' = Never
  /\ wish' = FALSE
  /\ UNCHANGED <<os, weather, feed, installer, procVars>>

Older(s) == [s EXCEPT !.since = UpTo(@ + 1, Long)]

\* An hour passes.
Hour ==
  /\ file' = IF file = Unreadable THEN file ELSE Older(file)
  /\ mine' = [p \in Procs |-> Older(mine[p])]
  /\ last' = Older(last)
  /\ UNCHANGED <<os, weather, feed, app, installer, pc, running, upgraded,
                 noupdates, target, wish, wished>>

Release ==
  /\ weather = "bad"
  /\ feed' \in Feeds
  /\ UNCHANGED <<os, weather, file, app, installer, procVars, last, wish>>

Settle ==
  /\ weather = "bad"
  /\ weather' = "fair"
  /\ UNCHANGED <<os, feed, file, app, installer, procVars, last, wish>>

\* What a process does by itself.
Proceed(p) ==
  \/ BootstrapFails(p) \/ CheckForUpdate(p) \/ SkipUpdate(p) \/ CommitToUpdate(p)
  \/ SaveAtomically(p) \/ SaveRemove(p) \/ SaveCopy(p) \/ SaveFails(p)
  \/ Download(p) \/ UpdateFails(p) \/ Mount(p)
  \/ DeletePart(p) \/ DeleteSettings(p) \/ DeleteDone(p)
  \/ CopyPart(p) \/ CopyDone(p) \/ ReplaceFails(p)
  \/ Relaunch(p) \/ StartInstaller(p)

User(p) == StartLauncher(p) \/ OpenForm(p) \/ CancelForm(p) \/ SaveForm(p)

Next ==
  \/ \E p \in Procs : Proceed(p) \/ User(p) \/ Crash(p)
  \/ InstallPart \/ InstallerEnds \/ Reinstall \/ Hour \/ Release \/ Settle

Spec == Init /\ [][Next]_vars

\* Threads and the installer run, time passes, what fails stops failing, and
\* the user starts the launcher again and again and repairs a broken one.
FairSpec ==
  /\ Spec
  /\ \A p \in Procs : WF_vars(Proceed(p)) /\ WF_vars(StartLauncher(p))
  /\ WF_vars(InstallPart) /\ WF_vars(InstallerEnds)
  /\ WF_vars(Reinstall) /\ WF_vars(Hour) /\ WF_vars(Settle)

-----------------------------------------------------------------------------
TypeOK ==
  /\ os \in Platforms
  /\ weather \in {"bad", "fair"}
  /\ feed \in Feeds
  /\ file \in Settings \cup {Unreadable}
  /\ app \in [Parts -> Versions \cup {Absent}]
  /\ installer \in Updates \cup {None}
  /\ pc \in [Procs -> Points]
  /\ running \in [Procs -> Versions]
  /\ upgraded \in [Procs -> BOOLEAN]
  /\ noupdates \in [Procs -> BOOLEAN]
  /\ target \in [Procs -> Updates \cup {None}]
  /\ mine \in [Procs -> Settings]
  /\ last \in [hash : Hashes \cup {None}, since : 0 .. Long, tries : 0 .. Cap]
  /\ wish \in BOOLEAN
  /\ wished \in [Procs -> BOOLEAN]

\* "Update settings early so a failed download counts as an attempt": after k
\* attempts in a row at one image, the next one comes at least 2^min(Cap, k)
\* hours after the last, whatever happened to the attempt, and whatever the
\* configuration window saved in between (Updater.updateMacos, updateWindows).
\* Attempts are counted anew when the bundle is deleted, the settings being in it.
BackoffRespected ==
  [][\A p \in Procs :
       pc[p] # "download" /\ pc'[p] = "download" /\ last.hash = target[p].hash
         => last.since >= 2 ^ UpTo(last.tries, Cap)]_vars

\* "Update settings early so a failed download counts as an attempt": when a
\* download fails the settings name its image as the last one attempted, so that
\* it is not tried again at the next start.
FailedDownloadCounts ==
  [][\A p \in Procs :
       pc[p] = "download" /\ pc'[p] = "client" => Load.hash = target[p].hash]_vars

\* "Disables the launcher self updating": a launcher started after the window
\* saved this choice never attempts an update.
NoUpdatesHonoured ==
  \A p \in Procs :
    pc[p] \in {"download", "mount", "delete", "copy", "relaunch", "install"} =>
      ~wished[p]

\* A launcher hands over only to one that was released after it, and only if it
\* is recent enough itself, whatever lists of updates it was offered: the names
\* of versions are compared by their tokens, "1.10" being newer than "1.9"
\* (Launcher.compareVersion, Updater.findAvailableUpdate).
UpdatesGoForward ==
  \A p \in Procs :
    pc[p] \in {"mount", "delete", "copy", "relaunch", "install"} =>
      /\ Released[target[p].version] > Released[running[p]]
      /\ Released[target[p].min] <= Released[running[p]]

\* When the new launcher is started, the whole of it is in place: no part of
\* the old one is left and none of the new one is missing (macOS).
RelaunchesWhole ==
  \A p \in Procs :
    pc[p] = "relaunch" => \A x \in Parts : app[x] = target[p].ships

\* A launcher started in fair weather gets to the client by itself, through an
\* update and a relaunch or not: an image that does not contain the version it
\* announces cannot keep the launcher updating and relaunching (macOS).
LaunchReachesClient ==
  \A p \in Procs :
    os = "MacOS" /\ weather = "fair" /\ pc[p] = "boot" ~> pc[p] = "client"

\* Every update of the feed that was released later asks for a launcher that was.
UpToDate ==
  \A i \in DOMAIN feed :
    Released[feed[i].version] > Released[Installed] =>
      Released[feed[i].min] > Released[Installed]

\* However many attempts failed before, and however the settings and the
\* bundle were left, once nothing fails any more the newest version the feed
\* leads to is installed, if the images contain what they announce.
EventuallyUpdated ==
  weather = "fair" /\ (\A i \in DOMAIN feed : feed[i].ships = feed[i].version) ~>
    Whole /\ UpToDate
=============================================================================
