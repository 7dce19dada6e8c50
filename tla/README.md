# Verification of the launcher

This directory holds TLA+ models of the launcher in this repository, the TLC
configurations that check them on small instances, and TLAPS proofs of what
matters most for every instance. The models follow the source; line numbers
refer to `src/`.

* [The system](#the-system)
* [What is hard](#what-is-hard)
* [Modules and the code they model](#modules-and-the-code-they-model)
* [Runs](#runs)
* [Fairness](#fairness)
* [Proofs](#proofs)
* [Disagreements found](#disagreements-found)
* [Not modelled](#not-modelled)
* [Plan](#plan)
* [How to run](#how-to-run)

## The system

The launcher is a small desktop program that keeps a client, a Java runtime and
itself up to date and starts the client. A native program (packr) starts its JVM.
The names below are Java classes of `net.runelite.launcher` unless they have a
path.

| Component | State it keeps | Operations | Talks to |
|---|---|---|---|
| `Launcher.main` | static `clientTypes`, `displayMultipleOptions`; settings read once | read settings and options, get the manifest, open a window, start launch threads | windows, launch threads |
| `Launcher.launch` (one thread per click) | local variables only | get the bootstrap, update the launcher, rewrite packr's settings, install Java, bring the repository up to date, verify, start the client | everything below |
| Artifact repository: `clean`, `download`, `verifyJarHashes` | the files of `repository/<type>/`; two byte counters | delete what is not wanted, pick diffs, patch or fetch, verify | server, other launch threads and processes through the directory |
| `Updater` | the record of attempts in `settings.json`; on macOS the bundle itself | find an update, back off, download, replace the bundle and relaunch, or start the installer | `LauncherSettings`, hdiutil, Inno Setup, its successor through an environment variable |
| `LauncherSettings` | `settings.json` | load, save (temporary file and move), apply options | `main`, `Updater`, `ConfigurationFrame` |
| `ConfigurationFrame` | widgets | show, save, cancel | `LauncherSettings` |
| `JavaInstaller` | `java.zip`, `java_hash.txt`, one directory per Java release | check, download, verify, unpack, record | server, `JvmLauncher.getJava` |
| `PackrConfig` | `config.json` | put JVM arguments and environment of the bootstrap, write, move | packr at the next start |
| `SplashScreen`, `SplashScreenMultipleOptions` | static `INSTANCE` | init, stop or close on the EDT; `stage`, `message`, `barMessage` on any thread | launch threads, user |
| `FatalErrorDialog` | static `alreadyOpen` | open, exit | launch threads, EDT |
| `JvmLauncher`, `ForkLauncher`, `ReflectionLauncher` | none | three ways to start the client | operating system; FORK: packr again, through its command line |
| packr (`native/src`) with dropt | none that lasts; the Java threads of its process | parse the command line and `config.json`, load and create the VM, call `main`, wait for the Java threads, exit | `PackrConfig` through the file, `ForkLauncher` through the command line |
| liblauncher (`liblauncher/main.cpp`, Windows) | two sets of names of DLLs under a lock | hook the `LoadLibrary*` functions at load and unhook them at unload, take the list, refuse what is listed | Detours; `main` through JNI; every thread that loads a library |
| Detours (`detours/src/detours.cpp`) | pending operations, suspended threads, regions of trampolines, protection of pages | begin, attach, detach, update thread, commit, abort | liblauncher; the code of Windows in memory |
| `HttpRequestManager`, `TrustManagerUtil`, `CertPathExtractor`, `LinkBrowser`, `OS`, `LauncherProperties`, `HardwareAccelerationMode`, beans | caches and constants | | |
| Installers, build scripts, sajson, the rest of Detours and of dropt | | | |

How one launch goes through them:

    packr --config.json--> main --manifest--> window --click--> launch thread
      launch: getBootstrap -> PackrConfig -> Updater (may exit or relaunch)
              -> JavaInstaller (if the JVM is old) -> clean -> download
              -> verifyJarHashes -> JvmLauncher | ForkLauncher | ReflectionLauncher
              -> finally close()

The components share state in four ways: files that outlive the process
(`repository/`, `settings.json`, `config.json`, the runtime, the bundle), static
fields used by several threads (`INSTANCE`, `alreadyOpen`, `clientTypes`), the
event queue of Swing, and environment variables handed to the next process.
Nothing locks any of the files across processes; the `FileChannel.lock` calls
lock temporary files that nobody else opens.

What makes each component correct:

* repository: the client is started only on files with the hashes of the signed
  bootstrap; whatever was left behind is repaired by one undisturbed attempt;
  right files are not fetched again; diffs are used when they can be;
* updater: attempts keep their distance over restarts, a wish for no updates is
  obeyed, a bundle that is started is whole, the newest version gets installed,
  and no image keeps the launcher from reaching the client;
* Java installer: what is trusted is complete, and one undisturbed launch starts;
* packr's settings: the launcher can always be started, on the settings of one
  bootstrap;
* windows: none stays behind, failures are shown, the process ends when it should;
* Detours: hooked functions and their originals can be called between any two writes, a
  transaction is done as a whole or not at all, a suspended thread is resumed where its
  code is, nothing stays writable or is lost;
* liblauncher: a listed library is refused on every way, the functions are hooked
  together, the hooks endanger no call that begins when they are in place, and
  nothing is left at the end;
* launch modes: one client per launch, and no launcher that starts launchers for
  ever.

## What is hard

Steps of different processes and threads interleave on files that nobody locks.
A process may be killed between any two steps, and files are written in place,
so that the next start meets every intermediate content. Decisions are made on
one reading of a file and carried out later (diff sources, back-off, the
verification before the start). Retries are spaced by a record that other
components rewrite and the update itself deletes. `INSTANCE` is tested on one
thread and cleared on another. Code is overwritten while other threads run it, and
the pointer through which it calls the original is written after it. Any thread may
put another on the list of a transaction it does not own. A command line
that one program writes is read by two others, each by its own rules. And files that a
component trusts (checksum and archive) say nothing directly about what it uses (the
unpacked directory).
PROJECT.json lists these hazards with the line where each bites and the property
that would show it.

## Modules and the code they model

Common conventions. A variable `weather` is `"bad"` while network, disk and
process may fail, and `"fair"` when they do not any more; the action `Settle` makes
it fair for good. A failure is a disjunct with the guard `weather = "bad"`, which
models any number of failures followed by a time without any. Properties of the
form "one undisturbed attempt suffices" speak of attempts that begin in fair
weather (history variable `clear`). History variables are marked `history` and no
guard reads them. Operators commented `Mutant of` are plausible bugs: with
one of them in place of the definition, the property named in PROJECT.json
fails. They play no part in the specifications.

### Repository (`Launcher.launch`, 315-508, `clean`, `download`, `verifyJarHashes`)

State: `files[d][n]`, the content of each file, as its hash (or `Damaged`, or
`NoFile`); per attempt a program counter, the bootstrap it got (`plan`), the
queue `toDownload` (`todo`) with the diff chosen for each artifact, the two byte
counters, the loop index and the settings (nodiff, launch mode); and what does not
change: `system`, the machine the launcher runs on. Each action is one step that another process, a
crash or a failure can separate from the next:

* `ListFiles`, `DeleteStale`, `CleanDone`: `clean()`, which keeps artifacts and the
  sources of their diffs (`Wanted`), file by file in any order;
* `Scan`, `ScanUnreadable`, `ScanDone`: the first loop of `download`: hash the file,
  skip or queue it with the last usable diff;
* `FetchPatch`, `OpenForPatch`, `ApplyPatch` and their failures: the second loop with
  a diff. The result file is emptied before the patch is applied. A patch that
  gives the wrong hash (`FaithfulPatches = FALSE` allows it) falls back to the
  whole artifact;
* `OpenForFetch`, `FetchArtifact`, `FetchWrongArtifact`, `FetchFails`: the whole
  artifact, written in place. A wrong hash is logged only; an IOException ends the
  attempt;
* `Verify`, `VerifyFails`, `VerifyDone`: `verifyJarHashes`;
* `Start`, `StartFails`, `StartsNothing`: the three ways to start a client, of which
  `Way` takes one by launch mode and machine. Two of them never start one: REFLECT asks
  for a client type that does not exist, and the process of FORK is refused by packr
  (NativeLauncher). The JVM launcher needs a java executable and throws in an AppImage.
  `StartsClient` is the case that is left; an attempt that returns without a client
  and without a message is "ended".

`VerifiedLaunch` is the abstract specification of this component: an attempt does what
it likes to its directory, gives up, or starts a client on files that are those of
one signed bootstrap. `session` is its whole state beside the files. The refinement
mapping (`Session` in Repository) takes an attempt that has started its client to
"client", one that has failed, ended or not begun to "off" and any other to "launching".

Abstractions: hashing one file is a single step; a file that is being written
counts as `Damaged` until it is complete; two attempts that write one file at the
same time may spoil it (`Overlap`). Signature and certificate are the word
"signed": `Supported` are the bootstraps that pass. The platform filter of
artifacts is applied to the constant.

### SelfUpdate (`Updater`, `LauncherSettings`, `ConfigurationFrame`)

State: `file` (settings.json: attempt hash, hours since, number of attempts,
`noupdates`), `app` (version of each part of the installation), the bootstrap's
update list (`feed`), the running Windows installer, and per process where it is.
Actions follow `updateMacos` and `updateWindows`: the guards before the settings
are loaded (`CheckForUpdate`), back-off and rollout (`SkipUpdate`), recording the
attempt (`CommitToUpdate`, then `SaveAtomically`, or `SaveRemove` and `SaveCopy`
without atomic moves, or `SaveFails`, which deletes the file), `Download`,
`Mount`, `DeletePart` and `DeleteSettings` (on macOS settings.json lies in the
bundle), `CopyPart`, `Relaunch`; on Windows `StartInstaller`, and the external
`InstallPart`. The window is `OpenForm`, `SaveForm` (which loads again), `CancelForm`.

Abstractions: time passes in hours and saturates at `Long = 2^Cap`, after which
no back-off can hold; attempts saturate at `Cap + 1`. `Cap` is 9 in the code
(`Math.min(9, ...)`) and 1 or 2 in the runs; no action depends on its value
otherwise. A process that checks whether it runs
from an installed application is the constant `Recognised`. `Reinstall` is the
user who repairs an application that no longer starts.

`VersionOrder` is `compareVersion`: a version is a sequence of tokens, each a number or
a word, and `Newer(a, b)` what the code computes by recursion over the tokens.
`Fits` and `FindAvailableUpdate` in SelfUpdate are `findAvailableUpdate`: of the
updates this launcher is not too old for, the newest that is newer than itself.
`Released`, the order in which versions were in fact published, is a constant that no action reads: it is what
`UpdatesGoForward` compares with.

### JavaInstaller (`JavaInstaller`, `JvmLauncher.getJava`)

State: `zip`, `hash` and `jre[r][x]`, whether file x of release r is absent, cut
short or whole. `ReadLocalHash` and `Check` decide; `Connect`, `Receive*`,
`VerifyDownload`, `RejectDownload` are `downloadFile`; `OpenEntry`, `WriteEntry`,
`UnzipDone` are `unzip`, file by file; `EmptyHashFile`, `StoreLocalHash` are
`storeLocalHash`, which truncates before it writes; `GiveUp` is the handler of
`init`, after which the launch continues. `ReplaceLauncher` installs another launcher,
newer or older, that names another release in the same two files. In bad weather
(`Unreadable`) an intact file may be unreadable for a moment, which the code treats
like a missing one. The history variable `broken` has the releases whose runtime was
recorded as installed and then unpacked again and cut off inside a file (`CutOff`).

### Startup (`main`, `launch` as a whole, `SplashScreen`, `mutli/`, `FatalErrorDialog`)

State: the event queue of the EDT, the window that `INSTANCE` refers to, the
dialog, and for each launch thread the part of `launch` it is in. `stage()` is two
steps, the test of `INSTANCE` (`TestInstance`) and its use (`UseInstance`, or
`MissInstance`, the NullPointerException), because the EDT may clear the field in
between. What happens inside a part (the other modules) either goes well
(`Advance`), fails with a dialog (`Fail`), ends without one (`EndSilently`), ends
the process (`ExitForUpdate`) or starts the client. `WarnAboutJava` is JavaInstaller,
which opens a dialog on the launch thread and lets the launch go on without the window
that the dialog closes. `Close` is the `finally` of `launch`. An exception in `main`
queues a dialog (`Complain`). `warned` and `complained` are history variables: who
opened a dialog without failing. The user clicks, closes the window or uses a button of the dialog.
Accesses to `INSTANCE` are taken as sequentially consistent, which the code does
not ensure (the field is not volatile): a thread could go on using a window that
the EDT has already taken away, or not see it yet, neither of which is modelled.

### PackrConfig (`PackrConfig`, `loadConfiguration` of packr)

State: `file`, whether config.json is whole, missing, empty or torn; `config`,
what it says; per process its bootstrap and the settings it has read. `Update` and
`Parse` have the early returns; `PutSettings` is `config.put` twice and the writing
of the temporary file, which nobody else sees; `Move` is the atomic move,
`MoveFallback`, `CopyCreate`, `CopyPart`, `CopyRest` are what `Files.move` does
across volumes (delete, create, copy). A process that replaces a file leaves the
other one writing to a file that has no name any more (`owner`). `Start` and
`Refuse` are packr: no repair is possible when it refuses, because the code that
could repair runs behind it.

### Detours (`detours/src/detours.cpp`, the transactions)

State: who owns the transaction, the list of operations with the protection each
page had, the suspended threads, how far a commit or abort has got; of the memory,
the code of each function (`Original` or a jump through a trampoline), what each
pointer leads to, what each trampoline is used for, the protection of pages and
regions; and, per other thread, the instruction it is at. Client calls: `Begin`,
`Attach`, `Detach`, each with its failure, `Commit`, `Abort`, and `Enlist`
(DetourUpdateThread), which tests neither the owner nor whether a transaction is open:
any thread calls it at any time, and a failure of it sets the pending error even in
mid-commit, when nobody looks at it any more. A thread that is put on the list when
commit has begun to go through it is not moved along (`missed`), nor is one whose
context cannot be had (`UpdateThreads`); two threads that write the list at once may
lose an entry, and a new transaction forgets the old list, so that a thread stays
suspended (`stuck`). `AttachRefused` is the attach that goes to `fail` without an error
(2066-2074): nothing is queued, nothing is pending. A commit is
one action per write that another thread can see: `Patch` (a function's code), `Point`
(the client's pointer), `UpdateThreads`, `Restore` (the protection and the trampoline),
`Finish` (regions and resuming). `Run` is a thread that is not suspended and goes through hooked code one instruction at a time.

Abstractions: the moved instructions are numbered; how many begin in the part of a
trampoline that the commit looks at is `Scanned`. Memory near the target is always
there or not there (`AttachFails`). `Client` limits the callers to what this
repository does: a pointer is named once in a transaction, no function is hooked
again that an earlier transaction hooked, and no thread is enlisted a second time
while it is suspended.

### LibLauncher (`liblauncher/main.cpp`) composed with Detours

The module EXTENDS Detours and takes part in it as its one client: each step of
DllMain is a conjunction of a step of Detours with a step of its own (`ProcessAttach`
and `Begin`, `LoadAndAttach` and `Attach`, `DetachNext` and `Detach`, `CommitHooks`,
`Committing` with every step of the commit). `SetBlacklistedDlls` is `main`. Any
number of threads call LoadLibrary: `CallLoadLibrary` at a function, `EnterFunction`
into its first instructions or into the hook, `RunOn` past those instructions,
`CallThrough` the pointer to the original. DllMain enlists only its own thread, so that
a call inside the instructions that commit overwrites, or at a function while its jump
is being written, runs torn code (`Tear`). Since the code of a function is written
before its pointer, a hook may find its pointer still at the function itself: it calls
itself (`CallAgain`), each time with one more frame on a stack that has room for
`Rounds` of them, and then overflows. What becomes of the process after a torn or
overflowing call is not followed. `Inner` says that LoadLibraryA calls LoadLibraryW,
as it does in Windows. `begun` remembers when a call began: "early", before DllMain's
commit was over, "guarded", with hooks and list in place, or "settled", between.

### NativeLauncher (`native/src/packr.cpp`, dropt, `Launcher.main`, `ForkLauncher`, `JvmLauncher`)

State: the processes of a launch, in the order they were started, each with its
command line, the arguments of its VM and of its main, where the thread that runs
packr is, and its Java threads. What writes and reads a command line are
operators: `CommandLine` and `Dropt` (packr), `Options` (`main`), and `ForkCommand`,
which writes what the first two read. The two parsers are recursive functions of the
position in the command line, and `DroptStep` and `OptionsStep` what they do there. The
steps of packr are actions with their failures; `Callback` is what differs between systems (on macOS a thread of its own
unless -XstartOnFirstThread is among the arguments). `Main` and `Launch` have the
outcomes of Startup. The token "names" is the list of classes after `--classpath`.

### MC modules

`MCRepository`, `MCSelfUpdate`, `MCDetours`, `MCLibLauncher` and `MCNativeLauncher`
define the bootstraps, feeds, functions and command lines of the runs. The other
modules take their constants from the cfg files directly.

## Runs

| Run | Checks | Instance | Expected |
|---|---|---|---|
| `repository` | TypeOK, FairAttemptSucceeds, DiffsAreUsed, StartsVerified, IntactArtifactsStay, ImplementsVerifiedLaunch, EventuallyStarts | one attempt at a time in one directory; two releases, the second with a patch from the first and a library; patches may be wrong; four launch modes on an installation, an AppImage and a jar without a java executable; with fairness | pass |
| `repository_two` | StartsVerified | two attempts in one directory, one artifact | violation |
| `selfupdate` | TypeOK, NoUpdatesHonoured, RelaunchesWhole, UpdatesGoForward, BackoffRespected | one process, macOS and Windows, versions 1.9, 1.10 and 1.10.1, two parts, Cap 2, window and `--noupdate` | pass |
| `selfupdate_live` | EventuallyUpdated, LaunchReachesClient | one process, saving may fail and is not atomic, images that lie about their version, Cap 1 | pass |
| `selfupdate_edit` | FailedDownloadCounts | two processes | violation |
| `java` | TypeOK, RecordedIsUnpacked, FairLaunchStarts | one launcher at a time, two releases that replace each other in any order, three files, zip and tar, files that cannot be read | pass |
| `startup` | TypeOK, NoOrphanWindow, LostForAReason, FailuresReported, GivesWay | two launch threads, manifests with none, one or two clients, whole or broken off | pass |
| `packr` | TypeOK, Startable, OneBootstrap, FairUpdateApplies | two processes, three bootstraps: complete, without environment, without arguments | pass |
| `detours` | TypeOK, Sealed, Callable, NoTrampolineLost, AllOrNothing, EnlistedFollow | two client threads, one other thread, three pointers to two functions on one page, two regions of two trampolines, three moved instructions of which two are looked at; symmetric in client threads, regions and trampolines | pass |
| `hooks` | HookedTogether, Enforced, OnlyEarlyCallsCrash, LeavesNoHook, UsesDetours, CallsEnd | four pointers (A and W, each exported twice) to two functions, one thread that calls LoadLibrary beside the loader's, room for two hooks that call themselves, one listed name and one not; with fairness | pass |
| `native` | TypeOK, NoForkLoop | three systems, four modes, seventeen command lines, three configurations, two bootstraps | pass |
| `native_fork` | ForkAccepted | the same | violation |

What the passing runs show, and why the bounds are enough:

* `repository` (300,000 states). Three files are what it takes for the
  interesting cases to meet: an artifact with a diff, its source, which a later
  release no longer lists, and an artifact without diffs after it in the loop, which
  sees the effects of the first. Crashes and restarts are unbounded. The files of
  different artifacts interact only through the loop, so that a third artifact would
  add no new pair. What the run leaves open, the number of artifacts and bootstraps,
  the proofs do not (below). Every combination of leftovers in these files leads to a
  started client once nothing fails; `FaithfulPatches = FALSE` adds patches that
  give the wrong result every time, which the fallback must get past. The machines are
  one on which a client can be started, one on which it depends on the mode and one on
  which none can; the files are to be right on each.
* `selfupdate`. Three versions are needed for an update that the running version
  is too old for (`minimumVersion`), and their names for an order in which the
  number of digits and the number of tokens both matter; two parts for a partial
  bundle, two attempts (Cap 2) for a back-off that grows and then stops growing.
  Edits of the settings come between attempts.
* `selfupdate_live`. With settings that are lost whenever they are saved and with
  bundles lost half way, the newest version is still reached, through an
  intermediate one. An image that contains an older version than it announces
  does not loop: the relaunched process does not update.
* `java`. Two releases let the recorded checksum, the archive and the runtime come from
  different launchers, and one be installed over the other and back again; three files
  separate the executable that `getJava` looks for from a file before and a file after
  it. That the directory is unpacked in any order makes "cut off inside a file" any
  file. What the checksum can be trusted for is `RecordedIsUnpacked`, weaker than
  what the code relies on (see `TrustedIsUnpacked` [below](#disagreements-found)).
* `startup`. Two launch threads are the least that can take the window from each
  other, and a dialog adds a third actor. A third launch adds another actor of the
  same kind; the proofs are for any number. `LostForAReason` names the three reasons
  why a launch can miss a window it has just seen: the doings of another launch, a
  dialog of `main`, and its own warning about Java.
* `packr`. Two processes are what it takes for a copy to be overtaken, and three
  bootstraps to have a key that one puts and another leaves out.
* `detours` (2.6 million states up to symmetry). Two pointers to one function, as two DLLs exporting
  it give, make its code be saved twice; a third pointer on the same page makes the
  page be unprotected by different operations; two regions are what it takes to
  free one and keep the other. The other thread may be anywhere in the code, and be
  enlisted or not, by the owner or by the other client thread, before, during or after
  the commit.
* `hooks`. The shape of the real thing: two functions, each reached by two pointers,
  one calling the other, with narrow and wide strings; three trampolines per region,
  so that four hooks need a second one. Callers share only what DllMain writes and have
  no step that depends on another caller, so that one shows what any number would; the
  proofs are for any number. Two rounds are enough for a hook that calls itself, in
  either function, to be let go in time or to overflow.
* `native`. The command lines are chosen so that every branch of every parser is
  taken, complete and cut short. Packr refuses every forked launcher, which alone would
  make a loop impossible. `NoForkLoop` therefore also asks of the command line itself
  that `main` would find `--classpath` behind packr's part: with `-- --help` the
  arguments for the client are read a second time by the forked launcher.

Runs with the expectation "violation" are told under
[Disagreements found](#disagreements-found). Deadlock is checked except in
`startup`, `packr`, `hooks`, `native` and `native_fork`, where the system may stop: a
process that has ended, or launchers that packr refuses to start.

## Fairness

`Repository` (run `repository`) and `SelfUpdate` (run `selfupdate_live`): weak fairness of what a process does by
itself (a thread that can run does run), of the user who starts the launcher
again (a launcher nobody starts does nothing), and of `Settle` (failures end). In
`SelfUpdate` also of the installer and of `Hour`. The steps that wait for the network
are among those of the process. The code does not bound them: the connections have no
timeouts (Launcher.java:957-973). That a server which answers goes on to the end is an
assumption about the network, as `Settle` is one about failures; with a server that
goes silent for ever neither property holds. `EventuallyStarts` also supposes a
user who does not go on choosing a launch mode that has no client to start
(`StartsClient`). Nothing is assumed of the order
of failures before. No step is strongly fair: none has to be taken although it is
enabled only now and then.

`Startup`: weak fairness of `main` after the manifest, of the EDT, of each launch
thread in its steps that wait for nothing outside, and of the end of the JVM when
no thread and no window is left. Not of the steps that need the network or wait
for a client, which nothing bounds (Launcher.java:957-973,
HttpRequestManager.java:17-24). Not of the user.
`GivesWay` and `FailuresReported` hold without these assumptions; they do not say
that a launch which waits for a silent server ends, and it need not.

`LibLauncher`: weak fairness of DllMain and of each thread in its call, because a
thread that can run does run. Nothing is assumed of the end of the process or of how
often libraries are loaded. A hook that calls itself does not rest on the loader's
thread: its pointer is written in time, or its stack overflows. `CallsEnd` says that a
call which begins after DllMain's commit returns, and that an earlier one returns or
crashes.

`JavaInstaller`, `PackrConfig`, `Detours` and `NativeLauncher` state safety only: in the first
two, that an undisturbed launch succeeds is an invariant on the state after it.

## Proofs

Every theorem holds for any constants that satisfy the named assumptions of its
module. All steps are checked by TLAPS.

| Theorem | Property | Assumed |
|---|---|---|
| RepositoryProofs!TypeCorrect | TypeOK | |
| RepositoryProofs!VerifiedStart | StartsVerified | `Exclusive` |
| RepositoryProofs!OneFairAttemptSuffices | FairAttemptSucceeds | `Exclusive`, `WellFormed` |
| RepositoryProofs!IntactFilesStay | IntactArtifactsStay | `Exclusive`, `WellFormed` |
| RepositoryProofs!DiffsUsed | DiffsAreUsed | `Exclusive`, `WellFormed`, `SourcesAgree` |
| RepositoryProofs!AttemptsEnd | every attempt ends (ranking, no run) | `IsFiniteSet(Names)` |
| RepositoryProofs!Refinement | ImplementsVerifiedLaunch | `Exclusive` |
| RepositoryProofs!ClientFilesGenuine | ClientsKeepGenuineFiles (no run) | `Exclusive` |
| SelfUpdateProofs!TypeCorrect | TypeOK | |
| SelfUpdateProofs!BundleWhole | RelaunchesWhole | `Alone` |
| SelfUpdateProofs!WishObeyed | NoUpdatesHonoured | `Alone` |
| SelfUpdateProofs!BackoffHolds | BackoffRespected | `Alone`, `SafeSaves` |
| SelfUpdateProofs!OnlyForward | UpdatesGoForward | `NamedInOrder` |
| SelfUpdateProofs!NotNewerThanItself, NewerTransitive, NewerTotal | of `Newer` | |
| JavaInstallerProofs!TypeCorrect | TypeOK | |
| JavaInstallerProofs!RecordIsEarned | RecordedIsUnpacked | `Alone` |
| JavaInstallerProofs!OneFairLaunchSuffices | FairLaunchStarts | `Alone` |
| StartupProofs!TypeCorrect | TypeOK | |
| StartupProofs!NoWindowStays | NoOrphanWindow | |
| StartupProofs!LossesHaveReasons | LostForAReason | |
| PackrConfigProofs!TypeCorrect | TypeOK | |
| PackrConfigProofs!AlwaysStartable | Startable | |
| PackrConfigProofs!NeverMixed | OneBootstrap | |
| PackrConfigProofs!OneFairUpdateSuffices | FairUpdateApplies | |
| DetoursProofs!TypeCorrect | TypeOK | |
| DetoursProofs!PagesSealed | Sealed | |
| DetoursProofs!AlwaysCallable | Callable | |
| DetoursProofs!TrampolinesAccounted | NoTrampolineLost | |
| DetoursProofs!AbortedWhole | AllOrNothing | |
| DetoursProofs!ThreadsFollowCode | EnlistedFollow | |
| DetoursProofs!TransactionsEnd | commit and abort end (ranking, no run) | |
| DetoursProofs!HooksLeadOn | a hook that is reached leads on to its original (no run) | |
| LibLauncherProofs!HooksTypeCorrect | LibTypeOK (no run) | |
| LibLauncherProofs!KeepsToDetours | UsesDetours | |
| LibLauncherProofs!AllHooksOrNone | HookedTogether | |
| LibLauncherProofs!BlacklistEnforced | Enforced | |
| LibLauncherProofs!LeavesWindowsIntact | LeavesNoHook | |
| LibLauncherProofs!DllMainEnds | DllMain ends (ranking, no run) | |
| LibLauncherProofs!LaterCallsSafe | OnlyEarlyCallsCrash | |
| LibLauncherProofs!CallsLeadOn | every step of a call brings it closer to its end (ranking, no run) | originals do not call one another in a circle |
| NativeLauncherProofs!TypeCorrect | TypeOK | |
| NativeLauncherProofs!OneLaunch | NoForkLoop | |
| NativeLauncherProofs!ForksAreRefused | no forked launcher passes packr (no run) | |

The assumptions are the exact places where the code promises nothing:
`Exclusive` (no two attempts in one directory) because `repository_two` refutes
`VerifiedStart` without it; `WellFormed` because a bootstrap that lists a name twice
with different hashes can never be satisfied, and one that asks for a newer launcher
is refused; JavaInstaller's `Alone` (one thread at a time) because nothing locks the
archive, the checksum or the directory; SelfUpdate's `Alone`
(one process at a time) because nothing locks the settings or the bundle, and
`selfupdate_edit` shows two processes losing the record of an attempt; `SafeSaves`
because `saveSettings` deletes the file when it fails and the updater goes on, so that
nothing is left to wait for. That the runs `repository` and `selfupdate` have exactly
one actor is thus not a bound but the assumption `Exclusive` or `Alone`.
`NamedInOrder` says that the names of the versions are in the order of their release;
`NewerTotal` and `NewerTransitive` show that names can be chosen like this, and a
release named "2.0-beta" after "2.0" breaks it. The proofs about Detours and
LibLauncher assume nothing but what their ASSUMEs say of the constants: the rules
for clients of Detours are guards of its `Client`, and `KeepsToDetours` proves that
DllMain obeys them.
`SourcesAgree` says that a diff whose source is itself a file of the bootstrap starts
from that file as the bootstrap has it. Without it TLC refutes `DiffsAreUsed`: of a release
<<x, y>> in which y has a diff from the old content of x, x is downloaded first, the
diff of y then finds the new content, gives the wrong result, and y is fetched whole.
Nothing is lost by it but the download.
`IsFiniteSet(Names)` holds because a directory has finitely many files.
`PowerAssumption` of SelfUpdate is a fact of arithmetic (powers of two are natural
numbers and grow) that the provers do not have; TLC evaluates it in every run.

The arguments:

* Repository. `TypeOK` is not inductive: an index that is applied to `todo` must
  lie in it, and the artifact there must have a diff when one is being fetched.
  `TypeInv` adds this for each program counter. For `VerifiedStart`, `VerifyInv`
  adds that the artifacts before the index are intact during `verify` and all of
  them at `start`; steps of others leave the directory alone (`OthersUndisturbed`,
  where `Exclusive` enters). `OneFairAttemptSuffices` needs to know in the first and
  second loop that every artifact is either intact or still queued at or after the
  index: `WriteKeepsOthers` says that writing one artifact does not spoil another, and
  this is where two artifacts of one name would break it.
* What a launch spares. `IntactFilesStay` and `DiffsUsed` speak of a whole attempt, from the
  files it found to those it left, so that the invariants (`Sparing`, `Sourced`) say for
  each program counter what cannot have been touched yet: an artifact that was intact is
  never in the queue, hence never written, and of a queued one the file is wrong until its
  turn (`Sparing`); a queued diff has its source intact, which is thus not a file that
  is still to be downloaded, and `Clean` keeps the sources (`Sourced`).
* `AttemptsEnd` is the part of `EventuallyStarts` that needs no fairness. `Rank` is a triple
  of naturals: the stage of the launch, what is left of its loop (`Left`: the files still
  to delete, or the artifacts from the index on), and the requests and writes left for
  the file in hand. Every step of an attempt lowers it in the
  lexicographic order (`OwnStepNearer`), and no step of another attempt raises it
  (`OthersRank`), even in the same directory, because the loops run over queues and not
  over the disk. That order is well-founded, so an attempt has finitely many steps; that
  the next one is taken at all is the fairness that stays with TLC.
* The refinement. Two things beside `VerifyInv` are needed: that a plan is one of the
  signed bootstraps (`Planned`), so that what was verified against is what the
  abstract step asks for, and the frame of every step that writes
  (`OthersUndisturbed` again): another directory is never touched.
  `ClientFilesGenuine` is then proved of VerifiedLaunch alone and carried over.
* SelfUpdate. `HasTarget` ties the program counter to the update in hand; a window
  has none, which is how a save of the updater is told from one of the window. For
  `BundleWhole`, `CopiedSoFar` says that a part is missing or of the image until the
  copy is over, and `OnePlatform` that the Windows installer and the macOS copy never
  meet. For `WishObeyed`, `WishKept` says that a choice to disable updates is in the
  file as long as it stands, and `WishRead` and `NoWishAtWork` follow it through the
  start. For `BackoffHolds`, `AttemptKept` says that the file has the last attempt with
  at least as many as were made in a row, `FormKeepsAttempts` and `AttemptCounted`
  that what is about to be saved keeps or counts them; the hours follow because the
  back-off grows with the number.
  `OnlyForward` needs one fact about the process between its check and the relaunch:
  its target fits it (`TargetFits`), which `FoundFits` gives when it is chosen and
  `AttemptUnchanged` keeps.
* VersionOrder (in SelfUpdateProofs). Agreement on the first tokens is what decides, so the order is that of
  the first difference, which exists by well-foundedness of the natural numbers; the
  order of tokens is total because a number comes after every word.
* JavaInstaller. What makes a checksum true is not visible in one state. The
  invariant says what the disk looks like at each step of an installation: of a
  directory whose archive is being unpacked everything outside `left` is whole
  (`UnpackedSoFar`), so that the checksum is stored when all is; and of a recorded
  release no file is missing, and one that is not whole is being written or was cut off
  in a reinstallation (`Recorded`), which unpacking over an old runtime keeps file by
  file. `FairProgress` follows a launch that nothing disturbs.
* Startup. The orphan window is excluded by what is pending: `WindowAttended`
  says that an open window has a launch not yet over, a stop in the queue, or a
  dialog; it rests on `QueueKept` (events keep their order), `EmptyReported` (a
  manifest without clients has queued a dialog) and `LaunchesLater` (a launch
  begins only after its window was asked for). For `LossesHaveReasons`, `DialogHasCause`,
  `StopHasCause` and `LossHasCause` name who is behind every dialog, every stop in the
  queue and every window that is gone; and `NotYetOver` says that a launch that is
  still at work has not closed it by failing or starting, which leaves only its own
  warning.
* PackrConfig. `OneCopies`: undisturbed, the file is not whole only while one
  process copies it, and what it has copied so far is in the file;
  `HeldTogether`: what a process is about to write is one bootstrap's.
  `Undisturbed` says that a process updating alone reads and moves undisturbed.

* Detours. A commit is half done at most of its steps, so that `Callable` has to be
  kept operation by operation. `Patched` and `Pointed` say how far the commit is;
  `ReachedInTurn` that what an attach will use is reached from nowhere before its
  turn and what a detach gives up from nowhere after it; `OperationsLive` that every
  pending operation has a trampoline of its own; `Accounted` that every trampoline in
  use is a pointer's or a pending operation's. `PermissionsKept` describes the saved
  protections: the first operation on a page saved "RX", every later one "RWX", and the
  list is worked off in the other order, so that the last one restored is the first
  one saved. `NothingYet` is what an abort relies on. For `ThreadsFollowCode`,
  `Following` adds what the threads on the list that are not `missed` know: which
  operation wrote the code of a function last (`CodeByOperations`) and which a thread was told of last
  (`InFunction`, `OutOfTrampolines`).
* LibLauncher. `StepOfDetours` shows that every step is one of Detours or changes
  nothing of it, so that `Inv` of DetoursProofs holds in the composition without a new
  proof. `LibCore` adds what DllMain knows: the operations are the pointers in order
  and, if nothing failed, all of them (`InOrder`), hence together; `GuardedCalls`
  that a guarded call of a listed name is at a hooked function or refused, hence
  never behind a hook; `SettledCalls` that a call which did not begin early exists only
  while no commit is under way, with all hooks in place or none, hence meets neither
  code that is being written nor a pointer that is not.

* NativeLauncher. The parsers are recursive functions of a position in the command
  line. What they return for every command line is not had by induction over data but by
  the last position at which a fact fails (`Last`, `BackwardInduction`), an argument about
  sets of numbers that the provers can follow; `BackwardRecursion` shows that a
  recursion towards the end of a sequence is defined (`DroptRecursion`,
  `OptionsRecursion`). From there: what the parsers return is typed (`ParsersTyped`), and
  behind `-c` and its -J's an unknown option is an error whatever comes after it
  (`VerdictPassesOn`, `UnknownIsRejected`). The invariant `Processes` says of every process what
  its command line was and what its threads can still do: the first one is the user's
  launcher, the one it starts is a JVM with the client (`Hosts`), or a forked launcher
  that is `Refused` by packr or over already. `NoForkLoop` therefore rests on packr's
  rejection, the very disagreement that `native_fork` shows (`ForksAreRefused`: for all
  arguments, not only those of the run). The third part of `NoForkLoop` does not: in what
  `ForkCommand` writes, `main` finds `--classpath` behind packr's part whatever follows
  it (`ClasspathRead`, `ForkCommandReads`), which is the branch that starts the client
  and forks no further.

* What `CallsEnd` rests on beside fairness. A hook calls itself while its function is
  written and its pointer is not. `HooksLeadOn` follows from `Accounted` and
  `ReachedInTurn`: a trampoline that code leads through and no pointer does is of the one
  operation between its two writes, and that is an attach. `CallsLeadOn` carries this to
  a call that is inside the hook already (`RoundsInCommit`), and ranks the calls: by the
  rounds that the stack has room for, which only a hook that calls itself uses up, and
  then by the steps that are left (`StepsLeft`), which every other step lowers. So every
  call has finitely many steps, and only one that began early can use up its rounds.
  `DllMainEnds` ranks the steps of DllMain, by the eras of the library, the loops of
  commit (`TransactionsEnd`) and their indices.

Only model-checked: the liveness properties (`EventuallyStarts`,
`EventuallyUpdated`, `LaunchReachesClient`, `FailuresReported`, `GivesWay`, `CallsEnd`),
which need fairness and ENABLED and are out of the prover's reach. Every other
property of a passing run is stated by a theorem.

## Disagreements found

Checked by a run each:

* `repository_two` (Launcher.java:451): verification says nothing about the start
  when a second attempt works in the directory, and each click starts one.
* `selfupdate_edit` (Updater.java:127): "Update settings early so a failed
  download counts as an attempt": a configuration window that loaded before and
  saves after undoes the record.
* `native_fork` (ForkLauncher.java:84): the option -J is announced for "FORK or JVM launch
  mode only" (Launcher.java:111), but in FORK mode the JVM arguments come without the
  -J that packr wants, and the first of them is always there (Launcher.java:461): packr
  rejects the command line and no client starts.

Two more are stated in the modules and belong to no run. With `INVARIANT
TrustedIsUnpacked` in java.cfg, or `PROPERTY AbortsWhole` in detours.cfg, TLC shows
them:

* `TrustedIsUnpacked` (JavaInstaller.java:79): "Check if Java is already downloaded and
  hash matches": an installation replaces the archive and the directory and leaves the
  old checksum where it is until its end. If a complete installation is repeated,
  because its checksum could not be read for a moment, and killed while it unpacks, the
  archive and the old checksum agree beside a torn runtime, which every later launch
  takes for installed. With readable files it takes an older launcher that is installed
  again, cut short, and then the newer one cut short.
* `AbortsWhole` (detours.cpp:2066): "If any of the pending operations failed, then
  we abort the whole transaction" (detours.cpp:1689): an attach that is refused because
  the function would be its own hook leaves no error behind, and the rest is committed.

Met while modelling, without a run, because they are facts about constants or
about one line, or because the repository does not say what should happen:

* Launcher.java:813 adjusts the total of the progress bar "for the difference" when a
  patch is given up and not the bytes already counted: the bar passes its end.
* Updater.java:298: "Skipping update {} due to {} process {}" is never reached, the test
  is the negation of the `continue` above; on Windows the installer is started
  beside other launchers.
* The installer script tests `ELVARG_UPGRADE` (innosetup/upgrade.pas:15) and the
  launcher sets `RUNELITE_UPGRADE`: the launcher is not started again after an
  update on Windows (`InstallerEnds`).
* `Updater.java:58` and `:258` expect names and a system property
  (`sun.java.command`) that the installers here and packr do not provide: as
  packaged, no installation is recognised (`Recognised`).
* `parseHdiutilPlist` may return null, and the bundle is deleted before it is used.
  `lastUpdateAttemptNum` is never reset after a success, so that a new image starts
  with the back-off of the old ones; the bound of 9 keeps it finite.
* On macOS and Linux the Java links name tar.gz archives, which are read as zip and
  unpack nothing (`Formats`); `"aarch64".contains("64")` makes the branches for ARM
  unreachable.
* `JavaInstaller` opens a fatal error dialog on the launch thread and the launch goes
  on, to a started client if all else is well, but without the window that the dialog
  has closed, perhaps between the launch's test of it and its use (`WarnAboutJava`,
  `LostForAReason`).
* REFLECT asks for the client type `""` (Launcher.java:468) and starts nothing; JVM mode in
  an AppImage throws every time (Launcher.java:479-483); AUTO is FORK in an AppImage and
  in an installation with packr on Windows or macOS, and FORK starts nothing (`Way`,
  `StartsClient`). A key of the
  manifest is found only by a title-cased name (Launcher.java:268, 598). FORK needs
  `sun.java.command`, throws without it, and the process it starts picks
  any of the clients (`findAny`), not the one the user clicked.
* packr stops at `--`: in `-- --help` behind `-c` the launcher, not the client, reads
  `--help`; so would the launcher that FORK starts, of the arguments for the client.
  `--help` of packr itself ends in EXIT_FAILURE.
* On macOS the result of pthread_create is not looked at (packr_macos.cpp:91): without a
  thread for the VM the process waits for ever (`at = "hung"`). `extractClassPath`
  (packr.cpp:219) can loop for ever, though not on the class path that is shipped.
* Detours reads the error it returns after another thread may own the next
  transaction (detours.cpp:1945); DetourUpdateThread tests neither the owner nor the
  state of the transaction (:1948-1987): a thread put on the list late, or one whose
  context cannot be had (:1862), is resumed where its code was, and one that is
  forgotten by a new transaction is never resumed (`Enlist`, `missed`, `stuck`);
  `sizeof(o->pTrampoline)` (:1867) is the size of a pointer, so that a thread
  further in a trampoline is not moved out of it (`EnlistedFollow` names the exception);
  the comment "everything but the first trampoline" and the loop `i > 1` (:1453)
  disagree by one, at the cost of one trampoline per region. A function's code is
  written before the pointer to its original (:1749): liblauncher's hooks then call
  themselves until it is or the stack overflows. liblauncher enlists no thread but its
  own (liblauncher/main.cpp:176), so that a thread of the JVM that is in LoadLibrary
  while DllMain commits may run torn code. Both are confined to calls that began before
  the end of the commit (`OnlyEarlyCallsCrash`).
* PackrConfig.java:76: "this can't happen when run from the launcher". It can, when
  another launcher is copying the file across volumes; the code then returns.
* `isJava17` is true for Java 7 to 9 by their old names ("1.8") and false for Java
  17 (Launcher.java:992-996): newer runtimes get the arguments meant for 11.
* With `--postinstall` a broken manifest still opens windows and dialogs.

## Not modelled

PROJECT.json gives the reason for each component. In short: vendored code, build
scripts and installers are not this program; TLS set-up, properties, detection
of the system and widgets are constants or layout. `HttpRequestManager` appears by its
outcomes. Left out of modelled components: texts, progress bars, options that end
`main` early (except in NativeLauncher), crash file names, the paths of the JVM
library, the console on Windows; of Detours the generation and copying of
instructions, the search for memory near a function, and the settings that
liblauncher does not use.

Most of the C and C++ in this repository is third-party code that the launcher never
runs: of its 82,000 lines, the samples and tests of Detours, its disassembler, image
and symbol tools, Catch and sajson make up all but a few thousand. What runs is
liblauncher (main.cpp), the transactions in detours.cpp, packr and the option
parser of dropt, and these are modelled. The logic of the launcher itself is Java.
A larger share of the C++ could only be had by modelling programs that have nothing
to do with this one.

## Plan

Done, in order of importance: Repository, SelfUpdate, JavaInstaller, Startup and
PackrConfig, each with proofs; VerifiedLaunch and the refinement; VersionOrder with
proofs and its use in SelfUpdate; Detours and its composition with LibLauncher, with
proofs; NativeLauncher with proofs.

Left:

1. `Startup` composed with `Repository`: its parts replaced by the attempt, so that
   clicks on two buttons and on the same button are distinguished.
2. Rankings like those of `AttemptsEnd` and `DllMainEnds` for the other liveness properties.
3. Detours with clients that hook a function which is hooked already, which this
   repository does not do.

Runs are kept to one per question.

## How to run

    tlc -workers 2 -config repository.cfg MCRepository
    tlc -workers 2 -config java.cfg JavaInstaller
    tlc -workers 2 -config hooks.cfg MCLibLauncher
    tlapm RepositoryProofs.tla

Every cfg names its properties; the module of each run is in PROJECT.json.
