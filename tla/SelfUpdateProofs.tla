---------------------------- MODULE SelfUpdateProofs ----------------------------
(***************************************************************************)
(* Proofs about SelfUpdate.  Types hold for any number of processes.  What  *)
(* the updater promises holds for one process at a time: the settings and   *)
(* the bundle are not locked, and with two processes neither the back-off   *)
(* nor the bundle is safe.  For the back-off the settings must be saved     *)
(* when saving is asked for, without a moment at which they are gone.       *)
(***************************************************************************)
EXTENDS SelfUpdate, TLAPS, WellFoundedInduction, SequenceTheorems

Alone == \A p, q \in Procs : p = q

SafeSaves == AtomicMove /\ ~SaveMayFail

\* Between the decision to update and its end.
Attempting == {"load", "download", "mount", "delete", "copy", "relaunch", "install"}

Saving == {"save", "move"}

Attempts(p) ==
  \/ pc[p] \in Attempting
  \/ pc[p] \in Saving /\ target[p] # None

\* An attempt has an update to install, the window has none.
HasTarget ==
  \A p \in Procs :
    /\ pc[p] \in Attempting => target[p] # None
    /\ pc[p] = "form" => target[p] = None

TypeInv == TypeOK /\ HasTarget

-----------------------------------------------------------------------------
(* Types.                                                                  *)

LEMMA LongType == Long \in Nat
  BY UpdateAssumption, PowerAssumption DEF Long

\* Both the defaults and what the file holds are settings.
LEMMA LoadType ==
  ASSUME TypeOK
  PROVE  Load \in Settings /\ Defaults \in Settings
<1>1. Defaults \in Settings
  BY LongType, UpdateAssumption DEF Defaults, Settings
<1> QED
  BY <1>1, SettingsAssumption DEF Load, TypeOK

LEMMA OlderType ==
  ASSUME NEW s \in Settings
  PROVE  /\ Older(s) \in Settings
         /\ Older(s).hash = s.hash /\ Older(s).num = s.num
         /\ Older(s).noupdates = s.noupdates
         /\ Older(s).since = UpTo(s.since + 1, Long)
  BY LongType DEF Older, Settings, UpTo

\* The update that is found is one of the feed.
LEMMA FoundType ==
  ASSUME TypeOK, NEW v
  PROVE  FindAvailableUpdate(feed, v) \in Updates \cup {None}
<1> DEFINE fits == Fits(feed, v)
<1>1. feed \in Seq(Updates)
  BY UpdateAssumption DEF TypeOK
<1>2. CASE \E i \in fits : IsNewest(feed, fits, i)
  <2> DEFINE i == CHOOSE i \in fits : IsNewest(feed, fits, i)
  <2>1. i \in DOMAIN feed
    BY <1>2 DEF Fits
  <2>2. feed[i] \in Updates
    BY <1>1, <2>1
  <2>3. FindAvailableUpdate(feed, v) = feed[i]
    BY <1>2 DEF FindAvailableUpdate, Newest
  <2> QED
    BY <2>2, <2>3
<1>3. CASE ~\E i \in fits : IsNewest(feed, fits, i)
  BY <1>3 DEF FindAvailableUpdate, Newest
<1> QED
  BY <1>2, <1>3

LEMMA InstalledType == Whole => Installed \in Versions
  BY DEF Whole, Installed

\* The settings of an attempt, and of the window, are settings.
LEMMA MineType ==
  ASSUME NEW s \in Settings, NEW u \in Updates
  PROVE  [s EXCEPT !.hash = u.hash, !.since = 0,
                   !.num = UpTo(@ + 1, Cap + 1)] \in Settings
<1> DEFINE n == UpTo(s.num + 1, Cap + 1)
<1>1. n \in 0 .. Cap + 1
  BY UpdateAssumption DEF Settings, UpTo
<1>2. u.hash \in Hashes
  BY DEF Updates
<1>3. 0 \in 0 .. Long
  BY LongType
<1> HIDE DEF n
<1>4. [s EXCEPT !.hash = u.hash, !.since = 0, !.num = n] \in Settings
  BY <1>1, <1>2, <1>3 DEF Settings
<1> QED
  BY <1>4 DEF n

LEMMA FormType ==
  ASSUME NEW s \in Settings, NEW c \in BOOLEAN
  PROVE  [s EXCEPT !.noupdates = c] \in Settings
  BY DEF Settings

LEMMA NeverType ==
  Never \in [hash : Hashes \cup {None}, since : 0 .. Long, tries : 0 .. Cap]
  BY LongType, UpdateAssumption DEF Never

LEMMA OlderRecord ==
  ASSUME TypeOK
  PROVE  /\ Older(last) \in [hash : Hashes \cup {None}, since : 0 .. Long,
                            tries : 0 .. Cap]
         /\ Older(last).hash = last.hash /\ Older(last).tries = last.tries
         /\ Older(last).since = UpTo(last.since + 1, Long)
<1> DEFINE n == UpTo(last.since + 1, Long)
<1>1. n \in 0 .. Long
  BY LongType DEF TypeOK, UpTo
<1> HIDE DEF n
<1> QED
  BY <1>1 DEF TypeOK, Older, n

\* So is what is recorded of an attempt.
LEMMA RecordType ==
  ASSUME TypeOK, NEW p \in Procs, target[p] # None, Saved(p)
  PROVE  last' \in [hash : Hashes \cup {None}, since : 0 .. Long, tries : 0 .. Cap]
<1>1. target[p] \in Updates /\ mine[p] \in Settings
  BY DEF TypeOK
<1>2. target[p].hash \in Hashes /\ mine[p].since \in 0 .. Long
  BY <1>1 DEF Updates, Settings
<1>3. last.tries \in 0 .. Cap
  BY DEF TypeOK
<1>4. UpTo(last.tries + 1, Cap) \in 0 .. Cap /\ 1 \in 0 .. Cap
  BY <1>3, UpdateAssumption DEF UpTo
<1> QED
  BY <1>2, <1>4 DEF Saved

LEMMA TypeInit == Init => TypeInv
<1> SUFFICES ASSUME Init PROVE TypeInv
  OBVIOUS
<1>1. Defaults \in Settings
  BY LongType, UpdateAssumption DEF Defaults, Settings
<1> QED
  BY <1>1, NeverType DEF Init, TypeInv, TypeOK, HasTarget, Points, Attempting

LEMMA TypeStep == TypeInv /\ [Next]_vars => TypeInv'
<1> SUFFICES ASSUME TypeInv, [Next]_vars PROVE TypeInv'
  OBVIOUS
<1> USE DEF TypeInv, TypeOK, HasTarget, Points, Attempting
<1>1. ASSUME NEW p \in Procs, BootstrapFails(p) PROVE TypeInv'
  BY <1>1
  DEF BootstrapFails, Goto, allButPc, world, self, history, procVars
<1>2. ASSUME NEW p \in Procs, CheckForUpdate(p) PROVE TypeInv'
  BY <1>2, FoundType
  DEF CheckForUpdate, Goto, allButPc, world, self, history, procVars
<1>3. ASSUME NEW p \in Procs, SkipUpdate(p) PROVE TypeInv'
  BY <1>3
  DEF SkipUpdate, Goto, allButPc, world, self, history, procVars
<1>4. ASSUME NEW p \in Procs, CommitToUpdate(p) PROVE TypeInv'
  BY <1>4, LoadType, MineType
  DEF CommitToUpdate, Goto, allButPc, world, self, history, procVars
<1>5. ASSUME NEW p \in Procs, SaveAtomically(p) PROVE TypeInv'
  BY <1>5, LoadType, RecordType
  DEF SaveAtomically, Saved, Settings, Goto, allButPc, world, self, history,
      procVars
<1>6. ASSUME NEW p \in Procs, SaveRemove(p) PROVE TypeInv'
  BY <1>6
  DEF SaveRemove, Goto, allButPc, world, self, history, procVars
<1>7. ASSUME NEW p \in Procs, SaveCopy(p) PROVE TypeInv'
  BY <1>7, LoadType, RecordType
  DEF SaveCopy, Saved, Settings, Goto, allButPc, world, self, history, procVars
<1>8. ASSUME NEW p \in Procs, SaveFails(p) PROVE TypeInv'
  BY <1>8, LoadType
  DEF SaveFails, Goto, allButPc, world, self, history, procVars
<1>9. ASSUME NEW p \in Procs, Download(p) PROVE TypeInv'
  BY <1>9
  DEF Download, Goto, allButPc, world, self, history, procVars
<1>10. ASSUME NEW p \in Procs, UpdateFails(p) PROVE TypeInv'
  BY <1>10
  DEF UpdateFails, Goto, allButPc, world, self, history, procVars
<1>11. ASSUME NEW p \in Procs, Mount(p) PROVE TypeInv'
  BY <1>11
  DEF Mount, Goto, allButPc, world, self, history, procVars
<1>12. ASSUME NEW p \in Procs, DeletePart(p) PROVE TypeInv'
  BY <1>12
  DEF DeletePart, Goto, allButPc, world, self, history, procVars
<1>13. ASSUME NEW p \in Procs, DeleteSettings(p) PROVE TypeInv'
  BY <1>13, NeverType
  DEF DeleteSettings, Goto, allButPc, world, self, history, procVars
<1>14. ASSUME NEW p \in Procs, DeleteDone(p) PROVE TypeInv'
  BY <1>14
  DEF DeleteDone, Goto, allButPc, world, self, history, procVars
<1>15. ASSUME NEW p \in Procs, CopyPart(p) PROVE TypeInv'
  BY <1>15
  DEF CopyPart, Updates, Goto, allButPc, world, self, history, procVars
<1>16. ASSUME NEW p \in Procs, CopyDone(p) PROVE TypeInv'
  BY <1>16
  DEF CopyDone, Goto, allButPc, world, self, history, procVars
<1>17. ASSUME NEW p \in Procs, ReplaceFails(p) PROVE TypeInv'
  BY <1>17
  DEF ReplaceFails, Goto, allButPc, world, self, history, procVars
<1>18. ASSUME NEW p \in Procs, Relaunch(p) PROVE TypeInv'
  <2>1. CASE Whole
    <3>1. Load.noupdates \in BOOLEAN /\ Installed \in Versions
      BY <2>1, LoadType, InstalledType DEF Settings
    <3>2. noupdates' \in [Procs -> BOOLEAN]
      BY <1>18, <2>1, <3>1, UpdateAssumption DEF Relaunch, Begin
    <3>3. running' \in [Procs -> Versions]
      BY <1>18, <2>1, <3>1 DEF Relaunch, Begin
    <3>4. upgraded' \in [Procs -> BOOLEAN]
      <4>1. upgraded' = [upgraded EXCEPT ![p] = TRUE]
        BY <1>18, <2>1 DEF Relaunch, Begin
      <4> QED
        BY <4>1
    <3>5. wished' \in [Procs -> BOOLEAN]
      <4>1. wished' = [wished EXCEPT ![p] = wish]
        BY <1>18, <2>1 DEF Relaunch, Begin
      <4> QED
        BY <4>1
    <3>6. /\ target' \in [Procs -> Updates \cup {None}]
          /\ mine' \in [Procs -> Settings]
      BY <1>18, <2>1, LoadType DEF Relaunch, Begin
    <3>7. /\ pc' \in [Procs -> Points]
          /\ HasTarget'
      BY <1>18, <2>1 DEF Relaunch, Begin, Goto
    <3> QED
      BY <1>18, <3>2, <3>3, <3>4, <3>5, <3>6, <3>7 DEF Relaunch, world
  <2>2. CASE ~Whole
    BY <1>18, <2>2 DEF Relaunch, Goto, world, self
  <2> QED
    BY <2>1, <2>2
<1>19. ASSUME NEW p \in Procs, StartInstaller(p) PROVE TypeInv'
  BY <1>19
  DEF StartInstaller, Goto, allButPc, world, self, history, procVars
<1>20. ASSUME NEW p \in Procs, StartLauncher(p) PROVE TypeInv'
  BY SMTT(30), <1>20, LoadType, InstalledType, UpdateAssumption
  DEF StartLauncher, Begin, Settings, Goto, allButPc, world, self, history, procVars
<1>21. ASSUME NEW p \in Procs, OpenForm(p) PROVE TypeInv'
  BY <1>21
  DEF OpenForm, Goto, allButPc, world, self, history, procVars
<1>22. ASSUME NEW p \in Procs, CancelForm(p) PROVE TypeInv'
  BY <1>22
  DEF CancelForm, Goto, allButPc, world, self, history, procVars
<1>23. ASSUME NEW p \in Procs, SaveForm(p) PROVE TypeInv'
  <2>1. PICK c \in Choices : mine' = [mine EXCEPT ![p] = [Load EXCEPT !.noupdates = c]]
    BY <1>23 DEF SaveForm
  <2>2. [Load EXCEPT !.noupdates = c] \in Settings
    BY LoadType, FormType, UpdateAssumption
  <2> QED
    BY <1>23, <2>1, <2>2 DEF SaveForm, Goto, world, self
<1>24. ASSUME NEW p \in Procs, Crash(p) PROVE TypeInv'
  BY <1>24
  DEF Crash, Goto, allButPc, world, self, history, procVars
<1>25. CASE InstallPart
  BY <1>25
  DEF InstallPart, Updates, Goto, allButPc, world, self, history, procVars
<1>26. CASE InstallerEnds
  BY <1>26
  DEF InstallerEnds, Goto, allButPc, world, self, history, procVars
<1>27. CASE Reinstall
  <2>1. app' \in [Parts -> Versions \cup {Absent}]
    BY <1>27 DEF Reinstall
  <2>2. HasTarget'
    BY <1>27 DEF Reinstall, procVars
  <2> QED
    BY <1>27, <2>1, <2>2, NeverType DEF Reinstall, procVars
<1>28. CASE Hour
  BY <1>28, OlderType, OlderRecord
  DEF Hour, Goto, allButPc, world, self, history, procVars
<1>29. CASE Release
  BY <1>29
  DEF Release, Goto, allButPc, world, self, history, procVars
<1>30. CASE Settle
  BY <1>30
  DEF Settle, Goto, allButPc, world, self, history, procVars
<1>31. CASE UNCHANGED vars
  BY <1>31
  DEF vars, Goto, allButPc, world, self, history, procVars
<1> QED
  BY <1>1, <1>2, <1>3, <1>4, <1>5, <1>6, <1>7, <1>8, <1>9, <1>10, <1>11, <1>12,
     <1>13, <1>14, <1>15, <1>16, <1>17, <1>18, <1>19, <1>20, <1>21, <1>22, <1>23,
     <1>24, <1>25, <1>26, <1>27, <1>28, <1>29, <1>30, <1>31
  DEF Next, Proceed, User

\* Settings, bundle, updates and records keep to their types, for any processes,
\* feeds, versions and back-off.
THEOREM TypeCorrect == Spec => []TypeOK
<1>1. TypeInv => TypeOK
  BY DEF TypeInv
<1> QED
  BY TypeInit, TypeStep, <1>1, PTL DEF Spec

-----------------------------------------------------------------------------
(* The choice of the update.                                               *)

\* Versions are named in the order of their release.
NamedInOrder ==
  \A v, w \in Versions : Newer(v, w) <=> Released[v] > Released[w]

TargetFits ==
  \A p \in Procs :
    Attempts(p) => /\ Newer(target[p].version, running[p])
                   /\ ~Newer(target[p].min, running[p])

\* What is found is an update that the launcher may install.
LEMMA FoundFits ==
  ASSUME TypeOK, NEW v, FindAvailableUpdate(feed, v) # None
  PROVE  /\ Newer(FindAvailableUpdate(feed, v).version, v)
         /\ ~Newer(FindAvailableUpdate(feed, v).min, v)
<1>1. PICK i \in Fits(feed, v) : IsNewest(feed, Fits(feed, v), i)
  BY DEF FindAvailableUpdate, Newest
<1> DEFINE i0 == CHOOSE k \in Fits(feed, v) : IsNewest(feed, Fits(feed, v), k)
<1>2. i0 \in Fits(feed, v) /\ FindAvailableUpdate(feed, v) = feed[i0]
  BY <1>1 DEF FindAvailableUpdate, Newest
<1> QED
  BY <1>2 DEF Fits

\* No step but CheckForUpdate sets out on an attempt, and none changes what is
\* attempted or who attempts it.
LEMMA AttemptUnchanged ==
  ASSUME TypeInv, Next, NEW q \in Procs, Attempts(q)', ~CheckForUpdate(q)
  PROVE  Attempts(q) /\ target'[q] = target[q] /\ running'[q] = running[q]
<1> DEFINE Same == Attempts(q) /\ target'[q] = target[q] /\ running'[q] = running[q]
<1> USE DEF Attempts, Attempting, Saving, Goto
<1>0. /\ pc \in [Procs -> Points] /\ target \in [Procs -> Updates \cup {None}]
      /\ running \in [Procs -> Versions] /\ HasTarget
  BY DEF TypeInv, TypeOK
<1>1. ASSUME NEW p \in Procs, CheckForUpdate(p) PROVE Same
  BY <1>0, <1>1 DEF CheckForUpdate, allButPc, self, HasTarget
<1>2. ASSUME NEW p \in Procs, BootstrapFails(p) PROVE Same
  BY <1>0, <1>2 DEF BootstrapFails, allButPc, self, HasTarget
<1>3. ASSUME NEW p \in Procs, SkipUpdate(p) PROVE Same
  BY <1>0, <1>3 DEF SkipUpdate, allButPc, self, HasTarget
<1>4. ASSUME NEW p \in Procs, CommitToUpdate(p) PROVE Same
  BY <1>0, <1>4 DEF CommitToUpdate, allButPc, self, HasTarget
<1>5. ASSUME NEW p \in Procs, SaveAtomically(p) PROVE Same
  BY <1>0, <1>5 DEF SaveAtomically, Saved, allButPc, self, HasTarget
<1>6. ASSUME NEW p \in Procs, SaveRemove(p) PROVE Same
  BY <1>0, <1>6 DEF SaveRemove, allButPc, self, HasTarget
<1>7. ASSUME NEW p \in Procs, SaveCopy(p) PROVE Same
  BY <1>0, <1>7 DEF SaveCopy, Saved, allButPc, self, HasTarget
<1>8. ASSUME NEW p \in Procs, SaveFails(p) PROVE Same
  BY <1>0, <1>8 DEF SaveFails, allButPc, self, HasTarget
<1>9. ASSUME NEW p \in Procs, Download(p) PROVE Same
  BY <1>0, <1>9 DEF Download, allButPc, self, HasTarget
<1>10. ASSUME NEW p \in Procs, UpdateFails(p) PROVE Same
  BY <1>0, <1>10 DEF UpdateFails, allButPc, self, HasTarget
<1>11. ASSUME NEW p \in Procs, Mount(p) PROVE Same
  BY <1>0, <1>11 DEF Mount, allButPc, self, HasTarget
<1>12. ASSUME NEW p \in Procs, DeletePart(p) PROVE Same
  BY <1>0, <1>12 DEF DeletePart, procVars
<1>13. ASSUME NEW p \in Procs, DeleteSettings(p) PROVE Same
  BY <1>0, <1>13 DEF DeleteSettings, procVars
<1>14. ASSUME NEW p \in Procs, DeleteDone(p) PROVE Same
  BY <1>0, <1>14 DEF DeleteDone, allButPc, self, HasTarget
<1>15. ASSUME NEW p \in Procs, CopyPart(p) PROVE Same
  BY <1>0, <1>15 DEF CopyPart, procVars
<1>16. ASSUME NEW p \in Procs, CopyDone(p) PROVE Same
  BY <1>0, <1>16 DEF CopyDone, allButPc, self, HasTarget
<1>17. ASSUME NEW p \in Procs, ReplaceFails(p) PROVE Same
  BY <1>0, <1>17 DEF ReplaceFails, allButPc, self, HasTarget
<1>18. ASSUME NEW p \in Procs, Relaunch(p) PROVE Same
  BY <1>0, <1>18 DEF Relaunch, Begin, allButPc, self, HasTarget
<1>19. ASSUME NEW p \in Procs, StartInstaller(p) PROVE Same
  BY <1>0, <1>19 DEF StartInstaller, allButPc, self, HasTarget
<1>20. ASSUME NEW p \in Procs, StartLauncher(p) PROVE Same
  BY <1>0, <1>20 DEF StartLauncher, Begin, allButPc, self, HasTarget
<1>21. ASSUME NEW p \in Procs, OpenForm(p) PROVE Same
  BY <1>0, <1>21 DEF OpenForm, allButPc, self, HasTarget
<1>22. ASSUME NEW p \in Procs, CancelForm(p) PROVE Same
  BY <1>0, <1>22 DEF CancelForm, allButPc, self, HasTarget
<1>23. ASSUME NEW p \in Procs, SaveForm(p) PROVE Same
  BY <1>0, <1>23 DEF SaveForm, allButPc, self, HasTarget
<1>24. ASSUME NEW p \in Procs, Crash(p) PROVE Same
  BY <1>0, <1>24 DEF Crash, allButPc, self, HasTarget
<1>25. CASE InstallPart
  BY <1>0, <1>25 DEF InstallPart, procVars
<1>26. CASE InstallerEnds
  BY <1>0, <1>26 DEF InstallerEnds, procVars
<1>27. CASE Reinstall
  BY <1>0, <1>27 DEF Reinstall, procVars
<1>28. CASE Hour
  BY <1>0, <1>28 DEF Hour, procVars
<1>29. CASE Release
  BY <1>0, <1>29 DEF Release, procVars
<1>30. CASE Settle
  BY <1>0, <1>30 DEF Settle, procVars
<1> QED
  BY <1>1, <1>2, <1>3, <1>4, <1>5, <1>6, <1>7, <1>8, <1>9, <1>10, <1>11, <1>12,
     <1>13, <1>14, <1>15, <1>16, <1>17, <1>18, <1>19, <1>20, <1>21, <1>22, <1>23,
     <1>24, <1>25, <1>26, <1>27, <1>28, <1>29, <1>30
  DEF Next, Proceed, User

LEMMA TargetStep == TypeInv /\ TargetFits /\ [Next]_vars => TargetFits'
<1> SUFFICES ASSUME TypeInv, TargetFits, [Next]_vars, NEW p \in Procs, Attempts(p)'
             PROVE  /\ Newer(target'[p].version, running'[p])
                    /\ ~Newer(target'[p].min, running'[p])
  BY DEF TargetFits
<1>1. CASE CheckForUpdate(p)
  <2> DEFINE u == FindAvailableUpdate(feed, running[p])
  <2>1. TypeOK /\ HasTarget
    BY DEF TypeInv
  <2>2. u # None /\ target'[p] = u /\ running' = running
    BY <1>1, <2>1
    DEF CheckForUpdate, Attempts, Attempting, Saving, Goto, self, TypeOK
  <2> QED
    BY <2>1, <2>2, FoundFits
<1>2. CASE UNCHANGED vars
  BY <1>2 DEF vars, TargetFits, Attempts
<1>3. CASE Next /\ ~CheckForUpdate(p)
  BY <1>3, AttemptUnchanged DEF TargetFits
<1> QED
  BY <1>1, <1>2, <1>3

\* When the names of versions follow the order of their release, no launcher
\* hands over to an older one, or to one it is too old for, whatever the feeds
\* are and however many launchers run.
THEOREM OnlyForward ==
  ASSUME NamedInOrder
  PROVE  Spec => []UpdatesGoForward
<1>1. Init => TypeInv /\ TargetFits
  BY TypeInit DEF Init, TargetFits, Attempts, Attempting, Saving
<1>2. TypeInv /\ TargetFits /\ [Next]_vars => (TypeInv /\ TargetFits)'
  BY TypeStep, TargetStep
<1>3. TypeInv /\ TargetFits => UpdatesGoForward
  <2> SUFFICES ASSUME TypeInv, TargetFits, NEW p \in Procs,
                      pc[p] \in {"mount", "delete", "copy", "relaunch", "install"}
               PROVE  /\ Released[target[p].version] > Released[running[p]]
                      /\ Released[target[p].min] <= Released[running[p]]
    BY DEF UpdatesGoForward
  <2>1. Attempts(p) /\ target[p] # None
    BY DEF Attempts, Attempting, TypeInv, HasTarget
  <2>2. /\ running[p] \in Versions
        /\ target[p].version \in Versions /\ target[p].min \in Versions
    BY <2>1 DEF TypeInv, TypeOK, Updates
  <2>3. /\ Released[running[p]] \in Nat
        /\ Released[target[p].version] \in Nat /\ Released[target[p].min] \in Nat
    BY <2>2, UpdateAssumption
  <2>4. /\ Released[target[p].version] > Released[running[p]]
        /\ ~(Released[target[p].min] > Released[running[p]])
    BY <2>1, <2>2 DEF TargetFits, NamedInOrder
  <2> QED
    BY <2>3, <2>4
<1> QED
  BY <1>1, <1>2, <1>3, PTL DEF Spec

-----------------------------------------------------------------------------
(* The bundle.                                                             *)

\* What replaces the bundle, a process or the installer, belongs to one platform.
OnePlatform ==
  /\ installer # None => os = "Windows"
  /\ \A p \in Procs :
       /\ pc[p] \in {"mount", "delete", "copy", "relaunch"} => os = "MacOS"
       /\ pc[p] = "install" => os = "Windows"

\* What has been copied is of the image; at the end nothing is missing.
CopiedSoFar ==
  \A p \in Procs :
    pc[p] = "copy" => \A x \in Parts : app[x] \in {Absent, target[p].ships}

BundleInv == TypeInv /\ OnePlatform /\ CopiedSoFar /\ RelaunchesWhole


LEMMA BundleStep == Alone /\ BundleInv /\ [Next]_vars => BundleInv'
<1> SUFFICES ASSUME Alone, BundleInv, [Next]_vars PROVE BundleInv'
  OBVIOUS
<1> DEFINE Bundle == OnePlatform /\ CopiedSoFar /\ RelaunchesWhole
<1>1. TypeInv' /\ TypeOK /\ Bundle
  BY TypeStep DEF BundleInv, TypeInv
<1>2. \A p, q \in Procs : p = q
  BY DEF Alone
<1>3. os \in {"MacOS", "Windows"}
  BY <1>1, UpdateAssumption DEF TypeOK
<1> SUFFICES Bundle'
  BY <1>1 DEF BundleInv
<1> USE DEF OnePlatform, CopiedSoFar, RelaunchesWhole
<1>4. ASSUME NEW p \in Procs, BootstrapFails(p) PROVE Bundle'
  BY <1>4, <1>1, <1>2, <1>3
  DEF BootstrapFails, Goto, allButPc, world, self, history, procVars, TypeOK
<1>5. ASSUME NEW p \in Procs, CheckForUpdate(p) PROVE Bundle'
  BY <1>5, <1>1, <1>2, <1>3
  DEF CheckForUpdate, Goto, allButPc, world, self, history, procVars, TypeOK
<1>6. ASSUME NEW p \in Procs, SkipUpdate(p) PROVE Bundle'
  BY <1>6, <1>1, <1>2, <1>3
  DEF SkipUpdate, Goto, allButPc, world, self, history, procVars, TypeOK
<1>7. ASSUME NEW p \in Procs, CommitToUpdate(p) PROVE Bundle'
  BY <1>7, <1>1, <1>2, <1>3
  DEF CommitToUpdate, Goto, allButPc, world, self, history, procVars, TypeOK
<1>8. ASSUME NEW p \in Procs, SaveAtomically(p) PROVE Bundle'
  BY <1>8, <1>1, <1>2, <1>3
  DEF SaveAtomically, Saved, Goto, allButPc, world, self, history, procVars, TypeOK
<1>9. ASSUME NEW p \in Procs, SaveRemove(p) PROVE Bundle'
  BY <1>9, <1>1, <1>2, <1>3
  DEF SaveRemove, Goto, allButPc, world, self, history, procVars, TypeOK
<1>10. ASSUME NEW p \in Procs, SaveCopy(p) PROVE Bundle'
  BY <1>10, <1>1, <1>2, <1>3
  DEF SaveCopy, Saved, Goto, allButPc, world, self, history, procVars, TypeOK
<1>11. ASSUME NEW p \in Procs, SaveFails(p) PROVE Bundle'
  BY <1>11, <1>1, <1>2, <1>3
  DEF SaveFails, Goto, allButPc, world, self, history, procVars, TypeOK
<1>12. ASSUME NEW p \in Procs, Download(p) PROVE Bundle'
  BY <1>12, <1>1, <1>2, <1>3
  DEF Download, Goto, allButPc, world, self, history, procVars, TypeOK
<1>13. ASSUME NEW p \in Procs, UpdateFails(p) PROVE Bundle'
  BY <1>13, <1>1, <1>2, <1>3
  DEF UpdateFails, Goto, allButPc, world, self, history, procVars, TypeOK
<1>14. ASSUME NEW p \in Procs, Mount(p) PROVE Bundle'
  BY <1>14, <1>1, <1>2, <1>3
  DEF Mount, Goto, allButPc, world, self, history, procVars, TypeOK
<1>15. ASSUME NEW p \in Procs, DeletePart(p) PROVE Bundle'
  BY <1>15, <1>1, <1>2, <1>3
  DEF DeletePart, Goto, allButPc, world, self, history, procVars, TypeOK
<1>16. ASSUME NEW p \in Procs, DeleteSettings(p) PROVE Bundle'
  BY <1>16, <1>1, <1>2, <1>3
  DEF DeleteSettings, Goto, allButPc, world, self, history, procVars, TypeOK
<1>17. ASSUME NEW p \in Procs, DeleteDone(p) PROVE Bundle'
  BY <1>17, <1>1, <1>2, <1>3
  DEF DeleteDone, Goto, allButPc, world, self, history, procVars, TypeOK
<1>18. ASSUME NEW p \in Procs, CopyPart(p) PROVE Bundle'
  BY <1>18, <1>1, <1>2, <1>3
  DEF CopyPart, Goto, allButPc, world, self, history, procVars, TypeOK
<1>19. ASSUME NEW p \in Procs, CopyDone(p) PROVE Bundle'
  BY <1>19, <1>1, <1>2, <1>3
  DEF CopyDone, Goto, allButPc, world, self, history, procVars, TypeOK
<1>20. ASSUME NEW p \in Procs, ReplaceFails(p) PROVE Bundle'
  BY <1>20, <1>1, <1>2, <1>3
  DEF ReplaceFails, Goto, allButPc, world, self, history, procVars, TypeOK
<1>21. ASSUME NEW p \in Procs, Relaunch(p) PROVE Bundle'
  BY <1>21, <1>1, <1>2, <1>3
  DEF Relaunch, Begin, Goto, allButPc, world, self, history, procVars, TypeOK
<1>22. ASSUME NEW p \in Procs, StartInstaller(p) PROVE Bundle'
  BY <1>22, <1>1, <1>2, <1>3
  DEF StartInstaller, Goto, allButPc, world, self, history, procVars, TypeOK
<1>23. ASSUME NEW p \in Procs, StartLauncher(p) PROVE Bundle'
  BY <1>23, <1>1, <1>2, <1>3
  DEF StartLauncher, Begin, Goto, allButPc, world, self, history, procVars, TypeOK
<1>24. ASSUME NEW p \in Procs, OpenForm(p) PROVE Bundle'
  BY <1>24, <1>1, <1>2, <1>3
  DEF OpenForm, Goto, allButPc, world, self, history, procVars, TypeOK
<1>25. ASSUME NEW p \in Procs, CancelForm(p) PROVE Bundle'
  BY <1>25, <1>1, <1>2, <1>3
  DEF CancelForm, Goto, allButPc, world, self, history, procVars, TypeOK
<1>26. ASSUME NEW p \in Procs, SaveForm(p) PROVE Bundle'
  BY <1>26, <1>1, <1>2, <1>3
  DEF SaveForm, Goto, allButPc, world, self, history, procVars, TypeOK
<1>27. ASSUME NEW p \in Procs, Crash(p) PROVE Bundle'
  BY <1>27, <1>1, <1>2, <1>3
  DEF Crash, Goto, allButPc, world, self, history, procVars, TypeOK
<1>28. CASE InstallPart
  BY <1>28, <1>1, <1>2, <1>3
  DEF InstallPart, Goto, allButPc, world, self, history, procVars, TypeOK
<1>29. CASE InstallerEnds
  BY <1>29, <1>1, <1>2, <1>3
  DEF InstallerEnds, Goto, allButPc, world, self, history, procVars, TypeOK
<1>30. CASE Reinstall
  BY <1>30, <1>1, <1>2, <1>3
  DEF Reinstall, Goto, allButPc, world, self, history, procVars, TypeOK
<1>31. CASE Hour
  BY <1>31, <1>1, <1>2, <1>3
  DEF Hour, Goto, allButPc, world, self, history, procVars, TypeOK
<1>32. CASE Release
  BY <1>32, <1>1, <1>2, <1>3
  DEF Release, Goto, allButPc, world, self, history, procVars, TypeOK
<1>33. CASE Settle
  BY <1>33, <1>1, <1>2, <1>3
  DEF Settle, Goto, allButPc, world, self, history, procVars, TypeOK
<1>34. CASE UNCHANGED vars
  BY <1>34, <1>1, <1>2, <1>3
  DEF vars, Goto, allButPc, world, self, history, procVars, TypeOK
<1> QED
  BY <1>4, <1>5, <1>6, <1>7, <1>8, <1>9, <1>10, <1>11, <1>12, <1>13, <1>14, <1>15,
     <1>16, <1>17, <1>18, <1>19, <1>20, <1>21, <1>22, <1>23, <1>24, <1>25, <1>26,
     <1>27, <1>28, <1>29, <1>30, <1>31, <1>32, <1>33, <1>34
  DEF Next, Proceed, User

\* With one process at a time, the launcher that is started after an update
\* finds all of the new version, and of no other.
THEOREM BundleWhole ==
  ASSUME Alone
  PROVE  Spec => []RelaunchesWhole
<1>1. Init => BundleInv
  BY TypeInit DEF Init, BundleInv, OnePlatform, CopiedSoFar, RelaunchesWhole
<1>2. BundleInv /\ [Next]_vars => BundleInv'
  BY BundleStep
<1>3. BundleInv => RelaunchesWhole
  BY DEF BundleInv
<1> QED
  BY <1>1, <1>2, <1>3, PTL DEF Spec

-----------------------------------------------------------------------------
(* "Disable updates".                                                      *)

\* The last choice is in the file as long as it is to disable updates.
WishKept == wish => file # Unreadable /\ file.noupdates

\* A launcher that was started after this choice has read it.
WishRead ==
  \A p \in Procs :
    pc[p] = "boot" => wished[p] = wish /\ (wished[p] => noupdates[p])

\* Neither an attempt nor a window that saves is at work while it stands.
NoWishAtWork ==
  \A p \in Procs :
    /\ Attempts(p) => ~wished[p] /\ ~wish
    /\ pc[p] \in Saving => ~wish

WishInv == TypeInv /\ WishKept /\ WishRead /\ NoWishAtWork


LEMMA WishStep == Alone /\ WishInv /\ [Next]_vars => WishInv'
<1> SUFFICES ASSUME Alone, WishInv, [Next]_vars PROVE WishInv'
  OBVIOUS
<1> DEFINE Kept == WishKept /\ WishRead /\ NoWishAtWork
<1>1. TypeInv' /\ TypeInv /\ TypeOK /\ Kept
  BY TypeStep DEF WishInv, TypeInv
<1>2. \A p, q \in Procs : p = q
  BY DEF Alone
<1> SUFFICES Kept'
  BY <1>1 DEF WishInv
<1> USE DEF WishKept, WishRead, NoWishAtWork, Attempts, Attempting, Saving
<1>3. ASSUME NEW p \in Procs, BootstrapFails(p) PROVE Kept'
  BY <1>3, <1>1, <1>2
  DEF BootstrapFails, Goto, allButPc, world, self, history, procVars, TypeOK
<1>4. ASSUME NEW p \in Procs, CheckForUpdate(p) PROVE Kept'
  BY <1>4, <1>1, <1>2
  DEF CheckForUpdate, TypeInv, HasTarget, Goto, allButPc, world, self, history,
      procVars, TypeOK
<1>5. ASSUME NEW p \in Procs, SkipUpdate(p) PROVE Kept'
  BY <1>5, <1>1, <1>2
  DEF SkipUpdate, Goto, allButPc, world, self, history, procVars, TypeOK
<1>6. ASSUME NEW p \in Procs, CommitToUpdate(p) PROVE Kept'
  BY <1>6, <1>1, <1>2
  DEF CommitToUpdate, Goto, allButPc, world, self, history, procVars, TypeOK
<1>7. ASSUME NEW p \in Procs, SaveAtomically(p) PROVE Kept'
  BY <1>7, <1>1, <1>2, SettingsAssumption
  DEF SaveAtomically, Saved, Settings, Goto, allButPc, world, self, history,
      procVars, TypeOK
<1>8. ASSUME NEW p \in Procs, SaveRemove(p) PROVE Kept'
  BY <1>8, <1>1, <1>2
  DEF SaveRemove, Goto, allButPc, world, self, history, procVars, TypeOK
<1>9. ASSUME NEW p \in Procs, SaveCopy(p) PROVE Kept'
  BY <1>9, <1>1, <1>2, SettingsAssumption
  DEF SaveCopy, Saved, Settings, Goto, allButPc, world, self, history, procVars,
      TypeOK
<1>10. ASSUME NEW p \in Procs, SaveFails(p) PROVE Kept'
  BY <1>10, <1>1, <1>2
  DEF SaveFails, Goto, allButPc, world, self, history, procVars, TypeOK
<1>11. ASSUME NEW p \in Procs, Download(p) PROVE Kept'
  BY <1>11, <1>1, <1>2
  DEF Download, Goto, allButPc, world, self, history, procVars, TypeOK
<1>12. ASSUME NEW p \in Procs, UpdateFails(p) PROVE Kept'
  BY <1>12, <1>1, <1>2
  DEF UpdateFails, Goto, allButPc, world, self, history, procVars, TypeOK
<1>13. ASSUME NEW p \in Procs, Mount(p) PROVE Kept'
  BY <1>13, <1>1, <1>2
  DEF Mount, Goto, allButPc, world, self, history, procVars, TypeOK
<1>14. ASSUME NEW p \in Procs, DeletePart(p) PROVE Kept'
  BY <1>14, <1>1, <1>2
  DEF DeletePart, Goto, allButPc, world, self, history, procVars, TypeOK
<1>15. ASSUME NEW p \in Procs, DeleteSettings(p) PROVE Kept'
  BY <1>15, <1>1, <1>2
  DEF DeleteSettings, Goto, allButPc, world, self, history, procVars, TypeOK
<1>16. ASSUME NEW p \in Procs, DeleteDone(p) PROVE Kept'
  BY <1>16, <1>1, <1>2
  DEF DeleteDone, Goto, allButPc, world, self, history, procVars, TypeOK
<1>17. ASSUME NEW p \in Procs, CopyPart(p) PROVE Kept'
  BY <1>17, <1>1, <1>2
  DEF CopyPart, Goto, allButPc, world, self, history, procVars, TypeOK
<1>18. ASSUME NEW p \in Procs, CopyDone(p) PROVE Kept'
  BY <1>18, <1>1, <1>2
  DEF CopyDone, Goto, allButPc, world, self, history, procVars, TypeOK
<1>19. ASSUME NEW p \in Procs, ReplaceFails(p) PROVE Kept'
  BY <1>19, <1>1, <1>2
  DEF ReplaceFails, Goto, allButPc, world, self, history, procVars, TypeOK
<1>20. ASSUME NEW p \in Procs, Relaunch(p) PROVE Kept'
  BY <1>20, <1>1, <1>2, LoadType
  DEF Relaunch, Begin, Load, Settings, Goto, allButPc, world, self, history,
      procVars, TypeOK
<1>21. ASSUME NEW p \in Procs, StartInstaller(p) PROVE Kept'
  BY <1>21, <1>1, <1>2
  DEF StartInstaller, Goto, allButPc, world, self, history, procVars, TypeOK
<1>22. ASSUME NEW p \in Procs, StartLauncher(p) PROVE Kept'
  BY <1>22, <1>1, <1>2, LoadType
  DEF StartLauncher, Begin, Load, Settings, Goto, allButPc, world, self, history,
      procVars, TypeOK
<1>23. ASSUME NEW p \in Procs, OpenForm(p) PROVE Kept'
  BY <1>23, <1>1, <1>2
  DEF OpenForm, Goto, allButPc, world, self, history, procVars, TypeOK
<1>24. ASSUME NEW p \in Procs, CancelForm(p) PROVE Kept'
  BY <1>24, <1>1, <1>2
  DEF CancelForm, Goto, allButPc, world, self, history, procVars, TypeOK
<1>25. ASSUME NEW p \in Procs, SaveForm(p) PROVE Kept'
  BY <1>25, <1>1, <1>2
  DEF SaveForm, TypeInv, HasTarget, Goto, allButPc, world, self, history, procVars,
      TypeOK
<1>26. ASSUME NEW p \in Procs, Crash(p) PROVE Kept'
  BY <1>26, <1>1, <1>2
  DEF Crash, Goto, allButPc, world, self, history, procVars, TypeOK
<1>27. CASE InstallPart
  BY <1>27, <1>1, <1>2
  DEF InstallPart, Goto, allButPc, world, self, history, procVars, TypeOK
<1>28. CASE InstallerEnds
  BY <1>28, <1>1, <1>2
  DEF InstallerEnds, Goto, allButPc, world, self, history, procVars, TypeOK
<1>29. CASE Reinstall
  BY <1>29, <1>1, <1>2
  DEF Reinstall, Goto, allButPc, world, self, history, procVars, TypeOK
<1>30. CASE Hour
  BY <1>30, <1>1, <1>2, OlderType, SettingsAssumption
  DEF Hour, Goto, allButPc, world, self, history, procVars, TypeOK
<1>31. CASE Release
  BY <1>31, <1>1, <1>2
  DEF Release, Goto, allButPc, world, self, history, procVars, TypeOK
<1>32. CASE Settle
  BY <1>32, <1>1, <1>2
  DEF Settle, Goto, allButPc, world, self, history, procVars, TypeOK
<1>33. CASE UNCHANGED vars
  BY <1>33, <1>1, <1>2
  DEF vars, Goto, allButPc, world, self, history, procVars, TypeOK
<1> QED
  BY <1>3, <1>4, <1>5, <1>6, <1>7, <1>8, <1>9, <1>10, <1>11, <1>12, <1>13, <1>14,
     <1>15, <1>16, <1>17, <1>18, <1>19, <1>20, <1>21, <1>22, <1>23, <1>24, <1>25,
     <1>26, <1>27, <1>28, <1>29, <1>30, <1>31, <1>32, <1>33
  DEF Next, Proceed, User

\* With one process at a time, a launcher started after "Disable updates" was
\* saved makes no attempt, whatever was to fail or to be saved before it.
THEOREM WishObeyed ==
  ASSUME Alone
  PROVE  Spec => []NoUpdatesHonoured
<1>1. Init => WishInv
  BY TypeInit
  DEF Init, WishInv, WishKept, WishRead, NoWishAtWork, Attempts, Attempting, Saving
<1>2. WishInv /\ [Next]_vars => WishInv'
  BY WishStep
<1>3. WishInv => NoUpdatesHonoured
  BY DEF WishInv, NoWishAtWork, Attempts, Attempting, NoUpdatesHonoured
<1> QED
  BY <1>1, <1>2, <1>3, PTL DEF Spec

-----------------------------------------------------------------------------
(* The back-off.                                                           *)

\* The file remembers the last attempt, and no fewer than were made in a row.
AttemptKept ==
  last.hash # None =>
    /\ file # Unreadable
    /\ file.hash = last.hash /\ file.since = last.since
    /\ last.tries <= file.num

\* What the window is about to save has the attempts that the file has ...
FormKeepsAttempts ==
  \A p \in Procs :
    pc[p] = "save" /\ target[p] = None =>
      mine[p].hash = Load.hash /\ mine[p].since = Load.since /\ mine[p].num = Load.num

\* ... and an attempt has one more, and was not too early.
AttemptCounted ==
  \A p \in Procs :
    pc[p] = "save" /\ target[p] # None =>
      /\ mine[p].hash = target[p].hash
      /\ mine[p].num = UpTo(Load.num + 1, Cap + 1)
      /\ ~TooEarly(Load, target[p])

\* Saving takes no time.
SavesAtOnce == \A p \in Procs : pc[p] # "move"

BackoffInv ==
  /\ TypeInv /\ AttemptKept /\ FormKeepsAttempts /\ AttemptCounted /\ SavesAtOnce

\* An hour takes nothing from the agreement of settings and records.
LEMMA LoadOlder ==
  ASSUME TypeOK, Hour
  PROVE  /\ Load'.hash = Load.hash /\ Load'.num = Load.num
         /\ Load'.since = UpTo(Load.since + 1, Long)
<1>1. CASE file = Unreadable
  <2>1. file' = Unreadable
    BY <1>1 DEF Hour
  <2> QED
    BY <1>1, <2>1, LongType DEF Load, Defaults, UpTo
<1>2. CASE file # Unreadable
  <2>1. file \in Settings /\ file' = Older(file)
    BY <1>2 DEF TypeOK, Hour
  <2> QED
    BY <1>2, <2>1, OlderType, SettingsAssumption DEF Load
<1> QED
  BY <1>1, <1>2

\* What was not too early is not too early an hour later.
LEMMA NotEarlier ==
  ASSUME NEW s \in Settings, NEW t \in Settings, NEW u, ~TooEarly(s, u),
         t.hash = s.hash, t.num = s.num, t.since = UpTo(s.since + 1, Long)
  PROVE  ~TooEarly(t, u)
<1>1. s.since \in 0 .. Long /\ s.num \in 0 .. Cap + 1
  BY DEF Settings
<1>2. t.since >= s.since
  BY <1>1, LongType DEF UpTo
<1>3. UpTo(s.num, Cap) \in 0 .. Cap
  BY <1>1, UpdateAssumption DEF UpTo
<1>4. Backoff(s.num) \in Nat
  BY <1>3, PowerAssumption DEF Backoff
<1>5. t.since \in Nat
  BY <1>1, LongType DEF UpTo
<1> QED
  BY <1>1, <1>2, <1>4, <1>5 DEF TooEarly

LEMMA BackoffStep == Alone /\ SafeSaves /\ BackoffInv /\ [Next]_vars => BackoffInv'
<1> SUFFICES ASSUME Alone, SafeSaves, BackoffInv, [Next]_vars PROVE BackoffInv'
  OBVIOUS
<1> DEFINE Counted == /\ AttemptKept /\ FormKeepsAttempts
                      /\ AttemptCounted /\ SavesAtOnce
<1>1. TypeInv' /\ TypeInv /\ TypeOK /\ Counted
  BY TypeStep DEF BackoffInv, TypeInv
<1>2. /\ \A p, q \in Procs : p = q
      /\ AtomicMove /\ ~SaveMayFail
  BY DEF Alone, SafeSaves
<1> SUFFICES Counted'
  BY <1>1 DEF BackoffInv
<1> USE DEF AttemptKept, FormKeepsAttempts, AttemptCounted, SavesAtOnce
<1>3. ASSUME NEW p \in Procs, BootstrapFails(p) PROVE Counted'
  BY <1>3, <1>1, <1>2
  DEF BootstrapFails, Goto, allButPc, world, self, history, procVars, Load, TypeOK
<1>4. ASSUME NEW p \in Procs, CheckForUpdate(p) PROVE Counted'
  BY <1>4, <1>1, <1>2
  DEF CheckForUpdate, Goto, allButPc, world, self, history, procVars, Load, TypeOK
<1>5. ASSUME NEW p \in Procs, SkipUpdate(p) PROVE Counted'
  BY <1>5, <1>1, <1>2
  DEF SkipUpdate, Goto, allButPc, world, self, history, procVars, Load, TypeOK
<1>6. ASSUME NEW p \in Procs, CommitToUpdate(p) PROVE Counted'
  <2>1. /\ \A q \in Procs : q = p
        /\ Load' = Load /\ last' = last /\ file' = file /\ target' = target
        /\ pc'[p] = "save" /\ target[p] \in Updates
        /\ ~TooEarly(Load, target[p])
    BY <1>1, <1>2, <1>6
    DEF CommitToUpdate, Goto, world, self, history, Load, TypeInv, HasTarget,
        Attempting, TypeOK
  <2>2. mine'[p] = [Load EXCEPT !.hash = target[p].hash, !.since = 0,
                                !.num = UpTo(@ + 1, Cap + 1)]
    BY <1>1, <1>6 DEF CommitToUpdate, TypeOK
  <2>3. mine'[p].hash = target[p].hash /\ mine'[p].num = UpTo(Load.num + 1, Cap + 1)
    BY <1>1, <2>2, LoadType DEF Settings
  <2>4. target[p] # None
    BY <2>1, UpdateAssumption
  <2>5. AttemptCounted'
    BY <2>1, <2>3, <2>4 DEF TooEarly
  <2> QED
    BY <1>1, <2>1, <2>4, <2>5
<1>7. ASSUME NEW p \in Procs, SaveAtomically(p) PROVE Counted'
  <2>1. /\ pc[p] = "save" /\ file' = mine[p] /\ mine[p] \in Settings
        /\ pc'[p] # "save" /\ pc'[p] # "move"
        /\ \A q \in Procs : q = p
    BY <1>1, <1>2, <1>7 DEF SaveAtomically, Saved, Goto, TypeOK
  <2>2. file' # Unreadable
    BY <2>1, SettingsAssumption
  <2>3. CASE target[p] = None
    <3>1. last' = last
      BY <1>7, <2>3 DEF SaveAtomically, Saved
    <3>2. AttemptKept'
      BY <1>1, <2>1, <2>2, <2>3, <3>1 DEF Load
    <3> QED
      BY <2>1, <3>2
  <2>4. CASE target[p] # None
    <3>1. /\ last'.hash = target[p].hash /\ last'.since = mine[p].since
          /\ last'.tries = IF last.hash = target[p].hash
                           THEN UpTo(last.tries + 1, Cap) ELSE 1
      BY <1>7, <2>4 DEF SaveAtomically, Saved
    <3>2. mine[p].hash = target[p].hash /\ mine[p].num = UpTo(Load.num + 1, Cap + 1)
      BY <1>1, <2>1, <2>4
    <3>3. target[p].hash # None
      BY <1>1, <2>4, UpdateAssumption DEF TypeOK, Updates
    <3>4. last.hash = target[p].hash => last.tries <= Load.num
      BY <1>1, <3>3 DEF Load
    <3>5. Load.num \in 0 .. Cap + 1 /\ last.tries \in 0 .. Cap
      BY <1>1, LoadType DEF TypeOK, Settings
    <3>6. last'.tries <= mine[p].num
      BY <3>1, <3>2, <3>4, <3>5, UpdateAssumption DEF UpTo
    <3>7. AttemptKept'
      BY <2>1, <2>2, <3>1, <3>2, <3>6
    <3> QED
      BY <2>1, <3>7
  <2> QED
    BY <2>3, <2>4
<1>8. ASSUME NEW p \in Procs, SaveRemove(p) PROVE Counted'
  BY <1>8, <1>1, <1>2
  DEF SaveRemove, Goto, allButPc, world, self, history, procVars, Load, TypeOK
<1>9. ASSUME NEW p \in Procs, SaveCopy(p) PROVE Counted'
  BY <1>9, <1>1, <1>2
  DEF SaveCopy, Saved, Goto, allButPc, world, self, history, procVars, Load, TypeOK
<1>10. ASSUME NEW p \in Procs, SaveFails(p) PROVE Counted'
  BY <1>10, <1>1, <1>2
  DEF SaveFails, Goto, allButPc, world, self, history, procVars, Load, TypeOK
<1>11. ASSUME NEW p \in Procs, Download(p) PROVE Counted'
  BY <1>11, <1>1, <1>2
  DEF Download, Goto, allButPc, world, self, history, procVars, Load, TypeOK
<1>12. ASSUME NEW p \in Procs, UpdateFails(p) PROVE Counted'
  BY <1>12, <1>1, <1>2
  DEF UpdateFails, Goto, allButPc, world, self, history, procVars, Load, TypeOK
<1>13. ASSUME NEW p \in Procs, Mount(p) PROVE Counted'
  BY <1>13, <1>1, <1>2
  DEF Mount, Goto, allButPc, world, self, history, procVars, Load, TypeOK
<1>14. ASSUME NEW p \in Procs, DeletePart(p) PROVE Counted'
  BY <1>14, <1>1, <1>2
  DEF DeletePart, Goto, allButPc, world, self, history, procVars, Load, TypeOK
<1>15. ASSUME NEW p \in Procs, DeleteSettings(p) PROVE Counted'
  BY <1>15, <1>1, <1>2
  DEF DeleteSettings, Never, Goto, allButPc, world, self, history, procVars, Load,
      TypeOK
<1>16. ASSUME NEW p \in Procs, DeleteDone(p) PROVE Counted'
  BY <1>16, <1>1, <1>2
  DEF DeleteDone, Goto, allButPc, world, self, history, procVars, Load, TypeOK
<1>17. ASSUME NEW p \in Procs, CopyPart(p) PROVE Counted'
  BY <1>17, <1>1, <1>2
  DEF CopyPart, Goto, allButPc, world, self, history, procVars, Load, TypeOK
<1>18. ASSUME NEW p \in Procs, CopyDone(p) PROVE Counted'
  BY <1>18, <1>1, <1>2
  DEF CopyDone, Goto, allButPc, world, self, history, procVars, Load, TypeOK
<1>19. ASSUME NEW p \in Procs, ReplaceFails(p) PROVE Counted'
  BY <1>19, <1>1, <1>2
  DEF ReplaceFails, Goto, allButPc, world, self, history, procVars, Load, TypeOK
<1>20. ASSUME NEW p \in Procs, Relaunch(p) PROVE Counted'
  BY <1>20, <1>1, <1>2
  DEF Relaunch, Begin, Goto, allButPc, world, self, history, procVars, Load, TypeOK
<1>21. ASSUME NEW p \in Procs, StartInstaller(p) PROVE Counted'
  BY <1>21, <1>1, <1>2
  DEF StartInstaller, Goto, allButPc, world, self, history, procVars, Load, TypeOK
<1>22. ASSUME NEW p \in Procs, StartLauncher(p) PROVE Counted'
  BY <1>22, <1>1, <1>2
  DEF StartLauncher, Begin, Goto, allButPc, world, self, history, procVars, Load,
      TypeOK
<1>23. ASSUME NEW p \in Procs, OpenForm(p) PROVE Counted'
  BY <1>23, <1>1, <1>2
  DEF OpenForm, Goto, allButPc, world, self, history, procVars, Load, TypeOK
<1>24. ASSUME NEW p \in Procs, CancelForm(p) PROVE Counted'
  BY <1>24, <1>1, <1>2
  DEF CancelForm, Goto, allButPc, world, self, history, procVars, Load, TypeOK
<1>25. ASSUME NEW p \in Procs, SaveForm(p) PROVE Counted'
  <2>1. /\ \A q \in Procs : q = p
        /\ Load' = Load /\ last' = last /\ file' = file /\ target' = target
        /\ pc'[p] = "save" /\ target[p] = None
    BY <1>1, <1>2, <1>25
    DEF SaveForm, Goto, world, self, Load, TypeInv, HasTarget, TypeOK
  <2>2. PICK c \in Choices : mine' = [mine EXCEPT ![p] = [Load EXCEPT !.noupdates = c]]
    BY <1>25 DEF SaveForm
  <2>3. mine'[p] = [Load EXCEPT !.noupdates = c]
    BY <1>1, <2>2 DEF TypeOK
  <2>4. /\ mine'[p].hash = Load.hash /\ mine'[p].since = Load.since
        /\ mine'[p].num = Load.num
    BY <1>1, <2>3, LoadType DEF Settings
  <2>5. FormKeepsAttempts'
    BY <2>1, <2>4
  <2> QED
    BY <1>1, <2>1, <2>5
<1>26. ASSUME NEW p \in Procs, Crash(p) PROVE Counted'
  BY <1>26, <1>1, <1>2
  DEF Crash, Goto, allButPc, world, self, history, procVars, Load, TypeOK
<1>27. CASE InstallPart
  BY <1>27, <1>1, <1>2
  DEF InstallPart, Goto, allButPc, world, self, history, procVars, Load, TypeOK
<1>28. CASE InstallerEnds
  BY <1>28, <1>1, <1>2
  DEF InstallerEnds, Goto, allButPc, world, self, history, procVars, Load, TypeOK
<1>29. CASE Reinstall
  BY <1>29, <1>1, <1>2
  DEF Reinstall, Never, Goto, allButPc, world, self, history, procVars, Load, TypeOK
<1>30. CASE Hour
  <2>1. /\ Load' \in Settings /\ Load \in Settings
        /\ Load'.hash = Load.hash /\ Load'.num = Load.num
        /\ Load'.since = UpTo(Load.since + 1, Long)
    <3>1. TypeOK'
      BY <1>1 DEF TypeInv
    <3>2. Load' \in Settings
      BY <3>1, LoadType, LongType, UpdateAssumption, SettingsAssumption
      DEF TypeOK, Load, Defaults, Settings
    <3> QED
      BY <1>1, <1>30, <3>2, LoadOlder, LoadType
  <2>2. AttemptKept'
    <3>1. /\ last'.hash = last.hash /\ last'.tries = last.tries
          /\ last'.since = UpTo(last.since + 1, Long)
      BY <1>1, <1>30, OlderRecord DEF Hour
    <3>2. ASSUME last.hash # None
          PROVE  /\ file' # Unreadable
                 /\ file'.hash = file.hash /\ file'.num = file.num
                 /\ file'.since = UpTo(file.since + 1, Long)
      <4>1. file \in Settings /\ file' = Older(file)
        BY <1>1, <1>30, <3>2 DEF TypeOK, Hour
      <4> QED
        BY <4>1, OlderType, SettingsAssumption
    <3> QED
      BY <1>1, <3>1, <3>2
  <2>3. ASSUME NEW p \in Procs
        PROVE  /\ mine'[p].hash = mine[p].hash /\ mine'[p].num = mine[p].num
               /\ mine'[p].since = UpTo(mine[p].since + 1, Long)
    <3>1. mine[p] \in Settings /\ mine'[p] = Older(mine[p])
      BY <1>1, <1>30 DEF Hour, TypeOK
    <3> QED
      BY <3>1, OlderType
  <2>4. pc' = pc /\ target' = target
    BY <1>30 DEF Hour
  <2>5. FormKeepsAttempts'
    BY <1>1, <2>1, <2>3, <2>4
  <2>6. AttemptCounted'
    <3>1. ASSUME NEW p \in Procs, pc[p] = "save", target[p] # None
          PROVE  ~TooEarly(Load', target[p])
      BY <1>1, <2>1, <3>1, NotEarlier
    <3> QED
      BY <1>1, <2>1, <2>3, <2>4, <3>1 DEF TooEarly
  <2> QED
    BY <1>1, <2>2, <2>4, <2>5, <2>6
<1>31. CASE Release
  BY <1>31, <1>1, <1>2
  DEF Release, Goto, allButPc, world, self, history, procVars, Load, TypeOK
<1>32. CASE Settle
  BY <1>32, <1>1, <1>2
  DEF Settle, Goto, allButPc, world, self, history, procVars, Load, TypeOK
<1>33. CASE UNCHANGED vars
  BY <1>33, <1>1, <1>2
  DEF vars, Goto, allButPc, world, self, history, procVars, Load, TypeOK
<1> QED
  BY <1>3, <1>4, <1>5, <1>6, <1>7, <1>8, <1>9, <1>10, <1>11, <1>12, <1>13, <1>14,
     <1>15, <1>16, <1>17, <1>18, <1>19, <1>20, <1>21, <1>22, <1>23, <1>24, <1>25,
     <1>26, <1>27, <1>28, <1>29, <1>30, <1>31, <1>32, <1>33
  DEF Next, Proceed, User


\* An attempt begins when the settings are saved for an update, and no sooner.
LEMMA AttemptBegins ==
  ASSUME BackoffInv, [Next]_vars, NEW p \in Procs,
         pc[p] # "download", pc'[p] = "download"
  PROVE  pc[p] = "save" /\ target[p] # None
<1>1. TypeOK /\ SavesAtOnce
  BY DEF BackoffInv, TypeInv
<1>2. PICK q \in Procs :
        SaveAtomically(q) \/ SaveCopy(q) \/ SaveFails(q)
  <2> SUFFICES \E q \in Procs :
                 SaveAtomically(q) \/ SaveCopy(q) \/ SaveFails(q)
    OBVIOUS
  <2>1. \/ pc' = pc
        \/ \E q \in Procs : \E x : x # "download" /\ Goto(q, x)
        \/ \E q \in Procs : SaveAtomically(q) \/ SaveCopy(q) \/ SaveFails(q)
    BY ZenonT(60)
    DEF Next, vars, Proceed, User, Crash, BootstrapFails, CheckForUpdate, SkipUpdate,
        CommitToUpdate, SaveRemove, Download, UpdateFails, Mount, DeletePart,
        DeleteSettings, DeleteDone, CopyPart, CopyDone, ReplaceFails, Relaunch,
        StartInstaller, StartLauncher, Begin, OpenForm, CancelForm, SaveForm,
        InstallPart, InstallerEnds, Reinstall, Hour, Release, Settle, procVars,
        allButPc, world
  <2> QED
    BY <1>1, <2>1 DEF Goto, TypeOK
<1> QED
  BY <1>1, <1>2
  DEF SaveAtomically, SaveCopy, SaveFails, Saved, Goto, TypeOK, SavesAtOnce

\* With one process at a time and settings that are always saved, no attempt at
\* an image is made before the hours that the attempts before it are worth.
THEOREM BackoffHolds ==
  ASSUME Alone, SafeSaves
  PROVE  Spec => BackoffRespected
<1>1. Init => BackoffInv
  BY TypeInit
  DEF Init, BackoffInv, AttemptKept, FormKeepsAttempts, AttemptCounted, SavesAtOnce,
      Never
<1>2. BackoffInv /\ [Next]_vars => BackoffInv'
  BY BackoffStep
<1> DEFINE Waited(p) ==
      pc[p] # "download" /\ pc'[p] = "download" /\ last.hash = target[p].hash
        => last.since >= 2 ^ UpTo(last.tries, Cap)
<1>3. BackoffInv /\ [Next]_vars => [\A p \in Procs : Waited(p)]_vars
  <2> SUFFICES ASSUME BackoffInv, [Next]_vars, NEW p \in Procs,
                      pc[p] # "download", pc'[p] = "download",
                      last.hash = target[p].hash
               PROVE  last.since >= 2 ^ UpTo(last.tries, Cap)
    OBVIOUS
  <2>1. TypeOK /\ AttemptKept /\ AttemptCounted
    BY DEF BackoffInv, TypeInv
  <2>2. pc[p] = "save" /\ target[p] # None
    BY AttemptBegins
  <2>3. target[p].hash # None
    BY <2>1, <2>2, UpdateAssumption DEF TypeOK, Updates
  <2>4. /\ Load.hash = target[p].hash /\ Load.since = last.since
        /\ last.tries <= Load.num
    BY <2>1, <2>3 DEF AttemptKept, Load
  <2>5. /\ Load.num \in 0 .. Cap + 1 /\ Load.since \in 0 .. Long
        /\ last.tries \in 0 .. Cap
    BY <2>1, LoadType DEF TypeOK, Settings
  <2> DEFINE m == UpTo(last.tries, Cap)
             n == UpTo(Load.num, Cap)
  <2>6. m \in 0 .. Cap /\ n \in 0 .. Cap /\ m <= n
    BY <2>4, <2>5, UpdateAssumption DEF UpTo
  <2>7. ~(Load.since < 2 ^ n)
    BY <2>1, <2>2, <2>4 DEF AttemptCounted, TooEarly, Backoff
  <2> HIDE DEF m, n
  <2>8. 2 ^ m \in Nat /\ 2 ^ n \in Nat /\ 2 ^ m <= 2 ^ n
    BY <2>6, PowerAssumption
  <2>9. last.since >= 2 ^ m
    BY <2>4, <2>5, <2>7, <2>8, LongType
  <2> QED
    BY <2>9 DEF m
<1> QED
  BY <1>1, <1>2, <1>3, PTL DEF Spec, BackoffRespected

-----------------------------------------------------------------------------
(***************************************************************************)
(* The order of versions, by which an update is chosen, is a strict total   *)
(* order, whatever their tokens: among different versions one is the        *)
(* newest, wherever a list names it.                                        *)
(***************************************************************************)
LEMMA AfterOrder ==
  /\ \A x \in Token : ~After(x, x)
  /\ \A x, y, z \in Token : After(x, y) /\ After(y, z) => After(x, z)
  /\ \A x, y \in Token : x = y \/ After(x, y) \/ After(y, x)
<1>1. \A x, y, z \in Token : After(x, y) /\ After(y, z) => After(x, z)
  BY DEF After, Token
<1>2. \A x, y \in Token : x = y \/ After(x, y) \/ After(y, x)
  BY DEF After, Token
<1> QED
  BY <1>1, <1>2 DEF After, Token

\* Newer is irreflexive: no launcher updates to its own version
\* (Launcher.compareVersion).
THEOREM NotNewerThanItself == \A a \in Version : ~Newer(a, a)
<1> SUFFICES ASSUME NEW a \in Version PROVE ~Newer(a, a)
  OBVIOUS
<1>1. \A i \in DOMAIN a : a[i] \in Token
  BY DEF Version
<1> QED
  BY <1>1, AfterOrder DEF Newer, Version

\* Newer is transitive: a chain of updates cannot lead back
\* (Launcher.compareVersion).
THEOREM NewerTransitive ==
  \A a, b, c \in Version : Newer(a, b) /\ Newer(b, c) => Newer(a, c)
<1> SUFFICES ASSUME NEW a \in Version, NEW b \in Version, NEW c \in Version,
                    Newer(a, b), Newer(b, c)
             PROVE  Newer(a, c)
  OBVIOUS
<1>1. /\ \A i \in DOMAIN a : a[i] \in Token
      /\ \A i \in DOMAIN b : b[i] \in Token
      /\ \A i \in DOMAIN c : c[i] \in Token
      /\ DOMAIN a = 1 .. Len(a) /\ DOMAIN b = 1 .. Len(b) /\ DOMAIN c = 1 .. Len(c)
      /\ Len(a) \in Nat /\ Len(b) \in Nat /\ Len(c) \in Nat
  BY DEF Version
<1>2. CASE Len(a) > Len(b) /\ Agree(a, b, Len(b))
  <2>1. CASE Len(b) > Len(c) /\ Agree(b, c, Len(c))
    <3>1. Len(a) > Len(c) /\ Agree(a, c, Len(c))
      BY <1>1, <1>2, <2>1 DEF Agree
    <3> QED
      BY <3>1 DEF Newer
  <2>2. ASSUME NEW j \in DOMAIN b \cap DOMAIN c, Agree(b, c, j - 1), After(b[j], c[j])
        PROVE  Newer(a, c)
    <3>1. j \in DOMAIN a \cap DOMAIN c /\ a[j] = b[j] /\ Agree(a, c, j - 1)
      BY <1>1, <1>2, <2>2 DEF Agree
    <3> QED
      BY <3>1, <2>2 DEF Newer
  <2> QED
    BY <2>1, <2>2 DEF Newer
<1>3. ASSUME NEW i \in DOMAIN a \cap DOMAIN b, Agree(a, b, i - 1), After(a[i], b[i])
      PROVE  Newer(a, c)
  <2>1. CASE Len(b) > Len(c) /\ Agree(b, c, Len(c))
    <3>1. CASE i <= Len(c)
      <4>1. i \in DOMAIN a \cap DOMAIN c /\ b[i] = c[i] /\ Agree(a, c, i - 1)
        BY <1>1, <1>3, <2>1, <3>1 DEF Agree
      <4> QED
        BY <4>1, <1>3 DEF Newer
    <3>2. CASE i > Len(c)
      <4>1. Len(a) > Len(c) /\ Agree(a, c, Len(c))
        BY <1>1, <1>3, <2>1, <3>2 DEF Agree
      <4> QED
        BY <4>1 DEF Newer
    <3> QED
      BY <3>1, <3>2, <1>1
  <2>2. ASSUME NEW j \in DOMAIN b \cap DOMAIN c, Agree(b, c, j - 1), After(b[j], c[j])
        PROVE  Newer(a, c)
    <3>1. CASE i < j
      <4>1. i \in DOMAIN a \cap DOMAIN c /\ b[i] = c[i] /\ Agree(a, c, i - 1)
        BY <1>1, <1>3, <2>2, <3>1 DEF Agree
      <4> QED
        BY <4>1, <1>3 DEF Newer
    <3>2. CASE j < i
      <4>1. j \in DOMAIN a \cap DOMAIN c /\ a[j] = b[j] /\ Agree(a, c, j - 1)
        BY <1>1, <1>3, <2>2, <3>2 DEF Agree
      <4> QED
        BY <4>1, <2>2 DEF Newer
    <3>3. CASE i = j
      <4>1. i \in DOMAIN a \cap DOMAIN c /\ Agree(a, c, i - 1)
        BY <1>1, <1>3, <2>2, <3>3 DEF Agree
      <4>2. After(a[i], c[i])
        BY <1>1, <1>3, <2>2, <3>3, AfterOrder
      <4> QED
        BY <4>1, <4>2 DEF Newer
    <3> QED
      BY <3>1, <3>2, <3>3, <1>1
  <2> QED
    BY <2>1, <2>2 DEF Newer
<1> QED
  BY <1>2, <1>3 DEF Newer

\* The least place at which a property of naturals holds.
LEMMA Least ==
  ASSUME NEW S, S \subseteq Nat, S # {}
  PROVE  \E n \in S : \A m \in S : n <= m
<1>1. PICK n \in S : \A m \in S : ~(<<m, n>> \in OpToRel(<, Nat))
  BY NatLessThanWellFounded, WFMin
<1>2. \A m \in S : ~(m < n)
  BY <1>1 DEF OpToRel
<1> QED
  BY <1>2

\* Of two different versions one is newer: every feed has one newest update for
\* a launcher, and what it is does not depend on the order of the list
\* (Updater.findAvailableUpdate).
THEOREM NewerTotal ==
  \A a, b \in Version : a = b \/ Newer(a, b) \/ Newer(b, a)
<1> SUFFICES ASSUME NEW a \in Version, NEW b \in Version
             PROVE  a = b \/ Newer(a, b) \/ Newer(b, a)
  OBVIOUS
<1> DEFINE differ == {i \in DOMAIN a \cap DOMAIN b : a[i] # b[i]}
<1>1. /\ \A i \in DOMAIN a : a[i] \in Token
      /\ \A i \in DOMAIN b : b[i] \in Token
      /\ DOMAIN a = 1 .. Len(a) /\ DOMAIN b = 1 .. Len(b)
      /\ Len(a) \in Nat /\ Len(b) \in Nat
  BY DEF Version
<1>2. CASE differ = {}
  <2>1. CASE Len(a) = Len(b)
    <3>1. \A i \in DOMAIN a : a[i] = b[i]
      BY <1>1, <1>2, <2>1
    <3> QED
      BY <1>1, <3>1, <2>1, SeqEqual DEF Version
  <2>2. CASE Len(a) > Len(b)
    BY <1>1, <1>2, <2>2 DEF Newer, Agree
  <2>3. CASE Len(a) < Len(b)
    BY <1>1, <1>2, <2>3 DEF Newer, Agree
  <2>4. Len(a) \in Nat /\ Len(b) \in Nat
    BY <1>1
  <2>5. Len(a) = Len(b) \/ Len(a) > Len(b) \/ Len(a) < Len(b)
    BY <2>4
  <2> QED
    BY <2>1, <2>2, <2>3, <2>5
<1>3. CASE differ # {}
  <2>1. differ \subseteq Nat
    BY <1>1
  <2>2. PICK i \in differ : \A j \in differ : i <= j
    BY <1>3, <2>1, Least
  <2>3. Agree(a, b, i - 1) /\ Agree(b, a, i - 1)
    BY <1>1, <2>2 DEF Agree
  <2>4. After(a[i], b[i]) \/ After(b[i], a[i])
    BY <1>1, <2>2, AfterOrder
  <2> QED
    BY <2>2, <2>3, <2>4 DEF Newer
<1> QED
  BY <1>2, <1>3
=============================================================================
