------------------------- MODULE JavaInstallerProofs -------------------------
(***************************************************************************)
(* Proofs about JavaInstaller, for one thread.                              *)
(*                                                                          *)
(* init leaves the old checksum on disk while it replaces the archive and   *)
(* the directory, so that what is recorded may be under repair.  The        *)
(* invariant says of each file of the recorded release that it is whole,    *)
(* being written at this moment, or lost when a reinstallation was cut off; *)
(* and of an installation that every entry it is done with is whole, which  *)
(* is what makes the checksum it stores at the end the truth.               *)
(***************************************************************************)
EXTENDS JavaInstaller, TLAPS

Unpacking == {"unzip", "entry", "store", "write"}

\* One thread.
Alone == \A t, u \in Threads : t = u

\* The checksum that check compares is the one on disk, or could not be read.
SeenIsHash ==
  \A t \in Threads : pc[t] = "check" => seen[t] \in {hash, NoFile}

\* The archive being unpacked is the right one, and what left does not name has
\* been unpacked.
UnpackedSoFar ==
  \A t \in Threads :
    /\ pc[t] \in Unpacking => zip = release[t]
    /\ pc[t] \in Unpacking =>
         \A x \in Parts \ left[t] : jre[release[t]][x] = "whole"
    /\ pc[t] \in {"store", "write"} => left[t] = {}

\* File x of release r is being written.
Writing(r, x) ==
  \E t \in Threads : pc[t] = "entry" /\ release[t] = r /\ entry[t] = x

\* What is known of the files of the recorded release.
Recorded ==
  \A r \in Releases : hash = r =>
    \A x \in Parts :
      /\ jre[r][x] # "absent"
      /\ jre[r][x] = "whole" \/ r \in broken \/ Writing(r, x)

\* A runtime a client may be started on.
Usable(r) == jre[r][Exe] # "absent" /\ (Unpacked(r) \/ r \in broken)

\* An attempt in fair weather that is past its download has what it needs.
FairProgress ==
  \A t \in Threads :
    clear[t] =>
      /\ weather = "fair"
      /\ pc[t] = "verify" => zip = release[t]
      /\ pc[t] \in {"launch", "started"} => Usable(release[t])
      /\ pc[t] # "noJava"

ZipInv == SeenIsHash /\ UnpackedSoFar /\ Recorded /\ FairProgress

IInv == TypeOK /\ (format = "zip" => ZipInv)
-----------------------------------------------------------------------------
\* Every variable keeps to its type.
LEMMA TypeInit == Init => TypeOK
  BY ReleaseAssumption DEF Init, TypeOK, Points

LEMMA TypeStep == TypeOK /\ [Next]_vars => TypeOK'
<1> SUFFICES ASSUME TypeOK, [Next]_vars PROVE TypeOK'
  OBVIOUS
<1> USE ReleaseAssumption DEF TypeOK, Points
<1>1. CASE \E t \in Threads : Begin(t)
  BY <1>1 DEF Begin, Goto, env, disk, runVars
<1>2. CASE \E t \in Threads : ReadLocalHash(t)
  BY <1>2 DEF ReadLocalHash, Goto, env, disk, runVars
<1>3. CASE \E t \in Threads : Check(t)
  BY <1>3 DEF Check, Goto, env, disk, runVars
<1>4. CASE \E t \in Threads : Connect(t)
  BY <1>4 DEF Connect, Goto, env, disk, runVars
<1>5. CASE \E t \in Threads : Receive(t)
  BY <1>5 DEF Receive, Goto, env, disk, runVars
<1>6. CASE \E t \in Threads : ReceiveWrong(t)
  BY <1>6 DEF ReceiveWrong, Goto, env, disk, runVars
<1>7. CASE \E t \in Threads : VerifyDownload(t)
  BY <1>7 DEF VerifyDownload, Goto, env, disk, runVars
<1>8. CASE \E t \in Threads : RejectDownload(t)
  BY <1>8 DEF RejectDownload, Goto, env, disk, runVars
<1>9. CASE \E t \in Threads : OpenEntry(t)
  BY <1>9 DEF OpenEntry, Goto, env, disk, runVars
<1>10. CASE \E t \in Threads : WriteEntry(t)
  BY <1>10 DEF WriteEntry, Goto, env, disk, runVars
<1>11. CASE \E t \in Threads : UnzipDone(t)
  BY <1>11 DEF UnzipDone, Goto, env, disk, runVars
<1>12. CASE \E t \in Threads : EmptyHashFile(t)
  BY <1>12 DEF EmptyHashFile, Goto, env, disk, runVars
<1>13. CASE \E t \in Threads : StoreLocalHash(t)
  BY <1>13 DEF StoreLocalHash, Goto, env, disk, runVars
<1>14. CASE \E t \in Threads : GiveUp(t)
  BY <1>14 DEF GiveUp, CutOff, Goto, env, disk, runVars
<1>15. CASE \E t \in Threads : StartClient(t)
  BY <1>15 DEF StartClient, Goto, env, disk, runVars
<1>16. CASE \E t \in Threads : NoJava(t)
  BY <1>16 DEF NoJava, Goto, env, disk, runVars
<1>17. CASE \E t \in Threads : Crash(t)
  BY <1>17 DEF Crash, CutOff, Goto, env, disk, runVars
<1>18. CASE ReplaceLauncher
  BY <1>18 DEF ReplaceLauncher, Goto, env, disk, runVars
<1>19. CASE Settle
  BY <1>19 DEF Settle, Goto, env, disk, runVars
<1>20. CASE UNCHANGED vars
  BY <1>20 DEF vars, env, disk, runVars
<1> QED
  BY <1>1, <1>2, <1>3, <1>4, <1>5, <1>6, <1>7, <1>8, <1>9, <1>10, <1>11,
     <1>12, <1>13, <1>14, <1>15, <1>16, <1>17, <1>18, <1>19, <1>20
  DEF Next, Proceed

\* The variables of JavaInstaller keep to their types for any number of threads,
\* releases and files.
THEOREM TypeCorrect == Spec => []TypeOK
<1> QED
  BY TypeInit, TypeStep, PTL DEF Spec

-----------------------------------------------------------------------------

\* The invariant holds at the start and is kept by every step.
LEMMA ZipInit == Init => ZipInv
  BY ReleaseAssumption
  DEF Init, ZipInv, Unpacking, SeenIsHash, UnpackedSoFar, Recorded, FairProgress

LEMMA ZipStep ==
  ASSUME Alone, TypeOK, format = "zip", ZipInv, [Next]_vars
  PROVE  ZipInv'
<1> USE ReleaseAssumption DEF TypeOK, Points, Unpacking
<1> USE DEF ZipInv, SeenIsHash, UnpackedSoFar, Recorded, Writing, Unpacked, Usable,
            FairProgress, Alone
<1>1. ASSUME NEW t \in Threads, Begin(t) PROVE ZipInv'
  BY <1>1 DEF Begin, Unreadable, Goto, env, disk, runVars
<1>2. ASSUME NEW t \in Threads, ReadLocalHash(t) PROVE ZipInv'
  BY <1>2 DEF ReadLocalHash, Unreadable, Goto, env, disk, runVars
<1>3. ASSUME NEW t \in Threads, Check(t) PROVE ZipInv'
  BY <1>3 DEF Check, Unreadable, Goto, env, disk, runVars
<1>4. ASSUME NEW t \in Threads, Connect(t) PROVE ZipInv'
  BY <1>4 DEF Connect, Unreadable, Goto, env, disk, runVars
<1>5. ASSUME NEW t \in Threads, Receive(t) PROVE ZipInv'
  BY <1>5 DEF Receive, Unreadable, Goto, env, disk, runVars
<1>6. ASSUME NEW t \in Threads, ReceiveWrong(t) PROVE ZipInv'
  BY <1>6 DEF ReceiveWrong, Unreadable, Goto, env, disk, runVars
<1>7. ASSUME NEW t \in Threads, VerifyDownload(t) PROVE ZipInv'
  BY <1>7 DEF VerifyDownload, Unreadable, Goto, env, disk, runVars
<1>8. ASSUME NEW t \in Threads, RejectDownload(t) PROVE ZipInv'
  BY <1>8 DEF RejectDownload, Unreadable, Goto, env, disk, runVars
<1>9. ASSUME NEW t \in Threads, OpenEntry(t) PROVE ZipInv'
  BY <1>9 DEF OpenEntry, Unreadable, Goto, env, disk, runVars
<1>10. ASSUME NEW t \in Threads, WriteEntry(t) PROVE ZipInv'
  BY <1>10 DEF WriteEntry, Unreadable, Goto, env, disk, runVars
<1>11. ASSUME NEW t \in Threads, UnzipDone(t) PROVE ZipInv'
  BY <1>11 DEF UnzipDone, Unreadable, Goto, env, disk, runVars
<1>12. ASSUME NEW t \in Threads, EmptyHashFile(t) PROVE ZipInv'
  BY <1>12 DEF EmptyHashFile, Unreadable, Goto, env, disk, runVars
<1>13. ASSUME NEW t \in Threads, StoreLocalHash(t) PROVE ZipInv'
  BY <1>13 DEF StoreLocalHash, Unreadable, Goto, env, disk, runVars
<1>14. ASSUME NEW t \in Threads, GiveUp(t) PROVE ZipInv'
  BY <1>14 DEF GiveUp, CutOff, Unreadable, Goto, env, disk, runVars
<1>15. ASSUME NEW t \in Threads, StartClient(t) PROVE ZipInv'
  BY <1>15 DEF StartClient, Unreadable, Goto, env, disk, runVars
<1>16. ASSUME NEW t \in Threads, NoJava(t) PROVE ZipInv'
  BY <1>16 DEF NoJava, Unreadable, Goto, env, disk, runVars
<1>17. ASSUME NEW t \in Threads, Crash(t) PROVE ZipInv'
  BY <1>17 DEF Crash, CutOff, Unreadable, Goto, env, disk, runVars
<1>18. CASE ReplaceLauncher
  BY <1>18 DEF ReplaceLauncher, Goto, env, disk, runVars
<1>19. CASE Settle
  BY <1>19 DEF Settle, Goto, env, disk, runVars
<1>20. CASE UNCHANGED vars
  BY <1>20 DEF vars, env, disk, runVars
<1> QED
  BY <1>1, <1>2, <1>3, <1>4, <1>5, <1>6, <1>7, <1>8, <1>9, <1>10, <1>11,
     <1>12, <1>13, <1>14, <1>15, <1>16, <1>17, <1>18, <1>19, <1>20
  DEF Next, Proceed

\* The archives of a platform do not change their format.
LEMMA FormatStep == [Next]_vars => format' = format
  BY DEF Next, Proceed, vars, env, Begin, ReadLocalHash, Check, Connect, Receive,
         ReceiveWrong, VerifyDownload, RejectDownload, OpenEntry, WriteEntry,
         UnzipDone, EmptyHashFile, StoreLocalHash, GiveUp, StartClient, NoJava,
         Crash, ReplaceLauncher, Settle

LEMMA Invariance == ASSUME Alone PROVE Spec => []IInv
<1>1. Init => IInv
  BY TypeInit, ZipInit DEF IInv
<1>2. IInv /\ [Next]_vars => IInv'
  BY TypeStep, ZipStep, FormatStep DEF IInv
<1> QED
  BY <1>1, <1>2, PTL DEF Spec

\* When one launcher at a time installs Java, a first installation that is cut
\* short is never recorded, and a recorded runtime is torn only by a
\* reinstallation of the same release that was cut off inside a file; for any
\* number of releases and files, unreadable files, launchers that replace one
\* another in any order, and any crashes.
THEOREM RecordIsEarned == ASSUME Alone PROVE Spec => []RecordedIsUnpacked
<1>1. IInv => RecordedIsUnpacked
  BY DEF IInv, ZipInv, Recorded, Writing, AtRest, Unpacked, RecordedIsUnpacked
<1> QED
  BY <1>1, Invariance, PTL

\* Under the same condition, a launch in fair weather always finds a Java to start
\* the client with, and a complete one unless such a reinstallation went before.
THEOREM OneFairLaunchSuffices == ASSUME Alone PROVE Spec => []FairLaunchStarts
<1>1. IInv => FairLaunchStarts
  BY DEF IInv, ZipInv, FairProgress, Usable, FairLaunchStarts
<1> QED
  BY <1>1, Invariance, PTL
=============================================================================
