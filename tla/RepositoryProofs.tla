--------------------------- MODULE RepositoryProofs ---------------------------
(***************************************************************************)
(* Proofs about Repository, for every set of launchers, locations, names,   *)
(* hashes and bootstraps.                                                   *)
(***************************************************************************)
EXTENDS Repository, TLAPS, FiniteSets, FiniteSetTheorems

\* Where a step works on Item(l), the index of the loop is inside toDownload,
\* and inside a patch the item has a diff.
LoopOK ==
  \A l \in Launchers :
    /\ pc[l] \in {"patch", "apply", "full", "fetch"} => at[l] <= Len(todo[l])
    /\ pc[l] \in {"patch", "apply"} => Item(l).diff # 0

TypeInv == TypeOK /\ LoopOK

-----------------------------------------------------------------------------
\* A plan has a length.
LEMMA PlanLength ==
  ASSUME TypeOK, NEW l \in Launchers
  PROVE  Len(plan[l]) \in Nat
<1>1. plan[l] \in Bootstraps \cup {<< >>}
  BY DEF TypeOK
<1>2. << >> \in Seq(Artifacts)
  OBVIOUS
<1>3. plan[l] \in Seq(Artifacts)
  BY <1>1, <1>2, BootstrapAssumption
<1> QED
  BY <1>3

\* The artifact at an index of a plan or of toDownload is an artifact.
LEMMA PlanTyped ==
  ASSUME TypeOK, NEW l \in Launchers, NEW j \in 1 .. Len(plan[l])
  PROVE  /\ plan[l] \in Seq(Artifacts)
         /\ plan[l][j] \in Artifacts
<1>1. plan[l] \in Bootstraps \cup {<< >>}
  BY DEF TypeOK
<1>2. plan[l] \in Seq(Artifacts)
  BY <1>1, BootstrapAssumption
<1> QED
  BY <1>2

LEMMA ItemTyped ==
  ASSUME TypeOK, NEW l \in Launchers, at[l] <= Len(todo[l])
  PROVE  /\ Item(l) \in Work
         /\ Item(l).artifact \in Artifacts
         /\ Item(l).artifact.name \in Names
         /\ Item(l).artifact.hash \in Hashes
         /\ Item(l).artifact.size \in Nat
         /\ Item(l).diff \in 0 .. Len(Item(l).artifact.diffs)
<1>1. todo[l] \in Seq(Work) /\ at[l] \in Nat \ {0}
  BY DEF TypeOK
<1>2. Item(l) \in Work
  BY <1>1 DEF Item
<1>3. Item(l).artifact \in Artifacts /\ Item(l).diff \in Nat
      /\ Item(l).diff <= Len(Item(l).artifact.diffs)
  BY <1>2 DEF Work
<1> QED
  BY <1>2, <1>3 DEF Artifacts

\* The diff of an item has a size.
LEMMA DiffTyped ==
  ASSUME TypeOK, NEW l \in Launchers, at[l] <= Len(todo[l]), Item(l).diff # 0
  PROVE  Item(l).artifact.diffs[Item(l).diff].size \in Nat
<1>1. /\ Item(l).artifact \in Artifacts
      /\ Item(l).diff \in 0 .. Len(Item(l).artifact.diffs)
  BY ItemTyped
<1>2. Item(l).artifact.diffs \in Seq(Diffs)
  BY <1>1 DEF Artifacts
<1>3. Item(l).artifact.diffs[Item(l).diff] \in Diffs
  BY <1>1, <1>2
<1> QED
  BY <1>3 DEF Diffs

\* Writing a known content to a file keeps the type of the file store.
LEMMA WriteTyped ==
  ASSUME TypeOK, NEW l \in Launchers, NEW n, NEW c \in Content \cup {NoFile},
         Write(l, n, c)
  PROVE  files' \in [Locations -> [Names -> Content \cup {NoFile}]]
  BY LocAssumption DEF TypeOK, Write

\* Queueing an artifact keeps the types of toDownload and totalDownloadBytes.
LEMMA QueueTyped ==
  ASSUME TypeOK, NEW l \in Launchers, NEW f, NEW a \in Artifacts, NEW r,
         Queue(l, f, a, r)
  PROVE  /\ todo' \in [Launchers -> Seq(Work)]
         /\ total' \in [Launchers -> Int]
<1>1. PICK k \in 0 .. Len(a.diffs) :
        /\ todo' = [todo EXCEPT ![l] = Append(@, [artifact |-> a, diff |-> k])]
        /\ total' = [total EXCEPT ![l] =
                       @ + IF k = 0 THEN a.size ELSE a.diffs[k].size]
  BY DEF Queue
<1>2. a.diffs \in Seq(Diffs) /\ a.size \in Nat
  BY DEF Artifacts
<1>3. [artifact |-> a, diff |-> k] \in Work
  BY <1>2 DEF Work
<1>4. k # 0 => a.diffs[k] \in Diffs
  BY <1>2
<1>5. (IF k = 0 THEN a.size ELSE a.diffs[k].size) \in Nat
  BY <1>2, <1>4 DEF Diffs
<1>6. Append(todo[l], [artifact |-> a, diff |-> k]) \in Seq(Work)
  BY <1>3 DEF TypeOK
<1>7. todo' \in [Launchers -> Seq(Work)]
  BY <1>1, <1>6 DEF TypeOK
<1>8. total' \in [Launchers -> Int]
  BY <1>1, <1>5 DEF TypeOK
<1> QED
  BY <1>7, <1>8

-----------------------------------------------------------------------------
\* The initial states have the types.
LEMMA InitTypeInv == Init => TypeInv
<1> SUFFICES ASSUME Init PROVE TypeInv
  OBVIOUS
<1>1. TypeOK
  BY BootstrapAssumption DEF Init, TypeOK, Points
<1>2. LoopOK
  BY DEF Init, LoopOK
<1> QED
  BY <1>1, <1>2 DEF TypeInv

\* The steps before and after the loops of download(), and those that end an
\* attempt, keep the types: they write no file and no queue.
LEMMA FrameTypeInv ==
  ASSUME TypeInv, NEW l \in Launchers,
         \/ Launch(l) \/ FetchBootstrap(l) \/ BootstrapFails(l)
         \/ ListFiles(l) \/ ScanDone(l) \/ DownloadDone(l)
         \/ Verify(l) \/ VerifyFails(l) \/ VerifyDone(l)
         \/ Start(l) \/ StartFails(l) \/ StartsNothing(l) \/ Crash(l)
         \/ OpenForFetchFails(l) \/ FetchFails(l)
  PROVE  TypeInv'
<1> USE DEF TypeInv, repoVars, loopVars, settings, sizeVars, history, Goto, Advance, Restart
<1>1. CASE Launch(l)
  <2>1. TypeOK'
    BY <1>1, BootstrapAssumption DEF Launch, Fresh, TypeOK, Points
  <2>2. LoopOK'
    BY <1>1 DEF Launch, Fresh, TypeOK, LoopOK, Item
  <2> QED
    BY <2>1, <2>2
<1>2. CASE FetchBootstrap(l)
  <2>1. PICK b \in Supported :
          /\ plan' = [plan EXCEPT ![l] = b]
          /\ patchable' = [patchable EXCEPT ![l] = Patchable(Here(l), b)]
    BY <1>2 DEF FetchBootstrap
  <2>2. b \in Bootstraps /\ b \in Seq(Artifacts)
    BY BootstrapAssumption
  <2>3. Patchable(Here(l), b) \in SUBSET Artifacts
    BY <2>2 DEF Patchable
  <2>4. TypeOK'
    BY <1>2, <2>1, <2>2, <2>3 DEF FetchBootstrap, TypeOK, Points
  <2>5. LoopOK'
    BY <1>2 DEF FetchBootstrap, TypeOK, LoopOK, Item
  <2> QED
    BY <2>4, <2>5
<1>3. CASE BootstrapFails(l)
  <2>1. TypeOK'
    BY <1>3 DEF BootstrapFails, TypeOK, Points
  <2>2. LoopOK'
    BY <1>3 DEF BootstrapFails, TypeOK, LoopOK, Item
  <2> QED
    BY <2>1, <2>2
<1>4. CASE ListFiles(l)
  <2>1. TypeOK'
    BY <1>4 DEF ListFiles, TypeOK, Points
  <2>2. LoopOK'
    BY <1>4 DEF ListFiles, TypeOK, LoopOK, Item
  <2> QED
    BY <2>1, <2>2
<1>5. CASE ScanDone(l)
  <2>1. TypeOK'
    BY <1>5 DEF ScanDone, TypeOK, Points
  <2>2. LoopOK'
    BY <1>5 DEF ScanDone, TypeOK, LoopOK, Item
  <2> QED
    BY <2>1, <2>2
<1>6. CASE DownloadDone(l)
  <2>1. TypeOK'
    BY <1>6 DEF DownloadDone, TypeOK, Points
  <2>2. LoopOK'
    BY <1>6 DEF DownloadDone, TypeOK, LoopOK, Item
  <2> QED
    BY <2>1, <2>2
<1>7. CASE Verify(l)
  <2>1. TypeOK'
    BY <1>7 DEF Verify, TypeOK, Points
  <2>2. LoopOK'
    BY <1>7 DEF Verify, TypeOK, LoopOK, Item
  <2> QED
    BY <2>1, <2>2
<1>8. CASE VerifyFails(l)
  <2>1. TypeOK'
    BY <1>8 DEF VerifyFails, TypeOK, Points
  <2>2. LoopOK'
    BY <1>8 DEF VerifyFails, TypeOK, LoopOK, Item
  <2> QED
    BY <2>1, <2>2
<1>9. CASE VerifyDone(l)
  <2>1. TypeOK'
    BY <1>9 DEF VerifyDone, TypeOK, Points
  <2>2. LoopOK'
    BY <1>9 DEF VerifyDone, TypeOK, LoopOK, Item
  <2> QED
    BY <2>1, <2>2
<1>10. CASE Start(l)
  <2>1. TypeOK'
    BY <1>10 DEF Start, TypeOK, Points
  <2>2. LoopOK'
    BY <1>10 DEF Start, TypeOK, LoopOK, Item
  <2> QED
    BY <2>1, <2>2
<1>11. CASE StartFails(l)
  <2>1. TypeOK'
    BY <1>11 DEF StartFails, TypeOK, Points
  <2>2. LoopOK'
    BY <1>11 DEF StartFails, TypeOK, LoopOK, Item
  <2> QED
    BY <2>1, <2>2
<1>15. CASE StartsNothing(l)
  <2>1. TypeOK'
    BY <1>15 DEF StartsNothing, TypeOK, Points
  <2>2. LoopOK'
    BY <1>15 DEF StartsNothing, TypeOK, LoopOK, Item
  <2> QED
    BY <2>1, <2>2
<1>12. CASE Crash(l)
  <2>1. TypeOK'
    BY <1>12 DEF Crash, TypeOK, Points
  <2>2. LoopOK'
    BY <1>12 DEF Crash, TypeOK, LoopOK, Item
  <2> QED
    BY <2>1, <2>2
<1>13. CASE OpenForFetchFails(l)
  <2>1. TypeOK'
    BY <1>13 DEF OpenForFetchFails, TypeOK, Points
  <2>2. LoopOK'
    BY <1>13 DEF OpenForFetchFails, TypeOK, LoopOK, Item
  <2> QED
    BY <2>1, <2>2
<1>14. CASE FetchFails(l)
  <2>1. TypeOK'
    BY <1>14 DEF FetchFails, TypeOK, Points
  <2>2. LoopOK'
    BY <1>14 DEF FetchFails, TypeOK, LoopOK, Item
  <2> QED
    BY <2>1, <2>2
<1> QED
  BY <1>1, <1>2, <1>3, <1>4, <1>5, <1>6, <1>7, <1>8, <1>9, <1>10, <1>11,
     <1>12, <1>13, <1>14, <1>15

\* clean() and the first loop of download() keep the types.
LEMMA ScanTypeInv ==
  ASSUME TypeInv, NEW l \in Launchers,
         DeleteStale(l) \/ CleanDone(l) \/ Scan(l) \/ ScanUnreadable(l)
  PROVE  TypeInv'
<1> USE DEF TypeInv, repoVars, settings, sizeVars, history
<1>1. CASE DeleteStale(l)
  <2>1. PICK n \in stale[l] :
          /\ stale' = [stale EXCEPT ![l] = @ \ {n}]
          /\ Write(l, n, NoFile) \/ UNCHANGED files
    BY <1>1 DEF DeleteStale
  <2>2. files' \in [Locations -> [Names -> Content \cup {NoFile}]]
    BY <2>1, WriteTyped DEF TypeOK
  <2>3. TypeOK'
    BY <1>1, <2>1, <2>2 DEF DeleteStale, TypeOK
  <2>4. LoopOK'
    BY <1>1 DEF DeleteStale, LoopOK, Item
  <2> QED
    BY <2>3, <2>4
<1>2. CASE CleanDone(l)
  <2>1. TypeOK'
    BY <1>2 DEF CleanDone, TypeOK, Points, Goto, Restart
  <2>2. LoopOK'
    BY <1>2 DEF CleanDone, TypeOK, LoopOK, Item, Goto, Restart
  <2> QED
    BY <2>1, <2>2
<1>3. CASE Scan(l)
  <2>1. plan[l][at[l]] \in Artifacts
    BY <1>3, PlanTyped DEF Scan, TypeOK
  <2>2. todo' \in [Launchers -> Seq(Work)] /\ total' \in [Launchers -> Int]
    BY <1>3, <2>1, QueueTyped DEF Scan, TypeOK
  <2>f. /\ at' = [at EXCEPT ![l] = @ + 1]
        /\ UNCHANGED <<system, weather, files, pc, plan, nodiff, mode, stale, downloaded,
                       clear, patchable>>
    BY <1>3 DEF Scan, Advance
  <2>3. TypeOK'
    BY <2>2, <2>f DEF TypeOK
  <2>4. \A m \in Launchers : m # l => todo'[m] = todo[m] /\ at'[m] = at[m]
    BY <1>3 DEF Scan, Queue, TypeOK, Advance
  <2>5. LoopOK'
    BY <1>3, <2>4 DEF Scan, LoopOK, Item
  <2> QED
    BY <2>3, <2>5
<1>4. CASE ScanUnreadable(l)
  <2>1. plan[l][at[l]] \in Artifacts
    BY <1>4, PlanTyped DEF ScanUnreadable, TypeOK
  <2>2. todo' \in [Launchers -> Seq(Work)] /\ total' \in [Launchers -> Int]
    BY <1>4, <2>1, QueueTyped DEF ScanUnreadable
  <2>3. files' \in [Locations -> [Names -> Content \cup {NoFile}]]
    BY <1>4, WriteTyped DEF ScanUnreadable, TypeOK
  <2>f. /\ at' = [at EXCEPT ![l] = @ + 1]
        /\ UNCHANGED <<system, weather, pc, plan, nodiff, mode, stale, downloaded, clear,
                       patchable>>
    BY <1>4 DEF ScanUnreadable, Advance
  <2>4. TypeOK'
    BY <2>2, <2>3, <2>f DEF TypeOK
  <2>5. \A m \in Launchers : m # l => todo'[m] = todo[m] /\ at'[m] = at[m]
    BY <1>4 DEF ScanUnreadable, Queue, TypeOK, Advance
  <2>6. LoopOK'
    BY <1>4, <2>5 DEF ScanUnreadable, LoopOK, Item
  <2> QED
    BY <2>4, <2>6
<1> QED
  BY <1>1, <1>2, <1>3, <1>4

\* Giving up a patch keeps the types.
LEMMA FallBackTypeInv ==
  ASSUME TypeInv, NEW l \in Launchers, at[l] <= Len(todo[l]), Item(l).diff # 0,
         FallBack(l), UNCHANGED <<repoVars, loopVars, downloaded, history>>
  PROVE  TypeInv'
<1> USE DEF TypeInv, repoVars, loopVars, settings, history
<1>1. /\ Item(l).artifact.size \in Nat
      /\ Item(l).artifact.diffs[Item(l).diff].size \in Nat
  BY ItemTyped, DiffTyped
<1>2. total' \in [Launchers -> Int]
  BY <1>1 DEF FallBack, TypeOK
<1>3. TypeOK'
  BY <1>2 DEF FallBack, TypeOK, Points, Goto
<1>4. LoopOK'
  BY DEF FallBack, TypeOK, LoopOK, Item, Goto
<1> QED
  BY <1>3, <1>4

\* The second loop of download() keeps the types.
LEMMA DownloadTypeInv ==
  ASSUME TypeInv, NEW l \in Launchers,
         \/ FetchPatch(l) \/ FetchPatchFails(l)
         \/ OpenForPatch(l) \/ OpenForPatchFails(l)
         \/ ApplyPatch(l) \/ ApplyPatchFails(l)
         \/ OpenForFetch(l) \/ FetchArtifact(l) \/ FetchWrongArtifact(l)
  PROVE  TypeInv'
<1> USE DEF TypeInv, repoVars, loopVars, settings, sizeVars, history
<1>0. at[l] <= Len(todo[l])
  BY DEF LoopOK, FetchPatch, FetchPatchFails, OpenForPatch, OpenForPatchFails,
         ApplyPatch, ApplyPatchFails, OpenForFetch, FetchArtifact, FetchWrongArtifact
<1>1. CASE FetchPatch(l)
  <2>1. Item(l).artifact.diffs[Item(l).diff].size \in Nat
    BY <1>0, <1>1, DiffTyped DEF FetchPatch
  <2>2. TypeOK'
    BY <1>1, <2>1 DEF FetchPatch, TypeOK, Points, Goto
  <2>3. LoopOK'
    BY <1>1 DEF FetchPatch, TypeOK, LoopOK, Item, Goto
  <2> QED
    BY <2>2, <2>3
<1>2. CASE FetchPatchFails(l)
  BY <1>2, FallBackTypeInv DEF FetchPatchFails
<1>3. CASE OpenForPatch(l)
  <2>1. files' \in [Locations -> [Names -> Content \cup {NoFile}]]
    BY <1>3, WriteTyped DEF OpenForPatch, Content
  <2>2. TypeOK'
    BY <1>3, <2>1 DEF OpenForPatch, TypeOK, Points, Goto
  <2>3. LoopOK'
    BY <1>3 DEF OpenForPatch, TypeOK, LoopOK, Item, Goto
  <2> QED
    BY <2>2, <2>3
<1>4. CASE OpenForPatchFails(l)
  BY <1>0, <1>4, FallBackTypeInv DEF OpenForPatchFails, LoopOK
<1>5. CASE ApplyPatch(l)
  <2>1. files' \in [Locations -> [Names -> Content \cup {NoFile}]]
    BY <1>0, <1>5, WriteTyped, ItemTyped DEF ApplyPatch, Content
  <2>2. TypeOK'
    BY <1>5, <2>1 DEF ApplyPatch, TypeOK, Points, Goto, Advance
  <2>3. LoopOK'
    BY <1>5 DEF ApplyPatch, TypeOK, LoopOK, Item, Goto, Advance
  <2> QED
    BY <2>2, <2>3
<1>6. CASE ApplyPatchFails(l)
  BY <1>0, <1>6, FallBackTypeInv DEF ApplyPatchFails, LoopOK
<1>7. CASE OpenForFetch(l)
  <2>1. files' \in [Locations -> [Names -> Content \cup {NoFile}]]
    BY <1>7, WriteTyped DEF OpenForFetch, Content
  <2>2. TypeOK'
    BY <1>7, <2>1 DEF OpenForFetch, TypeOK, Points, Goto
  <2>3. LoopOK'
    BY <1>0, <1>7 DEF OpenForFetch, TypeOK, LoopOK, Item, Goto
  <2> QED
    BY <2>2, <2>3
<1>8. CASE FetchArtifact(l)
  <2>1. files' \in [Locations -> [Names -> Content \cup {NoFile}]]
    BY <1>0, <1>8, WriteTyped, ItemTyped DEF FetchArtifact, Content
  <2>2. Item(l).artifact.size \in Nat
    BY <1>0, ItemTyped
  <2>3. TypeOK'
    BY <1>8, <2>1, <2>2 DEF FetchArtifact, TypeOK, Points, Goto, Advance
  <2>4. LoopOK'
    BY <1>8 DEF FetchArtifact, TypeOK, LoopOK, Item, Goto, Advance
  <2> QED
    BY <2>3, <2>4
<1>9. CASE FetchWrongArtifact(l)
  <2>1. files' \in [Locations -> [Names -> Content \cup {NoFile}]]
    BY <1>9, WriteTyped DEF FetchWrongArtifact, Content
  <2>2. TypeOK'
    BY <1>9, <2>1 DEF FetchWrongArtifact, TypeOK, Points, Goto, Advance
  <2>3. LoopOK'
    BY <1>9 DEF FetchWrongArtifact, TypeOK, LoopOK, Item, Goto, Advance
  <2> QED
    BY <2>2, <2>3
<1> QED
  BY <1>1, <1>2, <1>3, <1>4, <1>5, <1>6, <1>7, <1>8, <1>9

\* Every step keeps the types.
LEMMA StepTypeInv == TypeInv /\ [Next]_vars => TypeInv'
<1> SUFFICES ASSUME TypeInv, [Next]_vars PROVE TypeInv'
  OBVIOUS
<1>1. CASE UNCHANGED vars
  BY <1>1 DEF TypeInv, TypeOK, LoopOK, Item,
         vars, repoVars, loopVars, settings, sizeVars, history
<1>2. CASE Settle
  BY <1>2 DEF Settle, TypeInv, TypeOK, LoopOK, Item, loopVars, settings, sizeVars, history
<1>3. ASSUME NEW l \in Launchers, Launch(l) \/ Proceed(l) \/ Crash(l)
      PROVE  TypeInv'
  BY <1>3, FrameTypeInv, ScanTypeInv, DownloadTypeInv DEF Proceed
<1> QED
  BY <1>1, <1>2, <1>3 DEF Next

\* Every variable keeps its type, for any number of attempts, files and
\* bootstraps: loop indices, queue entries and byte counts are always defined.
THEOREM TypeCorrect == Spec => []TypeOK
<1>1. TypeInv => TypeOK
  BY DEF TypeInv
<1> QED
  BY InitTypeInv, StepTypeInv, <1>1, PTL DEF Spec

-----------------------------------------------------------------------------
\* A step of one attempt leaves what another one, in another directory, sees.
Undisturbed(l) ==
  /\ pc'[l] = pc[l]
  /\ plan'[l] = plan[l]
  /\ at'[l] = at[l]
  /\ todo'[l] = todo[l]
  /\ clear'[l] = clear[l]
  /\ nodiff'[l] = nodiff[l]
  /\ mode'[l] = mode[l]
  /\ stale'[l] = stale[l]
  /\ patchable'[l] = patchable[l]
  /\ files'[Loc[l]] = files[Loc[l]]

\* The pc and the loop variables of the others are never assigned.
LEMMA OthersFrame ==
  ASSUME TypeOK, NEW l \in Launchers, NEW m \in Launchers, m # l,
         Launch(m) \/ Proceed(m) \/ Crash(m)
  PROVE  /\ pc'[l] = pc[l]
         /\ plan'[l] = plan[l]
         /\ at'[l] = at[l]
         /\ todo'[l] = todo[l]
         /\ clear'[l] = clear[l]
         /\ nodiff'[l] = nodiff[l]
         /\ mode'[l] = mode[l]
         /\ stale'[l] = stale[l]
         /\ patchable'[l] = patchable[l]
<1> USE DEF repoVars, loopVars, settings, sizeVars, history, Goto, Advance, Restart
<1>1. CASE Launch(m)
  BY <1>1 DEF TypeOK, Launch, Fresh
<1>2. CASE Crash(m)
  BY <1>2 DEF TypeOK, Crash
<1>3. CASE FetchBootstrap(m) \/ BootstrapFails(m) \/ ListFiles(m) \/ DeleteStale(m)
           \/ CleanDone(m)
  BY <1>3 DEF TypeOK, FetchBootstrap, BootstrapFails, ListFiles, DeleteStale, CleanDone
<1>4. CASE Scan(m)
  BY <1>4 DEF TypeOK, Scan, Queue
<1>5. CASE ScanUnreadable(m)
  BY <1>5 DEF TypeOK, ScanUnreadable, Queue
<1>6. CASE ScanDone(m) \/ FetchPatch(m) \/ OpenForPatch(m) \/ ApplyPatch(m)
           \/ OpenForFetch(m) \/ OpenForFetchFails(m) \/ FetchArtifact(m)
           \/ FetchWrongArtifact(m) \/ FetchFails(m) \/ DownloadDone(m)
  BY <1>6 DEF TypeOK, ScanDone, FetchPatch, OpenForPatch, ApplyPatch, OpenForFetch,
      OpenForFetchFails, FetchArtifact, FetchWrongArtifact, FetchFails, DownloadDone
<1>7. CASE FetchPatchFails(m) \/ OpenForPatchFails(m) \/ ApplyPatchFails(m)
  BY <1>7 DEF TypeOK, FetchPatchFails, OpenForPatchFails, ApplyPatchFails, FallBack
<1>8. CASE Verify(m) \/ VerifyFails(m) \/ VerifyDone(m) \/ Start(m)
           \/ StartFails(m) \/ StartsNothing(m)
  BY <1>8 DEF TypeOK, Verify, VerifyFails, VerifyDone, Start, StartFails, StartsNothing
<1> QED
  BY <1>1, <1>2, <1>3, <1>4, <1>5, <1>6, <1>7, <1>8 DEF Proceed

\* A step writes, if anything, one file of the directory of its attempt.
LEMMA OneWrite ==
  ASSUME NEW m \in Launchers, Launch(m) \/ Proceed(m) \/ Crash(m)
  PROVE  \/ UNCHANGED files
         \/ \E n, c : Write(m, n, c)
<1> USE DEF repoVars, settings
<1>1. CASE UNCHANGED files
  BY <1>1
<1>2. CASE DeleteStale(m) \/ ScanUnreadable(m)
  BY <1>2 DEF DeleteStale, ScanUnreadable
<1>3. CASE OpenForPatch(m) \/ ApplyPatch(m) \/ OpenForFetch(m) \/ FetchArtifact(m)
           \/ FetchWrongArtifact(m)
  BY <1>3 DEF OpenForPatch, ApplyPatch, OpenForFetch, FetchArtifact, FetchWrongArtifact
<1> QED
  BY <1>1, <1>2, <1>3
     DEF Launch, Crash, Proceed, FetchBootstrap, BootstrapFails, ListFiles, CleanDone,
         Scan, ScanDone, FetchPatch, FetchPatchFails, OpenForPatchFails,
         ApplyPatchFails, OpenForFetchFails, FetchFails, DownloadDone, Verify,
         VerifyFails, VerifyDone, Start, StartFails, StartsNothing

LEMMA OthersUndisturbed ==
  ASSUME Exclusive, TypeOK, NEW l \in Launchers, NEW m \in Launchers, m # l,
         Launch(m) \/ Proceed(m) \/ Crash(m)
  PROVE  Undisturbed(l)
<1>1. Loc[l] # Loc[m] /\ Loc[l] \in Locations
  BY LocAssumption DEF Exclusive
<1>2. files'[Loc[l]] = files[Loc[l]]
  BY <1>1, OneWrite DEF Write, TypeOK
<1> QED
  BY <1>2, OthersFrame DEF Undisturbed

-----------------------------------------------------------------------------
\* verifyJarHashes has seen the artifacts before its index, and all of them
\* when the client is about to be started; nothing has changed them since.
Checked ==
  \A l \in Launchers :
    /\ pc[l] = "verify" => IntactUpTo(l, at[l] - 1)
    /\ pc[l] = "start" => Intact(l)

VerifyInv == TypeInv /\ Checked

\* An attempt that is not disturbed keeps what it has checked.
LEMMA UndisturbedChecked ==
  ASSUME Checked, NEW l \in Launchers, Undisturbed(l)
  PROVE  /\ pc'[l] = "verify" => IntactUpTo(l, at[l] - 1)'
         /\ pc'[l] = "start" => Intact(l)'
  BY DEF Checked, Undisturbed, IntactUpTo, Intact, Here

LEMMA OwnStepChecked ==
  ASSUME TypeInv, Checked, NEW l \in Launchers, Launch(l) \/ Proceed(l) \/ Crash(l)
  PROVE  /\ pc'[l] = "verify" => IntactUpTo(l, at[l] - 1)'
         /\ pc'[l] = "start" => Intact(l)'
<1> USE DEF repoVars, loopVars, settings, sizeVars, history, Goto, Advance, Restart, TypeInv
<1>1. CASE Verify(l)
  <2>a. at[l] \in Nat /\ Len(plan[l]) \in Nat
    BY PlanLength DEF TypeOK
  <2>b. IntactUpTo(l, at[l] - 1)
    BY <1>1 DEF Verify, Checked
  <2>c. Here(l)[plan[l][at[l]].name] = plan[l][at[l]].hash
    BY <1>1 DEF Verify
  <2>1. IntactUpTo(l, at[l])
    <3> SUFFICES ASSUME NEW j \in 1 .. Len(plan[l]), j <= at[l]
                 PROVE  Here(l)[plan[l][j].name] = plan[l][j].hash
      BY DEF IntactUpTo
    <3>1. j = at[l] \/ j <= at[l] - 1
      BY <2>a
    <3> QED
      BY <2>b, <2>c, <3>1 DEF IntactUpTo
  <2>2. at'[l] - 1 = at[l] /\ UNCHANGED <<files, plan, pc>>
    BY <1>1 DEF Verify, TypeOK
  <2> QED
    BY <1>1, <2>1, <2>2 DEF Verify, IntactUpTo, Here
<1>2. CASE VerifyDone(l)
  <2>1. Intact(l)
    <3>1. at[l] \in Nat /\ Len(plan[l]) \in Nat /\ at[l] > Len(plan[l])
      BY <1>2, PlanLength DEF VerifyDone, TypeOK
    <3>2. IntactUpTo(l, at[l] - 1)
      BY <1>2 DEF VerifyDone, Checked
    <3> QED
      BY <3>1, <3>2 DEF IntactUpTo, Intact
  <2> QED
    BY <1>2, <2>1 DEF VerifyDone, TypeOK, Intact, IntactUpTo, Here
<1>3. CASE DownloadDone(l)
  BY <1>3 DEF DownloadDone, IntactUpTo, TypeOK
<1>4. CASE Launch(l) \/ Crash(l)
  BY <1>4 DEF Launch, Crash, TypeOK
<1>5. CASE FetchBootstrap(l) \/ BootstrapFails(l) \/ ListFiles(l) \/ DeleteStale(l)
           \/ CleanDone(l)
  BY <1>5 DEF TypeOK, FetchBootstrap, BootstrapFails, ListFiles, DeleteStale, CleanDone
<1>6. CASE Scan(l) \/ ScanUnreadable(l)
  BY <1>6 DEF Scan, ScanUnreadable
<1>7. CASE ScanDone(l) \/ FetchPatch(l) \/ OpenForPatch(l) \/ ApplyPatch(l)
           \/ OpenForFetch(l) \/ OpenForFetchFails(l) \/ FetchArtifact(l)
           \/ FetchWrongArtifact(l) \/ FetchFails(l)
  BY <1>7 DEF TypeOK, ScanDone, FetchPatch, OpenForPatch, ApplyPatch, OpenForFetch,
      OpenForFetchFails, FetchArtifact, FetchWrongArtifact, FetchFails
<1>8. CASE FetchPatchFails(l) \/ OpenForPatchFails(l) \/ ApplyPatchFails(l)
  BY <1>8 DEF TypeOK, FetchPatchFails, OpenForPatchFails, ApplyPatchFails, FallBack
<1>9. CASE VerifyFails(l) \/ Start(l) \/ StartFails(l) \/ StartsNothing(l)
  BY <1>9 DEF TypeOK, VerifyFails, Start, StartFails, StartsNothing
<1> QED
  BY <1>1, <1>2, <1>3, <1>4, <1>5, <1>6, <1>7, <1>8, <1>9 DEF Proceed

LEMMA StepVerifyInv ==
  ASSUME Exclusive
  PROVE  VerifyInv /\ [Next]_vars => VerifyInv'
<1> SUFFICES ASSUME VerifyInv, [Next]_vars PROVE VerifyInv'
  OBVIOUS
<1>1. TypeInv'
  BY StepTypeInv DEF VerifyInv
<1>2. CASE UNCHANGED vars \/ Settle
  <2>1. Checked'
    BY <1>2 DEF VerifyInv, Checked, IntactUpTo, Intact, Here,
         vars, repoVars, loopVars, settings, sizeVars, history, Settle
  <2> QED
    BY <1>1, <2>1 DEF VerifyInv
<1>3. ASSUME NEW m \in Launchers, Launch(m) \/ Proceed(m) \/ Crash(m)
      PROVE  Checked'
  <2>1. ASSUME NEW l \in Launchers
        PROVE  /\ pc'[l] = "verify" => IntactUpTo(l, at[l] - 1)'
               /\ pc'[l] = "start" => Intact(l)'
    <3>1. CASE l = m
      BY <1>3, <3>1, OwnStepChecked DEF VerifyInv
    <3>2. CASE l # m
      BY <1>3, <3>2, OthersUndisturbed, UndisturbedChecked DEF VerifyInv, TypeInv
    <3> QED
      BY <3>1, <3>2
  <2> QED
    BY <2>1 DEF Checked
<1> QED
  BY <1>1, <1>2, <1>3 DEF Next, VerifyInv

\* The client is only started on files that all have the hashes of the signed
\* bootstrap, when no two attempts share a directory.
THEOREM VerifiedStart ==
  ASSUME Exclusive
  PROVE  Spec => StartsVerified
<1>1. Init => VerifyInv
  BY InitTypeInv DEF Init, VerifyInv, Checked
<1>2. VerifyInv /\ [Next]_vars => VerifyInv'
  BY StepVerifyInv
<1>3. VerifyInv /\ [Next]_vars =>
        [\A l \in Launchers :
           pc[l] = "start" /\ pc'[l] = "started" => Intact(l)]_vars
  BY DEF VerifyInv, Checked
<1> QED
  BY <1>1, <1>2, <1>3, PTL DEF Spec, StartsVerified

-----------------------------------------------------------------------------
(***************************************************************************)
(* An attempt that begins in fair weather gets all files right, and ends    *)
(* without a client only where none can be started.  During the loops       *)
(* of download() an artifact may be wrong on disk, but then it is in the    *)
(* queue, at the current index or after it; when the queue is exhausted     *)
(* nothing is wrong any more, and verifyJarHashes succeeds.                 *)
(***************************************************************************)
AfterFetch == {"list", "clean", "scan", "download", "patch", "apply", "full",
               "fetch", "verify", "start"}

InQueue == {"scan", "download", "patch", "apply", "full", "fetch"}

InDownload == InQueue \ {"scan"}

\* Artifact j is right on disk or still queued, at index i or after it.
Handled(l, j, i) ==
  \/ Here(l)[plan[l][j].name] = plan[l][j].hash
  \/ \E q \in 1 .. Len(todo[l]) : i <= q /\ todo[l][q].artifact = plan[l][j]

Repairing(l) ==
  /\ weather = "fair"
  /\ pc[l] \in {"failed", "ended"} => ~StartsClient(mode[l]) /\ Intact(l)
  /\ pc[l] \in AfterFetch => plan[l] \in Bootstraps
  /\ pc[l] \in InQueue =>
       \A q \in 1 .. Len(todo[l]) :
         \E j \in 1 .. Len(plan[l]) : todo[l][q].artifact = plan[l][j]
  /\ pc[l] = "scan" =>
       \A j \in 1 .. Len(plan[l]) : j < at[l] => Handled(l, j, 1)
  /\ pc[l] \in InDownload =>
       \A j \in 1 .. Len(plan[l]) : Handled(l, j, at[l])
  /\ pc[l] \in {"verify", "start"} => Intact(l)

RepairInv == TypeInv /\ \A l \in Launchers : clear[l] => Repairing(l)

\* Writing the file of one artifact of a plan changes no other artifact's.
LEMMA WriteKeepsOthers ==
  ASSUME WellFormed, TypeOK, NEW l \in Launchers, plan[l] \in Bootstraps,
         NEW i \in 1 .. Len(plan[l]), NEW j \in 1 .. Len(plan[l]), i # j,
         NEW c, Write(l, plan[l][i].name, c)
  PROVE  files'[Loc[l]][plan[l][j].name] = files[Loc[l]][plan[l][j].name]
<1>1. plan[l] \in Seq(Artifacts) /\ Loc[l] \in Locations
  BY BootstrapAssumption, LocAssumption
<1>2. plan[l][i].name # plan[l][j].name
  BY <1>1 DEF WellFormed
<1>3. plan[l][j] \in Artifacts
  BY PlanTyped
<1>4. plan[l][j].name \in Names
  BY <1>3 DEF Artifacts
<1> QED
  BY <1>1, <1>2, <1>4 DEF Write, TypeOK

\* Writing it has the effect one expects on the file itself.
LEMMA WriteTakes ==
  ASSUME TypeOK, NEW l \in Launchers, NEW n \in Names, NEW c, Write(l, n, c)
  PROVE  files'[Loc[l]][n] = c
  BY LocAssumption DEF Write, TypeOK

\* A step that opens the item's file keeps every artifact handled: the one
\* whose file it empties is the one the loop is at.
LEMMA OpenKeepsHandled ==
  ASSUME WellFormed, TypeInv, NEW l \in Launchers, Repairing(l),
         pc[l] \in InDownload, at[l] <= Len(todo[l]),
         Write(l, Item(l).artifact.name, Damaged),
         UNCHANGED <<plan, todo, at>>
  PROVE  \A j \in 1 .. Len(plan[l]) : Handled(l, j, at[l])'
<1> SUFFICES ASSUME NEW j \in 1 .. Len(plan[l])
             PROVE  Handled(l, j, at[l])'
  BY DEF Handled
<1>1. at[l] \in 1 .. Len(todo[l]) /\ plan[l] \in Bootstraps
  BY DEF TypeInv, TypeOK, Repairing, InDownload, InQueue, AfterFetch
<1>2. PICK i \in 1 .. Len(plan[l]) : Item(l).artifact = plan[l][i]
  BY <1>1 DEF Repairing, InDownload, Item
<1>3. CASE i = j
  BY <1>1, <1>2, <1>3 DEF Handled, Item
<1>4. CASE i # j
  <2>1. Here(l)'[plan[l][j].name] = Here(l)[plan[l][j].name]
    BY <1>1, <1>2, <1>4, WriteKeepsOthers DEF TypeInv, Here
  <2>2. Handled(l, j, at[l])
    BY DEF Repairing
  <2> QED
    BY <2>1, <2>2 DEF Handled
<1> QED
  BY <1>3, <1>4

\* A step that completes the item's file may move on to the next item.
LEMMA CompleteKeepsHandled ==
  ASSUME WellFormed, TypeInv, NEW l \in Launchers, Repairing(l),
         pc[l] \in InDownload, at[l] <= Len(todo[l]),
         Write(l, Item(l).artifact.name, Item(l).artifact.hash), Advance(l),
         UNCHANGED <<plan, todo>>
  PROVE  \A j \in 1 .. Len(plan[l]) : Handled(l, j, at[l])'
<1> SUFFICES ASSUME NEW j \in 1 .. Len(plan[l])
             PROVE  Handled(l, j, at[l])'
  BY DEF Handled
<1>1. /\ at[l] \in 1 .. Len(todo[l]) /\ plan[l] \in Bootstraps
      /\ at'[l] = at[l] + 1
  BY DEF TypeInv, TypeOK, Repairing, InDownload, InQueue, AfterFetch, Advance
<1>2. PICK i \in 1 .. Len(plan[l]) : Item(l).artifact = plan[l][i]
  BY <1>1 DEF Repairing, InDownload, Item
<1>3. CASE i = j
  <2>1. Here(l)'[plan[l][j].name] = plan[l][j].hash
    BY <1>2, <1>3, ItemTyped, WriteTakes DEF TypeInv, Here
  <2> QED
    BY <2>1 DEF Handled
<1>4. CASE i # j
  <2>1. Here(l)'[plan[l][j].name] = Here(l)[plan[l][j].name]
    BY <1>1, <1>2, <1>4, WriteKeepsOthers DEF TypeInv, Here
  <2>2. plan[l][i] # plan[l][j]
    BY <1>1, <1>4, BootstrapAssumption DEF WellFormed
  <2>3. CASE Here(l)[plan[l][j].name] = plan[l][j].hash
    BY <2>1, <2>3 DEF Handled
  <2>4. ASSUME NEW q \in 1 .. Len(todo[l]), at[l] <= q,
               todo[l][q].artifact = plan[l][j]
        PROVE  Handled(l, j, at[l])'
    <3>1. q # at[l]
      BY <1>2, <2>2, <2>4 DEF Item
    <3>2. at'[l] <= q
      BY <1>1, <2>4, <3>1
    <3> QED
      BY <2>4, <3>2 DEF Handled
  <2>5. Handled(l, j, at[l])
    BY DEF Repairing
  <2> QED
    BY <2>3, <2>4, <2>5 DEF Handled
<1> QED
  BY <1>3, <1>4

\* The scan queues every artifact it finds wrong.
LEMMA ScanKeepsRepairing ==
  ASSUME WellFormed, TypeInv, NEW l \in Launchers, Repairing(l), Scan(l)
  PROVE  Repairing(l)'
<1> USE DEF TypeInv
<1>1. /\ pc[l] = "scan" /\ at[l] \in Nat \ {0} /\ at[l] <= Len(plan[l])
      /\ Len(plan[l]) \in Nat /\ at'[l] = at[l] + 1
      /\ UNCHANGED <<weather, files, pc, plan>>
  BY PlanLength DEF Scan, TypeOK, Advance, repoVars
<1>2. plan[l][at[l]] \in Artifacts /\ at[l] \in 1 .. Len(plan[l])
  BY <1>1, PlanTyped
<1>3. plan[l] \in Bootstraps
  BY <1>1 DEF Repairing, AfterFetch
<1>4. \A q \in 1 .. Len(todo[l]) :
        \E j \in 1 .. Len(plan[l]) : todo[l][q].artifact = plan[l][j]
  BY <1>1 DEF Repairing, InQueue
<1>5. \A j \in 1 .. Len(plan[l]) : j < at[l] => Handled(l, j, 1)
  BY <1>1 DEF Repairing
<1>6. CASE Here(l)[plan[l][at[l]].name] = plan[l][at[l]].hash
  <2>1. UNCHANGED todo
    BY <1>6 DEF Scan
  <2>2. ASSUME NEW j \in 1 .. Len(plan[l]), j < at[l] + 1
        PROVE  Handled(l, j, 1)'
    <3>1. CASE j = at[l]
      BY <1>1, <1>6, <3>1 DEF Handled, Here
    <3>2. CASE j < at[l]
      BY <1>1, <1>5, <2>1, <3>2 DEF Handled, Here
    <3> QED
      BY <1>1, <2>2, <3>1, <3>2
  <2> QED
    BY <1>1, <1>3, <1>4, <2>1, <2>2 DEF Repairing, InDownload
<1>7. CASE Here(l)[plan[l][at[l]].name] # plan[l][at[l]].hash
  <2>1. PICK k : todo' = [todo EXCEPT ![l] =
                            Append(@, [artifact |-> plan[l][at[l]], diff |-> k])]
    BY <1>7 DEF Scan, Queue
  <2> DEFINE w == [artifact |-> plan[l][at[l]], diff |-> k]
             n == Len(todo[l])
  <2>2. todo[l] \in Seq(Work) /\ n \in Nat /\ todo'[l] = Append(todo[l], w)
    BY <2>1 DEF TypeOK
  <2>3. /\ Len(todo'[l]) = n + 1
        /\ \A q \in 1 .. n : todo'[l][q] = todo[l][q]
        /\ todo'[l][n + 1] = w
    BY <2>2
  <2>4. w.artifact = plan[l][at[l]]
    OBVIOUS
  <2> HIDE DEF w, n
  <2>5. ASSUME NEW q \in 1 .. Len(todo'[l])
        PROVE  \E j \in 1 .. Len(plan[l]) : todo'[l][q].artifact = plan[l][j]
    <3>1. CASE q = n + 1
      BY <1>2, <2>3, <2>4, <3>1
    <3>2. CASE q \in 1 .. n
      BY <1>4, <2>3, <3>2 DEF n
    <3> QED
      BY <2>2, <2>3, <3>1, <3>2
  <2>6. ASSUME NEW j \in 1 .. Len(plan[l]), j < at[l] + 1
        PROVE  Handled(l, j, 1)'
    <3>1. CASE j = at[l]
      <4>1. n + 1 \in 1 .. Len(todo'[l]) /\ 1 <= n + 1
        BY <2>2, <2>3
      <4> QED
        BY <1>1, <2>3, <2>4, <3>1, <4>1 DEF Handled
    <3>2. CASE j < at[l]
      <4>1. Handled(l, j, 1)
        BY <1>5, <3>2
      <4>2. \A q \in 1 .. n : q \in 1 .. Len(todo'[l])
        BY <2>2, <2>3
      <4> QED
        BY <1>1, <2>3, <4>1, <4>2 DEF Handled, Here, n
    <3> QED
      BY <1>1, <2>6, <3>1, <3>2
  <2> QED
    BY <1>1, <1>3, <2>5, <2>6 DEF Repairing, InDownload
<1> QED
  BY <1>6, <1>7

\* The steps of an attempt under way keep it repairing.
LEMMA OwnStepRepairing ==
  ASSUME Exclusive, WellFormed, TypeInv, NEW l \in Launchers, Repairing(l),
         Proceed(l) \/ Crash(l)
  PROVE  Repairing(l)'
<1> USE DEF TypeInv, repoVars, loopVars, settings, sizeVars, history, Goto, Advance, Restart,
            AfterFetch, InQueue, InDownload
<1>0. weather = "fair" /\ Supported = Bootstraps /\ ~Overlap(l)
  BY DEF Repairing, WellFormed, Overlap, Exclusive
<1>1. CASE Crash(l) \/ BootstrapFails(l) \/ ScanUnreadable(l) \/ FetchPatchFails(l)
           \/ OpenForPatchFails(l) \/ OpenForFetchFails(l) \/ FetchWrongArtifact(l)
           \/ FetchFails(l)
  BY <1>0, <1>1 DEF Crash, BootstrapFails, ScanUnreadable, FetchPatchFails,
      OpenForPatchFails, OpenForFetchFails, FetchWrongArtifact, FetchFails
<1>13. CASE StartFails(l) \/ StartsNothing(l)
  <2>1. ~StartsClient(mode[l])
    BY <1>0, <1>13 DEF StartFails, StartsNothing, StartsClient
  <2>2. /\ pc[l] = "start" /\ pc'[l] \in {"failed", "ended"}
        /\ UNCHANGED <<system, weather, files, plan, mode>>
    BY <1>13 DEF StartFails, StartsNothing, TypeOK
  <2>3. Intact(l)'
    BY <2>2 DEF Repairing, Intact, IntactUpTo, Here
  <2>4. ~StartsClient(mode[l])'
    BY <2>1, <2>2 DEF StartsClient, Way, CanForkLaunch
  <2> QED
    BY <1>0, <2>2, <2>3, <2>4 DEF Repairing
<1>2. CASE FetchBootstrap(l)
  BY <1>0, <1>2 DEF FetchBootstrap, Repairing, TypeOK
<1>3. CASE ListFiles(l) \/ DeleteStale(l)
  BY <1>3 DEF ListFiles, DeleteStale, Repairing, TypeOK
<1>4. CASE CleanDone(l)
  <2>1. /\ pc'[l] = "scan" /\ at'[l] = 1 /\ todo'[l] = << >>
        /\ UNCHANGED <<weather, plan>>
    BY <1>4 DEF CleanDone, TypeOK
  <2>2. plan[l] \in Bootstraps
    BY <1>4 DEF CleanDone, Repairing
  <2>3. Len(todo'[l]) = 0
    BY <2>1
  <2> QED
    BY <1>0, <2>1, <2>2, <2>3 DEF Repairing
<1>5. CASE Scan(l)
  BY <1>5, ScanKeepsRepairing
<1>6. CASE ScanDone(l)
  <2>1. /\ pc'[l] = "download" /\ at'[l] = 1 /\ pc[l] = "scan"
        /\ UNCHANGED <<weather, files, plan, todo>>
    BY <1>6 DEF ScanDone, TypeOK
  <2>2. \A j \in 1 .. Len(plan[l]) : j < at[l]
    BY <1>6, PlanLength DEF ScanDone, TypeOK
  <2>3. \A j \in 1 .. Len(plan[l]) : Handled(l, j, 1)
    BY <2>1, <2>2 DEF Repairing
  <2> QED
    BY <2>1, <2>3 DEF Repairing, Handled, Here
<1>7. CASE FetchPatch(l) \/ ApplyPatchFails(l)
  <2>1. /\ pc[l] \in InDownload /\ pc'[l] \in {"patch", "full"}
        /\ UNCHANGED <<weather, files, plan, todo, at>>
    BY <1>7 DEF FetchPatch, ApplyPatchFails, FallBack, TypeOK
  <2> QED
    BY <2>1 DEF Repairing, Handled, Here
<1>8. CASE OpenForPatch(l) \/ OpenForFetch(l)
  <2>1. /\ pc[l] \in InDownload /\ pc'[l] \in {"apply", "fetch"}
        /\ Write(l, Item(l).artifact.name, Damaged)
        /\ UNCHANGED <<weather, plan, todo, at>>
    BY <1>8 DEF OpenForPatch, OpenForFetch, TypeOK
  <2>2. at[l] <= Len(todo[l])
    BY <1>8 DEF OpenForPatch, OpenForFetch, LoopOK
  <2>3. \A j \in 1 .. Len(plan[l]) : Handled(l, j, at[l])'
    BY <2>1, <2>2, OpenKeepsHandled
  <2> QED
    BY <2>1, <2>3 DEF Repairing
<1>9. CASE ApplyPatch(l) \/ FetchArtifact(l)
  <2>1. /\ pc[l] \in InDownload /\ pc'[l] = "download"
        /\ Write(l, Item(l).artifact.name, Item(l).artifact.hash)
        /\ Advance(l)
        /\ UNCHANGED <<weather, plan, todo>>
    BY <1>0, <1>9 DEF ApplyPatch, FetchArtifact, TypeOK
  <2>2. at[l] <= Len(todo[l])
    BY <1>9 DEF ApplyPatch, FetchArtifact, LoopOK
  <2>3. \A j \in 1 .. Len(plan[l]) : Handled(l, j, at[l])'
    BY <2>1, <2>2, CompleteKeepsHandled
  <2> QED
    BY <2>1, <2>3 DEF Repairing
<1>10. CASE DownloadDone(l)
  <2>1. /\ pc[l] = "download" /\ pc'[l] = "verify"
        /\ at[l] \in Nat /\ Len(todo[l]) \in Nat /\ at[l] > Len(todo[l])
        /\ UNCHANGED <<weather, files, plan, todo>>
    BY <1>10 DEF DownloadDone, TypeOK
  <2>2. Intact(l)
    BY <2>1, PlanLength DEF Repairing, Handled, Intact, IntactUpTo
  <2> QED
    BY <2>1, <2>2 DEF Repairing, Intact, IntactUpTo, Here
<1>11. CASE Verify(l) \/ VerifyDone(l) \/ Start(l)
  BY <1>11 DEF Verify, VerifyDone, Start, Repairing, Intact, IntactUpTo, Here, TypeOK
<1>12. CASE VerifyFails(l)
  <2>1. Intact(l) /\ at[l] \in 1 .. Len(plan[l])
    BY <1>12, PlanLength DEF VerifyFails, Repairing, TypeOK
  <2> QED
    BY <1>0, <1>12, <2>1, PlanLength DEF VerifyFails, Intact, IntactUpTo
<1> QED
  BY <1>1, <1>2, <1>3, <1>4, <1>5, <1>6, <1>7, <1>8, <1>9, <1>10, <1>11, <1>12,
     <1>13 DEF Proceed

LEMMA LaunchRepairing ==
  ASSUME TypeInv, NEW l \in Launchers, Launch(l), clear'[l]
  PROVE  Repairing(l)'
  BY DEF TypeInv, TypeOK, Launch, Goto, Repairing, repoVars, AfterFetch, InQueue,
         InDownload

\* History: only a launch assigns clear[l].
LEMMA ClearFrame ==
  ASSUME NEW l \in Launchers, Proceed(l) \/ Crash(l)
  PROVE  UNCHANGED clear
  BY DEF Crash, Proceed, FetchBootstrap, BootstrapFails, ListFiles, DeleteStale,
         CleanDone, Scan, ScanUnreadable, ScanDone, FetchPatch, FetchPatchFails,
         OpenForPatch, OpenForPatchFails, ApplyPatch, ApplyPatchFails, OpenForFetch,
         OpenForFetchFails, FetchArtifact, FetchWrongArtifact, FetchFails,
         DownloadDone, Verify, VerifyFails, VerifyDone, Start, StartFails,
         StartsNothing, history

\* Nothing but Settle changes the weather, and nothing the system.
LEMMA WeatherFrame ==
  ASSUME NEW l \in Launchers, Launch(l) \/ Proceed(l) \/ Crash(l)
  PROVE  UNCHANGED <<system, weather>>
  BY DEF Launch, Crash, Proceed, FetchBootstrap, BootstrapFails, ListFiles,
         DeleteStale, CleanDone, Scan, ScanUnreadable, ScanDone, FetchPatch,
         FetchPatchFails, OpenForPatch, OpenForPatchFails, ApplyPatch,
         ApplyPatchFails, OpenForFetch, OpenForFetchFails, FetchArtifact,
         FetchWrongArtifact, FetchFails, DownloadDone, Verify, VerifyFails,
         VerifyDone, Start, StartFails, StartsNothing, repoVars

LEMMA StepRepairInv ==
  ASSUME Exclusive, WellFormed
  PROVE  RepairInv /\ [Next]_vars => RepairInv'
<1> SUFFICES ASSUME RepairInv, [Next]_vars PROVE RepairInv'
  OBVIOUS
<1>1. TypeInv'
  BY StepTypeInv DEF RepairInv
<1> SUFFICES ASSUME NEW l \in Launchers, clear'[l] PROVE Repairing(l)'
  BY <1>1 DEF RepairInv
<1>2. CASE UNCHANGED vars
  <2>1. Repairing(l)
    BY <1>2 DEF RepairInv, vars, repoVars, loopVars, settings, sizeVars, history
  <2> QED
    BY <1>2, <2>1 DEF Repairing, StartsClient, Way, CanForkLaunch, Handled, Intact,
         IntactUpTo, Here, vars, repoVars, loopVars, settings, sizeVars, history
<1>3. CASE Settle
  BY <1>3 DEF Settle, RepairInv, Repairing, history
<1>4. ASSUME NEW m \in Launchers, Launch(m) \/ Proceed(m) \/ Crash(m)
      PROVE  Repairing(l)'
  <2>1. CASE m = l /\ Launch(m)
    BY <2>1, LaunchRepairing DEF RepairInv
  <2>2. CASE m = l /\ (Proceed(m) \/ Crash(m))
    <3>1. clear[l]
      BY <2>2, ClearFrame
    <3> QED
      BY <2>2, <3>1, OwnStepRepairing DEF RepairInv
  <2>3. CASE m # l
    <3>1. Undisturbed(l)
      BY <1>4, <2>3, OthersUndisturbed DEF RepairInv, TypeInv
    <3>2. Repairing(l)
      BY <3>1 DEF Undisturbed, RepairInv
    <3>3. UNCHANGED <<system, weather>>
      BY <1>4, WeatherFrame
    <3> QED
      BY <3>1, <3>2, <3>3
         DEF Undisturbed, Repairing, StartsClient, Way, CanForkLaunch, Handled,
             Intact, IntactUpTo, Here
  <2> QED
    BY <1>4, <2>1, <2>2, <2>3
<1> QED
  BY <1>2, <1>3, <1>4 DEF Next

\* Once nothing fails any more, a single attempt is enough: download() repairs
\* whatever earlier attempts left behind, verification finds no fault, and the
\* client is started unless the launch mode has none to start on this system;
\* when no bootstrap names two artifacts alike and no two attempts share a
\* directory.
THEOREM OneFairAttemptSuffices ==
  ASSUME Exclusive, WellFormed
  PROVE  Spec => []FairAttemptSucceeds
<1>1. Init => RepairInv
  BY InitTypeInv DEF Init, RepairInv
<1>2. RepairInv /\ [Next]_vars => RepairInv'
  BY StepRepairInv
<1>3. RepairInv => FairAttemptSucceeds
  BY DEF RepairInv, Repairing, FairAttemptSucceeds
<1> QED
  BY <1>1, <1>2, <1>3, PTL DEF Spec

-----------------------------------------------------------------------------
(***************************************************************************)
(* An attempt that begins in fair weather writes no file that is right, and *)
(* takes no diff source away.  clean() deletes what the bootstrap does not  *)
(* mention; toDownload names no artifact twice, and those it still has to   *)
(* come to are wrong on disk, so that what is opened for writing is the one *)
(* wrong file the loop is at.                                               *)
(***************************************************************************)
Sparing(l) ==
  /\ pc[l] = "clean" => stale[l] \cap Wanted(plan[l]) = {}
  /\ pc[l] \in InQueue =>
       \A q, r \in 1 .. Len(todo[l]) :
         todo[l][q].artifact = todo[l][r].artifact => q = r
  /\ pc[l] = "scan" =>
       \A q \in 1 .. Len(todo[l]) :
         \E j \in 1 .. Len(plan[l]) : j < at[l] /\ todo[l][q].artifact = plan[l][j]
  /\ pc[l] \in InQueue =>
       \A q \in 1 .. Len(todo[l]) :
         pc[l] = "scan" \/ at[l] <= q =>
           Here(l)[todo[l][q].artifact.name] # todo[l][q].artifact.hash

SpareInv == RepairInv /\ \A l \in Launchers : clear[l] => Sparing(l)

\* In a plan a name stands for one artifact.
LEMMA OneName ==
  ASSUME WellFormed, NEW l \in Launchers, plan[l] \in Bootstraps,
         NEW i \in 1 .. Len(plan[l]), NEW j \in 1 .. Len(plan[l]),
         plan[l][i].name = plan[l][j].name
  PROVE  i = j
<1>1. plan[l] \in Seq(Artifacts)
  BY BootstrapAssumption
<1> QED
  BY <1>1 DEF WellFormed

\* Every entry of toDownload is typed.
LEMMA EntryTyped ==
  ASSUME TypeOK, NEW l \in Launchers, NEW q \in 1 .. Len(todo[l])
  PROVE  /\ todo[l] \in Seq(Work)
         /\ todo[l][q].artifact \in Artifacts
         /\ todo[l][q].artifact.name \in Names
         /\ todo[l][q].artifact.hash \in Hashes
         /\ todo[l][q].artifact.diffs \in Seq(Diffs)
         /\ todo[l][q].diff \in 0 .. Len(todo[l][q].artifact.diffs)
<1>1. todo[l] \in Seq(Work)
  BY DEF TypeOK
<1>2. todo[l][q] \in Work
  BY <1>1
<1> QED
  BY <1>1, <1>2 DEF Work, Artifacts

\* What a step of an attempt in fair weather writes.
Opens(l) ==
  /\ pc[l] \in InDownload /\ pc'[l] \in InDownload
  /\ at[l] \in 1 .. Len(todo[l])
  /\ Write(l, Item(l).artifact.name, Damaged)
  /\ UNCHANGED <<weather, plan, todo, at, nodiff, patchable>>

Completes(l) ==
  /\ pc[l] \in InDownload /\ pc'[l] = "download"
  /\ at[l] \in 1 .. Len(todo[l]) /\ at'[l] = at[l] + 1
  /\ Write(l, Item(l).artifact.name, Item(l).artifact.hash)
  /\ UNCHANGED <<weather, plan, todo, nodiff, patchable>>

Cleans(l) ==
  /\ pc[l] = "clean" /\ pc'[l] = "clean"
  /\ \E n \in stale[l] : Write(l, n, NoFile)
  /\ stale'[l] \subseteq stale[l]
  /\ UNCHANGED <<plan, todo, nodiff, patchable>>

LEMMA OpensOrCompletes ==
  ASSUME Exclusive, TypeInv, NEW l \in Launchers, Repairing(l)
  PROVE  /\ OpenForPatch(l) \/ OpenForFetch(l) => Opens(l)
         /\ ApplyPatch(l) \/ FetchArtifact(l) => Completes(l)
<1> USE DEF TypeInv, TypeOK, loopVars, settings, history, Goto, Advance, InDownload, InQueue
<1>1. ~Overlap(l) /\ at[l] \in Nat \ {0} /\ Len(todo[l]) \in Nat
  BY DEF Overlap, Exclusive
<1>2. ASSUME OpenForPatch(l) \/ OpenForFetch(l) PROVE Opens(l)
  BY <1>1, <1>2 DEF OpenForPatch, OpenForFetch, LoopOK, Opens
<1>3. ASSUME ApplyPatch(l) \/ FetchArtifact(l) PROVE Completes(l)
  BY <1>1, <1>3 DEF ApplyPatch, FetchArtifact, LoopOK, Completes
<1> QED
  BY <1>2, <1>3

LEMMA FairWrites ==
  ASSUME Exclusive, TypeInv, NEW l \in Launchers, Repairing(l),
         Launch(l) \/ Proceed(l) \/ Crash(l)
  PROVE  UNCHANGED files \/ Cleans(l) \/ Opens(l) \/ Completes(l)
<1> USE DEF repoVars, settings
<1>0. weather = "fair"
  BY DEF Repairing
<1>1. CASE DeleteStale(l)
  BY <1>0, <1>1 DEF DeleteStale, Cleans, TypeInv, TypeOK, history
<1>2. CASE ScanUnreadable(l) \/ FetchWrongArtifact(l)
  BY <1>0, <1>2 DEF ScanUnreadable, FetchWrongArtifact
<1>3. CASE OpenForPatch(l) \/ OpenForFetch(l) \/ ApplyPatch(l) \/ FetchArtifact(l)
  BY <1>3, OpensOrCompletes
<1> QED
  BY <1>1, <1>2, <1>3
     DEF Launch, Crash, Proceed, FetchBootstrap, BootstrapFails, ListFiles, CleanDone,
         Scan, ScanDone, FetchPatch, FetchPatchFails, OpenForPatchFails,
         ApplyPatchFails, OpenForFetchFails, FetchFails, DownloadDone, Verify,
         VerifyFails, VerifyDone, Start, StartFails, StartsNothing

\* The entry of toDownload that the loop is at, and an entry behind it, have
\* different files.
LEMMA OtherEntry ==
  ASSUME WellFormed, TypeInv, NEW l \in Launchers, Repairing(l), Sparing(l),
         pc[l] \in InDownload, at[l] \in 1 .. Len(todo[l]),
         NEW q \in 1 .. Len(todo[l]), q # at[l]
  PROVE  todo[l][q].artifact.name # Item(l).artifact.name
<1> USE DEF InDownload
<1>1. plan[l] \in Bootstraps
  BY DEF Repairing, AfterFetch, InQueue
<1>2. PICK i \in 1 .. Len(plan[l]) : Item(l).artifact = plan[l][i]
  BY DEF Repairing, Item
<1>3. PICK j \in 1 .. Len(plan[l]) : todo[l][q].artifact = plan[l][j]
  BY DEF Repairing
<1>4. todo[l][q].artifact # Item(l).artifact
  BY DEF Sparing, Item
<1> QED
  BY <1>1, <1>2, <1>3, <1>4, OneName

\* Writing a file leaves the others.
LEMMA WriteLeaves ==
  ASSUME TypeOK, NEW l \in Launchers, NEW n, NEW c, Write(l, n, c),
         NEW m \in Names, m # n
  PROVE  files'[Loc[l]][m] = files[Loc[l]][m]
  BY LocAssumption DEF Write, TypeOK

LEMMA OpensSparing ==
  ASSUME WellFormed, TypeInv, NEW l \in Launchers, Repairing(l), Sparing(l),
         Opens(l) \/ Completes(l)
  PROVE  Sparing(l)'
<1> USE DEF TypeInv, InDownload
<1>1. /\ pc[l] \in InDownload /\ pc'[l] \in InDownload
      /\ at[l] \in 1 .. Len(todo[l])
      /\ UNCHANGED <<plan, todo>>
  BY DEF Opens, Completes, InQueue
<1>2. ASSUME NEW q \in 1 .. Len(todo[l]), at[l] <= q, q # at[l]
      PROVE  Here(l)'[todo[l][q].artifact.name] # todo[l][q].artifact.hash
  <2>1. todo[l][q].artifact.name # Item(l).artifact.name
    BY <1>1, <1>2, OtherEntry
  <2>2. PICK c : Write(l, Item(l).artifact.name, c)
    BY DEF Opens, Completes
  <2>3. todo[l][q].artifact.name \in Names
    BY EntryTyped
  <2>4. Here(l)'[todo[l][q].artifact.name] = Here(l)[todo[l][q].artifact.name]
    BY <2>1, <2>2, <2>3, WriteLeaves DEF Here
  <2> QED
    BY <1>1, <1>2, <2>4 DEF Sparing
<1>3. ASSUME Opens(l)
      PROVE  Here(l)'[todo[l][at[l]].artifact.name] # todo[l][at[l]].artifact.hash
  <2>1. Item(l).artifact.name \in Names /\ Item(l).artifact.hash \in Hashes
    BY <1>1, EntryTyped DEF Item
  <2>2. Here(l)'[Item(l).artifact.name] = Damaged
    BY <1>3, <2>1, WriteTakes DEF Opens, Here
  <2> QED
    BY <2>1, <2>2, ContentAssumption DEF Item
<1>4. ASSUME NEW q \in 1 .. Len(todo[l]), at'[l] <= q
      PROVE  Here(l)'[todo[l][q].artifact.name] # todo[l][q].artifact.hash
  <2>1. CASE Opens(l)
    BY <1>2, <1>3, <1>4, <2>1 DEF Opens
  <2>2. CASE Completes(l)
    <3>1. at[l] <= q /\ q # at[l]
      BY <1>1, <1>4, <2>2 DEF Completes, TypeOK
    <3> QED
      BY <1>2, <3>1
  <2> QED
    BY <2>1, <2>2
<1>5. \A q, r \in 1 .. Len(todo[l]) :
        todo[l][q].artifact = todo[l][r].artifact => q = r
  BY <1>1 DEF Sparing
<1> QED
  BY <1>1, <1>4, <1>5 DEF Sparing, InQueue

\* Sparing and Sourced stay while nothing changes that they depend on.
LEMMA SameSparing ==
  ASSUME NEW l \in Launchers, Sparing(l), pc'[l] = pc[l], plan'[l] = plan[l],
         stale'[l] = stale[l], at'[l] = at[l], todo'[l] = todo[l],
         files'[Loc[l]] = files[Loc[l]]
  PROVE  Sparing(l)'
<1>1. Here(l)' = Here(l)
  BY DEF Here
<1>2. Wanted(plan[l])' = Wanted(plan[l])
  BY DEF Wanted
<1> QED
  BY <1>1, <1>2 DEF Sparing

\* The scan queues an artifact once, and only if its file is wrong.
LEMMA ScanSparing ==
  ASSUME WellFormed, TypeInv, NEW l \in Launchers, Repairing(l), Sparing(l), Scan(l)
  PROVE  Sparing(l)'
<1> USE DEF TypeInv, InQueue
<1>1. /\ pc[l] = "scan" /\ at[l] \in 1 .. Len(plan[l]) /\ Len(plan[l]) \in Nat
      /\ at'[l] = at[l] + 1
      /\ UNCHANGED <<files, pc, plan>>
  BY PlanLength DEF Scan, TypeOK, Advance, repoVars
<1>2. plan[l] \in Bootstraps
  BY <1>1 DEF Repairing, AfterFetch
<1>3. /\ \A q, r \in 1 .. Len(todo[l]) :
           todo[l][q].artifact = todo[l][r].artifact => q = r
      /\ \A q \in 1 .. Len(todo[l]) :
           \E j \in 1 .. Len(plan[l]) : j < at[l] /\ todo[l][q].artifact = plan[l][j]
      /\ \A q \in 1 .. Len(todo[l]) :
           Here(l)[todo[l][q].artifact.name] # todo[l][q].artifact.hash
  BY <1>1 DEF Sparing
<1>4. CASE UNCHANGED todo
  <2>1. ASSUME NEW q \in 1 .. Len(todo[l])
        PROVE  \E j \in 1 .. Len(plan[l]) :
                 j < at[l] + 1 /\ todo[l][q].artifact = plan[l][j]
    <3>1. PICK j \in 1 .. Len(plan[l]) : j < at[l] /\ todo[l][q].artifact = plan[l][j]
      BY <1>3
    <3>2. j < at[l] + 1
      BY <1>1, <3>1
    <3> QED
      BY <3>1, <3>2
  <2> QED
    BY <1>1, <1>3, <1>4, <2>1 DEF Sparing, Here
<1>5. ASSUME NEW k, Here(l)[plan[l][at[l]].name] # plan[l][at[l]].hash,
             todo' = [todo EXCEPT ![l] =
                        Append(@, [artifact |-> plan[l][at[l]], diff |-> k])]
      PROVE  Sparing(l)'
  <2> DEFINE w == [artifact |-> plan[l][at[l]], diff |-> k]
             n == Len(todo[l])
  <2>1. todo[l] \in Seq(Work) /\ n \in Nat /\ todo'[l] = Append(todo[l], w)
    BY <1>5 DEF TypeOK
  <2>2. /\ Len(todo'[l]) = n + 1
        /\ \A q \in 1 .. n : todo'[l][q] = todo[l][q]
        /\ todo'[l][n + 1] = w
    BY <2>1
  <2>3. w.artifact = plan[l][at[l]]
    OBVIOUS
  <2> HIDE DEF w, n
  <2>4. \A q \in 1 .. n + 1 : q = n + 1 \/ q \in 1 .. n
    BY <2>1
  <2>5. ASSUME NEW q \in 1 .. n PROVE todo[l][q].artifact # w.artifact
    <3>1. PICK j \in 1 .. Len(plan[l]) : j < at[l] /\ todo[l][q].artifact = plan[l][j]
      BY <1>3 DEF n
    <3>2. plan[l][j] # plan[l][at[l]]
      BY <1>1, <1>2, <3>1, OneName
    <3> QED
      BY <2>3, <3>1, <3>2
  <2>6. \A q, r \in 1 .. Len(todo'[l]) :
          todo'[l][q].artifact = todo'[l][r].artifact => q = r
    <3> SUFFICES ASSUME NEW q \in 1 .. n + 1, NEW r \in 1 .. n + 1,
                        todo'[l][q].artifact = todo'[l][r].artifact
                 PROVE  q = r
      BY <2>2
    <3>1. CASE q \in 1 .. n /\ r \in 1 .. n
      <4>1. todo[l][q].artifact = todo[l][r].artifact
        BY <2>2, <3>1
      <4> QED
        BY <1>3, <3>1, <4>1 DEF n
    <3>2. CASE q = n + 1 /\ r \in 1 .. n
      BY <2>2, <2>5, <3>2
    <3>3. CASE r = n + 1 /\ q \in 1 .. n
      BY <2>2, <2>5, <3>3
    <3> QED
      BY <2>4, <3>1, <3>2, <3>3
  <2>7. ASSUME NEW q \in 1 .. n + 1
        PROVE  /\ \E j \in 1 .. Len(plan[l]) :
                    j < at[l] + 1 /\ todo'[l][q].artifact = plan[l][j]
               /\ Here(l)[todo'[l][q].artifact.name] # todo'[l][q].artifact.hash
    <3>1. CASE q = n + 1
      <4>1. todo'[l][q].artifact = plan[l][at[l]]
        BY <2>2, <2>3, <3>1
      <4>2. at[l] < at[l] + 1
        BY <1>1
      <4> QED
        BY <1>1, <1>5, <4>1, <4>2
    <3>2. CASE q \in 1 .. n
      <4>1. todo'[l][q] = todo[l][q]
        BY <2>2, <3>2
      <4>2. PICK j \in 1 .. Len(plan[l]) : j < at[l] /\ todo[l][q].artifact = plan[l][j]
        BY <1>3, <3>2 DEF n
      <4>3. j < at[l] + 1
        BY <1>1, <4>2
      <4> QED
        BY <1>3, <3>2, <4>1, <4>2, <4>3 DEF n
    <3> QED
      BY <2>4, <3>1, <3>2
  <2> QED
    BY <1>1, <2>2, <2>6, <2>7 DEF Sparing, Here
<1> QED
  BY <1>4, <1>5 DEF Scan, Queue

LEMMA OwnStepSparing ==
  ASSUME Exclusive, WellFormed, TypeInv, NEW l \in Launchers, Repairing(l), Sparing(l),
         Proceed(l) \/ Crash(l)
  PROVE  Sparing(l)'
<1> USE DEF TypeInv, repoVars, loopVars, settings, sizeVars, history, Goto, Restart, InQueue,
            InDownload
<1>0. weather = "fair"
  BY DEF Repairing
<1>1. CASE Crash(l) \/ ScanUnreadable(l) \/ FetchPatchFails(l)
           \/ OpenForPatchFails(l) \/ OpenForFetchFails(l) \/ FetchWrongArtifact(l)
           \/ FetchFails(l)
  BY <1>0, <1>1 DEF Crash, ScanUnreadable, FetchPatchFails,
      OpenForPatchFails, OpenForFetchFails, FetchWrongArtifact, FetchFails
<1>2. CASE FetchBootstrap(l) \/ BootstrapFails(l) \/ DownloadDone(l) \/ Verify(l)
           \/ VerifyFails(l) \/ VerifyDone(l) \/ Start(l)
           \/ StartFails(l) \/ StartsNothing(l)
  <2>1. pc'[l] \notin {"clean"} \cup InQueue
    BY <1>2 DEF FetchBootstrap, BootstrapFails, DownloadDone, Verify, VerifyFails,
        VerifyDone, Start, StartFails, StartsNothing, TypeOK
  <2> QED
    BY <2>1 DEF Sparing
<1>3. CASE ListFiles(l)
  BY <1>3 DEF ListFiles, Sparing, TypeOK
<1>4. CASE DeleteStale(l)
  BY <1>4 DEF DeleteStale, Sparing, TypeOK
<1>5. CASE CleanDone(l)
  <2>1. pc'[l] = "scan" /\ todo'[l] = << >> /\ Len(todo'[l]) = 0
    BY <1>5 DEF CleanDone, TypeOK
  <2> QED
    BY <2>1 DEF Sparing
<1>6. CASE Scan(l)
  BY <1>6, ScanSparing
<1>7. CASE ScanDone(l)
  BY <1>7 DEF ScanDone, Sparing, Here, TypeOK
<1>8. CASE FetchPatch(l) \/ ApplyPatchFails(l)
  <2>1. /\ pc[l] \in InDownload /\ pc'[l] \in InDownload
        /\ UNCHANGED <<files, todo, at>>
    BY <1>8 DEF FetchPatch, ApplyPatchFails, FallBack, TypeOK
  <2> QED
    BY <2>1 DEF Sparing, Here
<1>9. CASE OpenForPatch(l) \/ OpenForFetch(l) \/ ApplyPatch(l) \/ FetchArtifact(l)
  BY <1>9, OpensOrCompletes, OpensSparing
<1> QED
  BY <1>1, <1>2, <1>3, <1>4, <1>5, <1>6, <1>7, <1>8, <1>9 DEF Proceed

LEMMA StepSpareInv ==
  ASSUME Exclusive, WellFormed
  PROVE  SpareInv /\ [Next]_vars => SpareInv'
<1> SUFFICES ASSUME SpareInv, [Next]_vars PROVE SpareInv'
  OBVIOUS
<1>1. RepairInv'
  BY StepRepairInv DEF SpareInv
<1> SUFFICES ASSUME NEW l \in Launchers, clear'[l] PROVE Sparing(l)'
  BY <1>1 DEF SpareInv
<1>2. CASE UNCHANGED vars \/ Settle
  BY <1>2, SameSparing DEF SpareInv,
         vars, repoVars, loopVars, settings, sizeVars, history, Settle
<1>3. ASSUME NEW m \in Launchers, Launch(m) \/ Proceed(m) \/ Crash(m)
      PROVE  Sparing(l)'
  <2>1. CASE m = l /\ Launch(m)
    <3>1. pc'[l] = "boot"
      BY <2>1 DEF Launch, Goto, SpareInv, RepairInv, TypeInv, TypeOK
    <3> QED
      BY <3>1 DEF Sparing, InQueue
  <2>2. CASE m = l /\ (Proceed(m) \/ Crash(m))
    <3>1. clear[l]
      BY <2>2, ClearFrame
    <3> QED
      BY <2>2, <3>1, OwnStepSparing DEF SpareInv, RepairInv
  <2>3. CASE m # l
    <3>1. Undisturbed(l)
      BY <1>3, <2>3, OthersUndisturbed DEF SpareInv, RepairInv, TypeInv
    <3> QED
      BY <3>1, SameSparing DEF Undisturbed, SpareInv
  <2> QED
    BY <1>3, <2>1, <2>2, <2>3
<1> QED
  BY <1>2, <1>3 DEF Next

\* In fair weather the write of an attempt spares what is right.
LEMMA SparesIntact ==
  ASSUME Exclusive, WellFormed, SpareInv, NEW l \in Launchers, clear[l],
         pc[l] \notin Over \cup {"boot"},
         Launch(l) \/ Proceed(l) \/ Crash(l),
         NEW j \in DOMAIN plan[l], Here(l)[plan[l][j].name] = plan[l][j].hash
  PROVE  files'[Loc[l]][plan[l][j].name] = plan[l][j].hash
<1> USE DEF SpareInv, RepairInv, TypeInv, InDownload
<1>1. Repairing(l) /\ Sparing(l)
  OBVIOUS
<1>2. plan[l] \in Bootstraps
  BY <1>1 DEF Repairing, AfterFetch, TypeOK, Points
<1>3. plan[l] \in Seq(Artifacts) /\ j \in 1 .. Len(plan[l])
  BY <1>2, BootstrapAssumption
<1>4. plan[l][j].name \in Names
  BY <1>3, PlanTyped DEF Artifacts
<1>5. CASE UNCHANGED files
  BY <1>5 DEF Here
<1>6. CASE Cleans(l)
  <2>1. PICK n \in stale[l] : Write(l, n, NoFile)
    BY <1>6 DEF Cleans
  <2>2. plan[l][j].name \in Wanted(plan[l])
    BY DEF Wanted
  <2>3. n # plan[l][j].name
    BY <1>1, <1>6, <2>2 DEF Cleans, Sparing
  <2> QED
    BY <1>4, <2>1, <2>3, WriteLeaves DEF Here
<1>7. CASE Opens(l) \/ Completes(l)
  <2>1. PICK i \in 1 .. Len(plan[l]) : Item(l).artifact = plan[l][i]
    BY <1>1, <1>7 DEF Opens, Completes, Repairing, Item
  <2>2. Here(l)[Item(l).artifact.name] # Item(l).artifact.hash
    <3>1. at[l] \in Nat
      BY DEF TypeOK
    <3> QED
      BY <1>1, <1>7, <3>1 DEF Opens, Completes, Sparing, Item
  <2>3. i # j
    BY <2>1, <2>2
  <2>4. plan[l][i].name # plan[l][j].name
    BY <1>2, <1>3, <2>3, OneName
  <2> QED
    BY <1>4, <1>7, <2>1, <2>4, WriteLeaves DEF Opens, Completes, Here
<1> QED
  BY <1>1, <1>5, <1>6, <1>7, FairWrites

\* An attempt that begins in fair weather never opens, deletes or overwrites an
\* artifact that is right, so that what an interrupted attempt had done is not
\* done again (Launcher.clean and the two loops of Launcher.download).
THEOREM IntactFilesStay ==
  ASSUME Exclusive, WellFormed
  PROVE  Spec => IntactArtifactsStay
<1>1. Init => SpareInv
  BY InitTypeInv DEF Init, RepairInv, SpareInv
<1>2. SpareInv /\ [Next]_vars => SpareInv'
  BY StepSpareInv
<1>3. SpareInv /\ [Next]_vars =>
        [\A l \in Launchers :
           clear[l] /\ pc[l] \notin Over \cup {"boot"} =>
             \A j \in DOMAIN plan[l] :
               Here(l)[plan[l][j].name] = plan[l][j].hash =>
                 files'[Loc[l]][plan[l][j].name] = plan[l][j].hash]_vars
  <2> SUFFICES ASSUME SpareInv, [Next]_vars, NEW l \in Launchers, clear[l],
                      pc[l] \notin Over \cup {"boot"},
                      NEW j \in DOMAIN plan[l],
                      Here(l)[plan[l][j].name] = plan[l][j].hash
               PROVE  files'[Loc[l]][plan[l][j].name] = plan[l][j].hash
    OBVIOUS
  <2>1. CASE UNCHANGED vars \/ Settle
    BY <2>1 DEF vars, repoVars, loopVars, settings, sizeVars, history, Settle, Here
  <2>2. ASSUME NEW m \in Launchers, Launch(m) \/ Proceed(m) \/ Crash(m)
        PROVE  files'[Loc[l]][plan[l][j].name] = plan[l][j].hash
    <3>1. CASE m = l
      BY <2>2, <3>1, SparesIntact
    <3>2. CASE m # l
      <4>1. Undisturbed(l)
        BY <2>2, <3>2, OthersUndisturbed DEF SpareInv, RepairInv, TypeInv
      <4> QED
        BY <4>1 DEF Undisturbed, Here
    <3> QED
      BY <3>1, <3>2
  <2> QED
    BY <2>1, <2>2 DEF Next
<1> QED
  BY <1>1, <1>2, <1>3, PTL DEF Spec, IntactArtifactsStay

-----------------------------------------------------------------------------
(***************************************************************************)
(* Diffs that can be used are used.  Through clean() and the scan every     *)
(* patchable artifact keeps an intact source, so that the scan gives it a   *)
(* diff; from then on the source of each queued diff stays intact, because  *)
(* what download() writes is wrong on disk and a source is not.             *)
(***************************************************************************)
Sourced(l) ==
  /\ pc[l] \in AfterFetch => patchable[l] \subseteq {plan[l][j] : j \in DOMAIN plan[l]}
  /\ pc[l] \in {"list", "clean", "scan"} =>
       \A a \in patchable[l] : \E k \in DOMAIN a.diffs : Usable(Here(l), a, k)
  /\ pc[l] \in InQueue =>
       \A q \in 1 .. Len(todo[l]) :
         IF todo[l][q].diff = 0
         THEN nodiff[l] \/ todo[l][q].artifact \notin patchable[l]
         ELSE Usable(Here(l), todo[l][q].artifact, todo[l][q].diff)

SourceInv == SpareInv /\ \A l \in Launchers : clear[l] => Sourced(l)

LEMMA SameSourced ==
  ASSUME NEW l \in Launchers, Sourced(l), pc'[l] = pc[l], plan'[l] = plan[l],
         todo'[l] = todo[l], nodiff'[l] = nodiff[l], patchable'[l] = patchable[l],
         files'[Loc[l]] = files[Loc[l]]
  PROVE  Sourced(l)'
<1>1. Here(l)' = Here(l)
  BY DEF Here
<1>2. \A a, k : Usable(Here(l), a, k)' = Usable(Here(l), a, k)
  BY <1>1 DEF Usable
<1> QED
  BY <1>2 DEF Sourced

\* clean() deletes no source of a diff of the plan.
LEMMA CleansSources ==
  ASSUME TypeInv, NEW l \in Launchers, Repairing(l), Sparing(l), Sourced(l), Cleans(l),
         NEW a \in patchable[l], NEW k \in DOMAIN a.diffs, Usable(Here(l), a, k)
  PROVE  Usable(Here(l)', a, k)
<1>1. PICK n \in stale[l] : Write(l, n, NoFile)
  BY DEF Cleans
<1>2. PICK j \in DOMAIN plan[l] : a = plan[l][j]
  BY DEF Cleans, Sourced, AfterFetch
<1>3. a.diffs[k].from \in Wanted(plan[l])
  BY <1>2 DEF Wanted
<1>4. n # a.diffs[k].from
  BY <1>1, <1>3 DEF Cleans, Sparing
<1>5. a \in Artifacts
  BY DEF TypeInv, TypeOK
<1>6. a.diffs \in Seq(Diffs)
  BY <1>5 DEF Artifacts
<1>7. a.diffs[k] \in Diffs
  BY <1>6
<1>8. a.diffs[k].from \in Names
  BY <1>7 DEF Diffs
<1> QED
  BY <1>1, <1>4, <1>8, WriteLeaves DEF Usable, Here, TypeInv

\* download() writes no intact source of a queued diff.
LEMMA OpensSources ==
  ASSUME WellFormed, SourcesAgree, TypeInv, NEW l \in Launchers, Repairing(l),
         Sparing(l), Opens(l) \/ Completes(l), NEW q \in 1 .. Len(todo[l]),
         todo[l][q].diff # 0, Usable(Here(l), todo[l][q].artifact, todo[l][q].diff)
  PROVE  Usable(Here(l)', todo[l][q].artifact, todo[l][q].diff)
<1> DEFINE d == todo[l][q].artifact.diffs[todo[l][q].diff]
<1> USE DEF TypeInv, InDownload
<1>1. pc[l] \in InDownload /\ at[l] \in 1 .. Len(todo[l]) /\ at[l] \in Nat
  BY DEF Opens, Completes, TypeOK
<1>2. /\ todo[l][q].artifact.diffs \in Seq(Diffs)
      /\ todo[l][q].diff \in 1 .. Len(todo[l][q].artifact.diffs)
  <2>1. /\ todo[l][q].artifact.diffs \in Seq(Diffs)
        /\ todo[l][q].diff \in 0 .. Len(todo[l][q].artifact.diffs)
    BY EntryTyped
  <2>2. Len(todo[l][q].artifact.diffs) \in Nat
    BY <2>1
  <2> QED
    BY <2>1, <2>2
<1>3. d.from \in Names
  <2>1. d \in Diffs
    BY <1>2
  <2> QED
    BY <2>1 DEF Diffs
<1>4. plan[l] \in Bootstraps /\ plan[l] \in Seq(Artifacts)
  BY <1>1, BootstrapAssumption DEF Repairing, AfterFetch, InQueue
<1>5. PICK i \in 1 .. Len(plan[l]) : todo[l][q].artifact = plan[l][i]
  BY <1>1 DEF Repairing
<1>6. PICK j \in 1 .. Len(plan[l]) : Item(l).artifact = plan[l][j]
  BY <1>1 DEF Repairing, Item
<1>7. Here(l)[Item(l).artifact.name] # Item(l).artifact.hash
  BY <1>1 DEF Sparing, Item
<1>8. d.from # Item(l).artifact.name
  <2>1. d.from = plan[l][j].name => d.fromHash = plan[l][j].hash
    <3>1. /\ i \in DOMAIN plan[l] /\ j \in DOMAIN plan[l]
          /\ todo[l][q].diff \in DOMAIN plan[l][i].diffs
      BY <1>2, <1>4, <1>5
    <3> QED
      BY <1>4, <1>5, <3>1 DEF SourcesAgree
  <2>2. Here(l)[d.from] = d.fromHash
    BY DEF Usable
  <2> QED
    BY <1>6, <1>7, <2>1, <2>2
<1>9. Here(l)'[d.from] = Here(l)[d.from]
  <2>1. PICK c : Write(l, Item(l).artifact.name, c)
    BY DEF Opens, Completes
  <2>2. ASSUME NEW m \in Names, m # Item(l).artifact.name
        PROVE  Here(l)'[m] = Here(l)[m]
    BY <2>1, <2>2, WriteLeaves DEF Here
  <2> HIDE DEF d
  <2> QED
    BY <1>3, <1>8, <2>2
<1> QED
  BY <1>9 DEF Usable

LEMMA OpensSourced ==
  ASSUME WellFormed, SourcesAgree, TypeInv, NEW l \in Launchers, Repairing(l),
         Sparing(l), Sourced(l), Opens(l) \/ Completes(l)
  PROVE  Sourced(l)'
<1>1. /\ pc[l] \in InDownload /\ pc'[l] \in InDownload
      /\ UNCHANGED <<plan, todo, nodiff, patchable>>
  BY DEF Opens, Completes, InDownload, InQueue
<1>2. ASSUME NEW q \in 1 .. Len(todo[l])
      PROVE  IF todo[l][q].diff = 0
             THEN nodiff[l] \/ todo[l][q].artifact \notin patchable[l]
             ELSE Usable(Here(l)', todo[l][q].artifact, todo[l][q].diff)
  BY <1>1, OpensSources DEF Sourced, InDownload
<1>3. patchable[l] \subseteq {plan[l][j] : j \in DOMAIN plan[l]}
  BY <1>1 DEF Sourced, InDownload, InQueue, AfterFetch
<1>4. pc'[l] \notin {"list", "clean", "scan"}
  BY <1>1 DEF InDownload, InQueue
<1> QED
  BY <1>1, <1>2, <1>3, <1>4 DEF Sourced

\* The scan finds a diff for every patchable artifact it queues.
LEMMA ScanSourced ==
  ASSUME TypeInv, NEW l \in Launchers, Repairing(l), Sourced(l), Scan(l)
  PROVE  Sourced(l)'
<1> USE DEF TypeInv
<1>1. /\ pc[l] = "scan" /\ at[l] <= Len(plan[l]) /\ weather = "fair"
      /\ UNCHANGED <<files, pc, plan, nodiff, patchable>>
  BY DEF Scan, repoVars, settings, history, Repairing
<1>2. /\ patchable[l] \subseteq {plan[l][j] : j \in DOMAIN plan[l]}
      /\ \A a \in patchable[l] : \E k \in DOMAIN a.diffs : Usable(Here(l), a, k)
      /\ \A q \in 1 .. Len(todo[l]) :
           IF todo[l][q].diff = 0
           THEN nodiff[l] \/ todo[l][q].artifact \notin patchable[l]
           ELSE Usable(Here(l), todo[l][q].artifact, todo[l][q].diff)
  BY <1>1 DEF Sourced, AfterFetch, InQueue
<1>3. CASE UNCHANGED todo
  BY <1>1, <1>2, <1>3 DEF Sourced, Here
<1>4. ASSUME Queue(l, Here(l), plan[l][at[l]], DOMAIN plan[l][at[l]].diffs)
      PROVE  Sourced(l)'
  <2> DEFINE a == plan[l][at[l]]
             n == Len(todo[l])
  <2>1. PICK k \in 0 .. Len(a.diffs) :
          /\ k # 0 => Usable(Here(l), a, k)
          /\ \A m \in (k + 1) .. Len(a.diffs) :
               ~nodiff[l] => m \notin DOMAIN a.diffs \/ ~Usable(Here(l), a, m)
          /\ todo' = [todo EXCEPT ![l] = Append(@, [artifact |-> a, diff |-> k])]
    BY <1>4 DEF Queue
  <2>2. a \in Artifacts
    BY <1>1, PlanTyped DEF TypeOK
  <2>3. a.diffs \in Seq(Diffs)
    BY <2>2 DEF Artifacts
  <2>4. k = 0 => nodiff[l] \/ a \notin patchable[l]
    <3> SUFFICES ASSUME k = 0, ~nodiff[l], a \in patchable[l] PROVE FALSE
      OBVIOUS
    <3>1. PICK m \in DOMAIN a.diffs : Usable(Here(l), a, m)
      BY <1>2
    <3>2. m \in 1 .. Len(a.diffs)
      BY <2>3
    <3>3. k + 1 = 1
      OBVIOUS
    <3> QED
      BY <2>1, <3>1, <3>2, <3>3
  <2> DEFINE w == [artifact |-> a, diff |-> k]
  <2>5. todo[l] \in Seq(Work) /\ n \in Nat /\ todo'[l] = Append(todo[l], w)
    BY <2>1 DEF TypeOK
  <2>6. /\ Len(todo'[l]) = n + 1
        /\ \A q \in 1 .. n : todo'[l][q] = todo[l][q]
        /\ todo'[l][n + 1] = w
    BY <2>5
  <2>7. w.artifact = a /\ w.diff = k
    OBVIOUS
  <2> HIDE DEF a, n, w
  <2>8. ASSUME NEW q \in 1 .. n + 1
        PROVE  IF todo'[l][q].diff = 0
               THEN nodiff[l] \/ todo'[l][q].artifact \notin patchable[l]
               ELSE Usable(Here(l), todo'[l][q].artifact, todo'[l][q].diff)
    <3>1. CASE q = n + 1
      BY <2>1, <2>4, <2>6, <2>7, <3>1
    <3>2. CASE q \in 1 .. n
      <4>1. IF todo[l][q].diff = 0
            THEN nodiff[l] \/ todo[l][q].artifact \notin patchable[l]
            ELSE Usable(Here(l), todo[l][q].artifact, todo[l][q].diff)
        BY <1>2, <3>2 DEF n
      <4>2. todo'[l][q] = todo[l][q]
        BY <2>6, <3>2
      <4> QED
        BY <4>1, <4>2
    <3>3. q = n + 1 \/ q \in 1 .. n
      BY <2>5
    <3> QED
      BY <3>1, <3>2, <3>3
  <2> QED
    BY <1>1, <1>2, <2>6, <2>8 DEF Sourced, Here
<1>5. UNCHANGED todo \/ Queue(l, Here(l), plan[l][at[l]], DOMAIN plan[l][at[l]].diffs)
  BY <1>1 DEF Scan
<1> QED
  BY <1>3, <1>4, <1>5

LEMMA OwnStepSourced ==
  ASSUME Exclusive, WellFormed, SourcesAgree, TypeInv, NEW l \in Launchers,
         Repairing(l), Sparing(l), Sourced(l), Proceed(l) \/ Crash(l)
  PROVE  Sourced(l)'
<1> USE DEF TypeInv, repoVars, loopVars, settings, sizeVars, history, Goto
<1>0. weather = "fair" /\ Supported = Bootstraps
  BY DEF Repairing, WellFormed
<1>1. CASE Crash(l) \/ BootstrapFails(l) \/ ScanUnreadable(l) \/ FetchPatchFails(l)
           \/ OpenForPatchFails(l) \/ OpenForFetchFails(l) \/ FetchWrongArtifact(l)
           \/ FetchFails(l)
  BY <1>0, <1>1 DEF Crash, BootstrapFails, ScanUnreadable, FetchPatchFails,
      OpenForPatchFails, OpenForFetchFails, FetchWrongArtifact, FetchFails
<1>2. CASE FetchBootstrap(l)
  <2>1. PICK b \in Supported :
          /\ plan'[l] = b /\ patchable'[l] = Patchable(Here(l), b)
          /\ pc'[l] = "list" /\ UNCHANGED files
    BY <1>2 DEF FetchBootstrap, TypeOK
  <2>2. \A a \in Patchable(Here(l), b) :
          /\ a \in {b[j] : j \in DOMAIN b}
          /\ \E k \in DOMAIN a.diffs : Usable(Here(l), a, k)
    BY DEF Patchable
  <2>3. \A a \in patchable'[l] : \E k \in DOMAIN a.diffs : Usable(Here(l)', a, k)
    BY <2>1, <2>2 DEF Here
  <2>4. patchable'[l] \subseteq {plan'[l][j] : j \in DOMAIN plan'[l]}
    BY <2>1, <2>2
  <2> QED
    BY <2>1, <2>3, <2>4 DEF Sourced, InQueue
<1>3. CASE ListFiles(l)
  BY <1>3 DEF ListFiles, Sourced, Here, TypeOK, AfterFetch, InQueue
<1>4. CASE DeleteStale(l)
  <2>1. /\ pc[l] = "clean" /\ Cleans(l)
        /\ UNCHANGED <<pc, plan, nodiff, patchable, todo>>
    BY <1>0, <1>4 DEF DeleteStale, Cleans, TypeOK
  <2>2. \A a \in patchable[l] : \E k \in DOMAIN a.diffs : Usable(Here(l)', a, k)
    BY <2>1, CleansSources DEF Sourced
  <2> QED
    BY <2>1, <2>2 DEF Sourced, InQueue, AfterFetch
<1>5. CASE CleanDone(l)
  <2>1. /\ pc[l] = "clean" /\ pc'[l] = "scan" /\ todo'[l] = << >> /\ Len(todo'[l]) = 0
        /\ UNCHANGED <<files, plan, patchable>>
    BY <1>5 DEF CleanDone, TypeOK
  <2> QED
    BY <2>1 DEF Sourced, Here, AfterFetch, InQueue
<1>6. CASE Scan(l)
  BY <1>6, ScanSourced
<1>7. CASE ScanDone(l) \/ FetchPatch(l) \/ ApplyPatchFails(l)
  <2>1. /\ pc[l] \in InQueue /\ pc'[l] \in InDownload
        /\ UNCHANGED <<files, plan, todo, nodiff, patchable>>
    BY <1>7 DEF ScanDone, FetchPatch, ApplyPatchFails, FallBack, TypeOK, InQueue,
        InDownload
  <2> QED
    BY <2>1 DEF Sourced, Here, AfterFetch, InQueue, InDownload
<1>8. CASE OpenForPatch(l) \/ OpenForFetch(l) \/ ApplyPatch(l) \/ FetchArtifact(l)
  BY <1>8, OpensOrCompletes, OpensSourced
<1>9. CASE DownloadDone(l) \/ Verify(l) \/ VerifyFails(l) \/ VerifyDone(l) \/ Start(l)
           \/ StartFails(l) \/ StartsNothing(l)
  <2>1. /\ pc[l] \in AfterFetch
        /\ pc'[l] \in {"verify", "start", "started", "failed", "ended"}
        /\ UNCHANGED <<plan, patchable>>
    BY <1>9 DEF DownloadDone, Verify, VerifyFails, VerifyDone, Start, StartFails,
        StartsNothing, TypeOK, AfterFetch
  <2> QED
    BY <2>1 DEF Sourced, InQueue
<1> QED
  BY <1>1, <1>2, <1>3, <1>4, <1>5, <1>6, <1>7, <1>8, <1>9 DEF Proceed

LEMMA StepSourceInv ==
  ASSUME Exclusive, WellFormed, SourcesAgree
  PROVE  SourceInv /\ [Next]_vars => SourceInv'
<1> SUFFICES ASSUME SourceInv, [Next]_vars PROVE SourceInv'
  OBVIOUS
<1>1. SpareInv'
  BY StepSpareInv DEF SourceInv
<1> SUFFICES ASSUME NEW l \in Launchers, clear'[l] PROVE Sourced(l)'
  BY <1>1 DEF SourceInv
<1>2. CASE UNCHANGED vars \/ Settle
  BY <1>2, SameSourced DEF SourceInv,
         vars, repoVars, loopVars, settings, sizeVars, history, Settle
<1>3. ASSUME NEW m \in Launchers, Launch(m) \/ Proceed(m) \/ Crash(m)
      PROVE  Sourced(l)'
  <2>1. CASE m = l /\ Launch(m)
    <3>1. pc'[l] = "boot"
      BY <2>1 DEF Launch, Goto, SourceInv, SpareInv, RepairInv, TypeInv, TypeOK
    <3> QED
      BY <3>1 DEF Sourced, InQueue, AfterFetch
  <2>2. CASE m = l /\ (Proceed(m) \/ Crash(m))
    <3>1. clear[l]
      BY <2>2, ClearFrame
    <3> QED
      BY <2>2, <3>1, OwnStepSourced DEF SourceInv, SpareInv, RepairInv
  <2>3. CASE m # l
    <3>1. Undisturbed(l)
      BY <1>3, <2>3, OthersUndisturbed DEF SourceInv, SpareInv, RepairInv, TypeInv
    <3> QED
      BY <3>1, SameSourced DEF Undisturbed, SourceInv
  <2> QED
    BY <1>3, <2>1, <2>2, <2>3
<1> QED
  BY <1>2, <1>3 DEF Next

\* A step that turns to the whole of a patchable artifact gives up a diff that
\* was applied to its source.
LEMMA GivesUpApplied ==
  ASSUME TypeInv, NEW l \in Launchers, Repairing(l), Sourced(l), ~nodiff[l],
         Launch(l) \/ Proceed(l) \/ Crash(l),
         pc[l] \notin {"full", "fetch"}, pc'[l] \in {"full", "fetch"},
         Item(l).artifact \in patchable[l]
  PROVE  pc[l] = "apply" /\ Usable(Here(l), Item(l).artifact, Item(l).diff)
<1> USE DEF TypeInv, TypeOK, repoVars, loopVars, settings, Goto
<1>0. weather = "fair" /\ at[l] \in Nat \ {0}
  BY DEF Repairing
<1>1. CASE OpenForFetch(l)
  <2>1. pc[l] = "download" /\ at[l] \in 1 .. Len(todo[l]) /\ Item(l).diff = 0
    BY <1>0, <1>1 DEF OpenForFetch
  <2> QED
    BY <2>1 DEF Sourced, InQueue, Item
<1>2. CASE ApplyPatchFails(l)
  <2>1. pc[l] = "apply" /\ at[l] \in 1 .. Len(todo[l]) /\ Item(l).diff # 0
    BY <1>0, <1>2 DEF ApplyPatchFails, LoopOK
  <2> QED
    BY <2>1 DEF Sourced, InQueue, Item
<1>3. CASE Launch(l) \/ Crash(l)
  BY <1>3 DEF Launch, Crash
<1>4. CASE FetchPatchFails(l) \/ OpenForPatchFails(l)
  BY <1>0, <1>4 DEF FetchPatchFails, OpenForPatchFails
<1>5. CASE \/ FetchBootstrap(l) \/ BootstrapFails(l) \/ ListFiles(l) \/ DeleteStale(l)
           \/ CleanDone(l) \/ Scan(l) \/ ScanUnreadable(l) \/ ScanDone(l)
  BY <1>5 DEF FetchBootstrap, BootstrapFails, ListFiles, DeleteStale, CleanDone, Scan,
      ScanUnreadable, ScanDone
<1>6. CASE \/ FetchPatch(l) \/ OpenForPatch(l) \/ ApplyPatch(l)
           \/ OpenForFetchFails(l) \/ FetchArtifact(l) \/ FetchWrongArtifact(l)
           \/ FetchFails(l)
  BY <1>6 DEF FetchPatch, OpenForPatch, ApplyPatch, OpenForFetchFails, FetchArtifact,
      FetchWrongArtifact, FetchFails
<1>7. CASE DownloadDone(l) \/ Verify(l) \/ VerifyFails(l) \/ VerifyDone(l) \/ Start(l)
           \/ StartFails(l) \/ StartsNothing(l)
  BY <1>7 DEF DownloadDone, Verify, VerifyFails, VerifyDone, Start, StartFails, StartsNothing
<1> QED
  BY <1>1, <1>2, <1>3, <1>4, <1>5, <1>6, <1>7 DEF Proceed

\* In fair weather an artifact with an intact diff source is fetched whole only
\* after a diff was applied to that source: clean() keeps the sources, the scan
\* chooses a diff, and nothing that is downloaded before it spoils its source
\* (Launcher.clean, Launcher.download).
THEOREM DiffsUsed ==
  ASSUME Exclusive, WellFormed, SourcesAgree
  PROVE  Spec => DiffsAreUsed
<1>1. Init => SourceInv
  BY InitTypeInv DEF Init, RepairInv, SpareInv, SourceInv
<1>2. SourceInv /\ [Next]_vars => SourceInv'
  BY StepSourceInv
<1>3. SourceInv /\ [Next]_vars =>
        [\A l \in Launchers :
           /\ clear[l] /\ ~nodiff[l]
           /\ pc[l] \notin {"full", "fetch"} /\ pc'[l] \in {"full", "fetch"}
           /\ Item(l).artifact \in patchable[l]
           => /\ pc[l] = "apply"
              /\ Usable(Here(l), Item(l).artifact, Item(l).diff)]_vars
  <2> SUFFICES ASSUME SourceInv, [Next]_vars, NEW l \in Launchers, clear[l],
                      ~nodiff[l], pc[l] \notin {"full", "fetch"},
                      pc'[l] \in {"full", "fetch"}, Item(l).artifact \in patchable[l]
               PROVE  pc[l] = "apply" /\ Usable(Here(l), Item(l).artifact, Item(l).diff)
    OBVIOUS
  <2>1. CASE UNCHANGED vars \/ Settle
    BY <2>1 DEF vars, repoVars, loopVars, settings, sizeVars, history, Settle
  <2>2. ASSUME NEW m \in Launchers, Launch(m) \/ Proceed(m) \/ Crash(m)
        PROVE  pc[l] = "apply" /\ Usable(Here(l), Item(l).artifact, Item(l).diff)
    <3>1. CASE m = l
      BY <2>2, <3>1, GivesUpApplied DEF SourceInv, SpareInv, RepairInv
    <3>2. CASE m # l
      BY <2>2, <3>2, OthersUndisturbed
         DEF Undisturbed, SourceInv, SpareInv, RepairInv, TypeInv
    <3> QED
      BY <3>1, <3>2
  <2> QED
    BY <2>1, <2>2 DEF Next
<1> QED
  BY <1>1, <1>2, <1>3, PTL DEF Spec, DiffsAreUsed

-----------------------------------------------------------------------------
(***************************************************************************)
(* Repository implements VerifiedLaunch.  A step of an attempt that starts  *)
(* the client maps to StartClient, and needs the bootstrap that was         *)
(* verified; every other one maps to Attempt, Work, GiveUp or a stutter.    *)
(***************************************************************************)
Planned ==
  \A l \in Launchers : pc[l] \in AfterFetch => plan[l] \in Bootstraps

LEMMA OwnStepPlanned ==
  ASSUME TypeOK, NEW l \in Launchers, Launch(l) \/ Proceed(l) \/ Crash(l),
         pc[l] \in AfterFetch => plan[l] \in Bootstraps
  PROVE  pc'[l] \in AfterFetch => plan'[l] \in Bootstraps
<1> USE DEF repoVars, loopVars, settings, sizeVars, history, Goto, AfterFetch
<1>1. CASE Launch(l) \/ Crash(l)
  BY <1>1 DEF Launch, Crash, TypeOK
<1>2. CASE FetchBootstrap(l)
  BY <1>2, BootstrapAssumption DEF FetchBootstrap, TypeOK
<1>3. CASE BootstrapFails(l) \/ ListFiles(l) \/ DeleteStale(l) \/ CleanDone(l)
  BY <1>3 DEF TypeOK, BootstrapFails, ListFiles, DeleteStale, CleanDone
<1>4. CASE Scan(l) \/ ScanUnreadable(l) \/ ScanDone(l)
  BY <1>4 DEF TypeOK, Scan, ScanUnreadable, ScanDone
<1>5. CASE FetchPatch(l) \/ OpenForPatch(l) \/ ApplyPatch(l)
           \/ OpenForFetch(l) \/ OpenForFetchFails(l) \/ FetchArtifact(l)
           \/ FetchWrongArtifact(l) \/ FetchFails(l) \/ DownloadDone(l)
  BY <1>5 DEF TypeOK, FetchPatch, OpenForPatch, ApplyPatch, OpenForFetch,
      OpenForFetchFails, FetchArtifact, FetchWrongArtifact, FetchFails, DownloadDone
<1>6. CASE FetchPatchFails(l) \/ OpenForPatchFails(l) \/ ApplyPatchFails(l)
  BY <1>6 DEF TypeOK, FetchPatchFails, OpenForPatchFails, ApplyPatchFails, FallBack
<1>7. CASE Verify(l) \/ VerifyFails(l) \/ VerifyDone(l) \/ Start(l)
           \/ StartFails(l) \/ StartsNothing(l)
  BY <1>7 DEF TypeOK, Verify, VerifyFails, VerifyDone, Start, StartFails, StartsNothing
<1> QED
  BY <1>1, <1>2, <1>3, <1>4, <1>5, <1>6, <1>7 DEF Proceed

LEMMA StepPlanned == TypeOK /\ Planned /\ [Next]_vars => Planned'
<1> SUFFICES ASSUME TypeOK, Planned, [Next]_vars, NEW l \in Launchers
             PROVE  pc'[l] \in AfterFetch => plan'[l] \in Bootstraps
  BY DEF Planned
<1>1. CASE UNCHANGED vars \/ Settle
  BY <1>1 DEF vars, repoVars, loopVars, settings, sizeVars, history, Settle, Planned
<1>2. ASSUME NEW m \in Launchers, Launch(m) \/ Proceed(m) \/ Crash(m)
      PROVE  pc'[l] \in AfterFetch => plan'[l] \in Bootstraps
  <2>1. CASE l = m
    BY <1>2, <2>1, OwnStepPlanned DEF Planned
  <2>2. CASE l # m
    BY <1>2, <2>2, OthersFrame DEF Planned
  <2> QED
    BY <2>1, <2>2
<1> QED
  BY <1>1, <1>2 DEF Next

\* How a move of the pc shows in the session.
LEMMA GotoSession ==
  ASSUME TypeOK, NEW l \in Launchers, NEW p, Goto(l, p)
  PROVE  Session' = [Session EXCEPT ![l] = SessionAt(p)]
  BY DEF Goto, TypeOK, Session

LEMMA SameSession ==
  ASSUME TypeOK, NEW l \in Launchers, NEW p, Goto(l, p) \/ UNCHANGED pc,
         SessionAt(p) = SessionAt(pc[l])
  PROVE  UNCHANGED Session
<1>1. CASE UNCHANGED pc
  BY <1>1 DEF Session
<1>2. CASE Goto(l, p)
  <2>1. \A m \in Launchers : SessionAt(pc'[m]) = SessionAt(pc[m])
    BY <1>2 DEF Goto, TypeOK
  <2> QED
    BY <2>1 DEF Session
<1> QED
  BY <1>1, <1>2

\* A step inside an attempt is Work.
Inside(l) ==
  /\ pc[l] \notin Over
  /\ pc'[l] \notin Over
  /\ \E p : Goto(l, p) \/ UNCHANGED pc

LEMMA InsideIsWork ==
  ASSUME TypeOK, NEW l \in Launchers, Inside(l),
         Launch(l) \/ Proceed(l) \/ Crash(l)
  PROVE  Abstract!Work(l)
<1>1. Session[l] = "launching"
  BY DEF Inside, Over, Session, SessionAt
<1>2. UNCHANGED Session
  <2>1. CASE UNCHANGED pc
    BY <2>1 DEF Session
  <2>2. ASSUME NEW p, Goto(l, p) PROVE UNCHANGED Session
    <3>1. pc'[l] = p
      BY <2>2 DEF Goto, TypeOK
    <3>2. SessionAt(p) = SessionAt(pc[l])
      BY <3>1 DEF Inside, Over, SessionAt
    <3> QED
      BY <2>2, <3>2, SameSession
  <2> QED
    BY <2>1, <2>2 DEF Inside
<1>3. \A d \in Locations \ {Loc[l]} : files'[d] = files[d]
  BY OneWrite, LocAssumption DEF Write, TypeOK
<1> QED
  BY <1>1, <1>2, <1>3 DEF Abstract!Work

\* The steps that neither begin nor end an attempt.
LEMMA LoopsAreInside ==
  ASSUME TypeOK, NEW l \in Launchers,
         \/ FetchBootstrap(l) \/ ListFiles(l) \/ DeleteStale(l) \/ CleanDone(l)
         \/ Scan(l) \/ ScanUnreadable(l) \/ ScanDone(l)
         \/ FetchPatch(l) \/ FetchPatchFails(l) \/ OpenForPatch(l)
         \/ OpenForPatchFails(l) \/ ApplyPatch(l) \/ ApplyPatchFails(l)
         \/ OpenForFetch(l) \/ FetchArtifact(l) \/ FetchWrongArtifact(l)
         \/ DownloadDone(l) \/ Verify(l) \/ VerifyDone(l)
  PROVE  Inside(l)
<1> USE DEF Inside, Over, TypeOK, Goto, repoVars, loopVars, settings
<1>1. CASE FetchBootstrap(l) \/ ListFiles(l) \/ DeleteStale(l) \/ CleanDone(l)
  BY <1>1 DEF FetchBootstrap, ListFiles, DeleteStale, CleanDone
<1>2. CASE Scan(l) \/ ScanUnreadable(l) \/ ScanDone(l)
  BY <1>2 DEF Scan, ScanUnreadable, ScanDone
<1>3. CASE FetchPatch(l) \/ OpenForPatch(l) \/ ApplyPatch(l) \/ OpenForFetch(l)
           \/ FetchArtifact(l) \/ FetchWrongArtifact(l)
  BY <1>3 DEF FetchPatch, OpenForPatch, ApplyPatch, OpenForFetch, FetchArtifact,
      FetchWrongArtifact
<1>4. CASE FetchPatchFails(l) \/ OpenForPatchFails(l) \/ ApplyPatchFails(l)
  BY <1>4 DEF FetchPatchFails, OpenForPatchFails, ApplyPatchFails, FallBack
<1>5. CASE DownloadDone(l) \/ Verify(l) \/ VerifyDone(l)
  BY <1>5 DEF DownloadDone, Verify, VerifyDone
<1> QED
  BY <1>1, <1>2, <1>3, <1>4, <1>5

\* Attempts that begin, fail, are killed or start the client.
LEMMA LaunchIsAttempt ==
  ASSUME TypeOK, NEW l \in Launchers, Launch(l)
  PROVE  Abstract!Attempt(l)
<1>1. Session' = [Session EXCEPT ![l] = "launching"]
  BY GotoSession DEF Launch, SessionAt
<1>2. Session[l] # "launching" /\ UNCHANGED files
  BY DEF Launch, Over, Session, SessionAt, repoVars
<1> QED
  BY <1>1, <1>2 DEF Abstract!Attempt, Abstract!Enter

LEMMA FailureIsGiveUp ==
  ASSUME TypeOK, NEW l \in Launchers,
         \/ BootstrapFails(l) \/ OpenForFetchFails(l) \/ FetchFails(l)
         \/ VerifyFails(l) \/ StartFails(l) \/ StartsNothing(l) \/ Crash(l)
  PROVE  Abstract!GiveUp(l)
<1> USE DEF BootstrapFails, OpenForFetchFails, FetchFails, VerifyFails, StartFails,
           StartsNothing, Crash
<1>1. Session' = [Session EXCEPT ![l] = "off"]
  <2>1. Goto(l, "failed") \/ Goto(l, "idle") \/ Goto(l, "ended")
    OBVIOUS
  <2> QED
    BY <2>1, GotoSession DEF SessionAt
<1>2. pc[l] \notin Over /\ UNCHANGED files
  BY DEF repoVars, Over
<1>3. Session[l] = "launching"
  BY <1>2 DEF Over, Session, SessionAt
<1> QED
  BY <1>1, <1>2, <1>3 DEF Abstract!GiveUp, Abstract!Enter

LEMMA StartIsStartClient ==
  ASSUME VerifyInv, Planned, NEW l \in Launchers, Start(l)
  PROVE  Abstract!StartClient(l)
<1> USE DEF VerifyInv, TypeInv
<1>1. Session' = [Session EXCEPT ![l] = "client"]
  BY GotoSession DEF Start, SessionAt
<1>2. Session[l] = "launching" /\ UNCHANGED files
  BY DEF Start, Session, SessionAt, repoVars
<1>3. plan[l] \in Bootstraps /\ plan[l] \in Seq(Artifacts)
  BY BootstrapAssumption DEF Planned, AfterFetch, Start
<1>4. Abstract!Genuine(files[Loc[l]], plan[l])
  BY <1>3, PlanLength DEF Checked, Start, Intact, IntactUpTo, Here, Abstract!Genuine
<1> QED
  BY <1>1, <1>2, <1>3, <1>4 DEF Abstract!StartClient, Abstract!Enter

LEMMA StepRefines ==
  ASSUME VerifyInv, Planned, [Next]_vars
  PROVE  [Abstract!Next]_(Abstract!vars)
<1> USE DEF VerifyInv, TypeInv
<1>1. CASE UNCHANGED vars \/ Settle
  BY <1>1 DEF vars, repoVars, Settle, Session, Abstract!vars
<1>2. ASSUME NEW l \in Launchers, Launch(l) \/ Proceed(l) \/ Crash(l)
      PROVE  Abstract!Next
  <2>1. CASE Launch(l)
    BY <2>1, LaunchIsAttempt DEF Abstract!Next
  <2>2. CASE Start(l)
    BY <2>2, StartIsStartClient DEF Abstract!Next
  <2>3. CASE \/ BootstrapFails(l) \/ OpenForFetchFails(l) \/ FetchFails(l)
             \/ VerifyFails(l) \/ StartFails(l) \/ StartsNothing(l) \/ Crash(l)
    BY <2>3, FailureIsGiveUp DEF Abstract!Next
  <2>4. CASE Inside(l)
    BY <1>2, <2>4, InsideIsWork DEF Abstract!Next
  <2> QED
    BY <1>2, <2>1, <2>2, <2>3, <2>4, LoopsAreInside DEF Proceed
<1> QED
  BY <1>1, <1>2 DEF Next

\* The pipeline implements VerifiedLaunch, when no two attempts share a
\* directory: whatever fails or is killed, the client starts on the files of one
\* signed bootstrap, and only an attempt under way writes, in its own directory.
THEOREM Refinement ==
  ASSUME Exclusive
  PROVE  Spec => ImplementsVerifiedLaunch
<1>1. Init => VerifyInv /\ Planned
  BY InitTypeInv DEF Init, VerifyInv, Checked, Planned, AfterFetch
<1>2. VerifyInv /\ Planned /\ [Next]_vars => (VerifyInv /\ Planned)'
  BY StepVerifyInv, StepPlanned DEF VerifyInv, TypeInv
<1>3. Init => Abstract!Init
  BY DEF Init, Abstract!Init, Session, SessionAt
<1>4. VerifyInv /\ Planned /\ [Next]_vars => [Abstract!Next]_(Abstract!vars)
  BY StepRefines
<1> QED
  BY <1>1, <1>2, <1>3, <1>4, PTL DEF Spec, ImplementsVerifiedLaunch, Abstract!Spec

LEMMA GenuineFilesStay ==
  ASSUME Exclusive, ClientsKeepGenuineFiles, [Abstract!Next]_(Abstract!vars)
  PROVE  ClientsKeepGenuineFiles'
<1> SUFFICES ASSUME NEW l \in Launchers, Session'[l] = "client"
             PROVE  \E b \in Bootstraps : Abstract!Genuine(files'[Loc[l]], b)
  BY DEF ClientsKeepGenuineFiles, Abstract!ClientsKeepGenuineFiles, Abstract!Genuine
<1> USE DEF ClientsKeepGenuineFiles, Abstract!ClientsKeepGenuineFiles
<1>0. Loc[l] \in Locations /\ DOMAIN Session = Launchers
  BY LocAssumption DEF Session
<1>1. CASE UNCHANGED Abstract!vars
  BY <1>1 DEF Abstract!vars, Abstract!Genuine
<1>2. ASSUME NEW m \in Launchers, Abstract!Work(m)
      PROVE  \E b \in Bootstraps : Abstract!Genuine(files'[Loc[l]], b)
  <2>1. Session[l] = "client" /\ l # m
    BY <1>2 DEF Abstract!Work
  <2>2. files'[Loc[l]] = files[Loc[l]]
    BY <1>0, <1>2, <2>1 DEF Abstract!Work, Exclusive
  <2> QED
    BY <2>1, <2>2 DEF Abstract!Genuine
<1>3. ASSUME NEW m \in Launchers,
             Abstract!Attempt(m) \/ Abstract!GiveUp(m) \/ Abstract!StartClient(m)
      PROVE  \E b \in Bootstraps : Abstract!Genuine(files'[Loc[l]], b)
  <2> USE DEF Abstract!Attempt, Abstract!GiveUp, Abstract!StartClient, Abstract!Enter
  <2>1. UNCHANGED files
    BY <1>3
  <2>2. CASE l = m
    BY <1>0, <1>3, <2>1, <2>2 DEF Abstract!Genuine
  <2>3. CASE l # m
    BY <1>0, <1>3, <2>1, <2>3 DEF Abstract!Genuine
  <2> QED
    BY <2>2, <2>3
<1> QED
  BY <1>1, <1>2, <1>3 DEF Abstract!Next

\* A running client keeps the files it was verified with.  The argument is made
\* about VerifiedLaunch alone and carried over by the refinement.
THEOREM ClientFilesGenuine ==
  ASSUME Exclusive
  PROVE  Spec => []ClientsKeepGenuineFiles
<1>1. Abstract!Init => ClientsKeepGenuineFiles
  BY DEF Abstract!Init, ClientsKeepGenuineFiles, Abstract!ClientsKeepGenuineFiles
<1>2. ClientsKeepGenuineFiles /\ [Abstract!Next]_(Abstract!vars)
        => ClientsKeepGenuineFiles'
  BY GenuineFilesStay
<1>3. Spec => ImplementsVerifiedLaunch
  BY Refinement
<1> QED
  BY <1>1, <1>2, <1>3, PTL DEF ImplementsVerifiedLaunch, Abstract!Spec

-----------------------------------------------------------------------------
(***************************************************************************)
(* An attempt ends.  Each of its own steps brings it nearer to an end, in   *)
(* an order in which nothing descends for ever: by the stage it is at, then *)
(* by what the loop it is in has left, then by how much there is to do for  *)
(* one file.                                                                *)
(***************************************************************************)

Downloading == {"download", "patch", "apply", "full", "fetch"}

StageOf(p) ==
  CASE p = "boot" -> 7 [] p = "list" -> 6 [] p = "clean" -> 5 [] p = "scan" -> 4
    [] p \in Downloading -> 3 [] p = "verify" -> 2 [] p = "start" -> 1
    [] p \in Over -> 0

Left(l) ==
  CASE pc[l] = "clean" -> Cardinality(stale[l])
    [] pc[l] \in {"scan", "verify"} -> Len(plan[l]) + 1 - at[l]
    [] pc[l] \in Downloading -> Len(todo[l]) + 1 - at[l]
    [] OTHER -> 0

HandOf(p) ==
  CASE p = "download" -> 4 [] p = "patch" -> 3 [] p = "apply" -> 2 [] p = "full" -> 1
    [] p \notin Downloading \ {"fetch"} -> 0

Rank(l) == <<StageOf(pc[l]), Left(l), HandOf(pc[l])>>

\* The loops do not run past their ends.
Bounded ==
  \A l \in Launchers :
    /\ pc[l] \in {"scan", "verify"} => at[l] <= Len(plan[l]) + 1
    /\ pc[l] \in Downloading => at[l] <= Len(todo[l]) + 1

Nearer(l) ==
  \/ StageOf(pc'[l]) < StageOf(pc[l])
  \/ StageOf(pc'[l]) = StageOf(pc[l]) /\ Left(l)' < Left(l)
  \/ /\ StageOf(pc'[l]) = StageOf(pc[l]) /\ Left(l)' = Left(l)
     /\ HandOf(pc'[l]) < HandOf(pc[l])

\* The values of the three.
LEMMA Stages ==
  /\ StageOf("boot") = 7 /\ StageOf("list") = 6 /\ StageOf("clean") = 5
  /\ StageOf("scan") = 4 /\ StageOf("verify") = 2 /\ StageOf("start") = 1
  /\ \A p \in Downloading : StageOf(p) = 3
  /\ \A p \in Over : StageOf(p) = 0
  /\ HandOf("download") = 4 /\ HandOf("patch") = 3 /\ HandOf("apply") = 2
  /\ HandOf("full") = 1 /\ HandOf("fetch") = 0
BY DEF StageOf, Over, HandOf, Downloading

\* What the loops have left is a number of files.
LEMMA LeftIsNumber ==
  ASSUME IsFiniteSet(Names), TypeInv, NEW l \in Launchers, Bounded
  PROVE  Left(l) \in Nat
<1>1. at[l] \in Nat /\ Len(plan[l]) \in Nat /\ Len(todo[l]) \in Nat
  BY PlanLength DEF TypeInv, TypeOK
<1>2. Cardinality(stale[l]) \in Nat
  <2>1. stale[l] \in SUBSET Names
    BY DEF TypeInv, TypeOK
  <2>2. IsFiniteSet(stale[l])
    BY <2>1, FS_Subset
  <2> QED
    BY <2>2, FS_CardinalityType
<1>3. CASE pc[l] \in {"scan", "verify"}
  BY <1>1, <1>3 DEF Left, Bounded, Downloading
<1>4. CASE pc[l] \in Downloading
  BY <1>1, <1>4 DEF Left, Bounded, Downloading
<1>5. CASE pc[l] = "clean"
  BY <1>2, <1>5 DEF Left, Downloading
<1>6. CASE pc[l] \notin {"clean", "scan", "verify"} \cup Downloading
  BY <1>6 DEF Left
<1> QED
  BY <1>3, <1>4, <1>5, <1>6

\* Steps from one stage to a later one.
LEMMA StageSteps ==
  ASSUME TypeInv, Bounded, NEW l \in Launchers,
         \/ FetchBootstrap(l) \/ BootstrapFails(l) \/ ListFiles(l) \/ CleanDone(l)
         \/ ScanDone(l) \/ DownloadDone(l) \/ VerifyFails(l) \/ VerifyDone(l)
         \/ Start(l) \/ StartFails(l) \/ StartsNothing(l)
         \/ OpenForFetchFails(l) \/ FetchFails(l)
         \/ Crash(l)
  PROVE  /\ StageOf(pc'[l]) < StageOf(pc[l])
         /\ pc'[l] \in {"scan", "download", "verify"} => at'[l] = 1
         /\ pc'[l] \notin Downloading \ {"download"}
<1> USE Stages DEF TypeInv, TypeOK, Goto, Restart, Downloading, Over
<1>1. CASE FetchBootstrap(l)
  BY <1>1 DEF FetchBootstrap
<1>2. CASE BootstrapFails(l) \/ ListFiles(l)
  BY <1>2 DEF BootstrapFails, ListFiles
<1>3. CASE CleanDone(l) \/ ScanDone(l) \/ DownloadDone(l)
  BY <1>3 DEF CleanDone, ScanDone, DownloadDone
<1>4. CASE VerifyFails(l) \/ VerifyDone(l)
  BY <1>4 DEF VerifyFails, VerifyDone
<1>5. CASE Start(l) \/ StartFails(l) \/ StartsNothing(l)
  BY <1>5 DEF Start, StartFails, StartsNothing
<1>6. CASE OpenForFetchFails(l) \/ FetchFails(l)
  BY <1>6 DEF OpenForFetchFails, FetchFails
<1>7. CASE Crash(l)
  BY <1>7 DEF Crash, Points, StageOf
<1> QED
  BY <1>1, <1>2, <1>3, <1>4, <1>5, <1>6, <1>7

\* Steps that take a loop on by one, and no further than its end.
LEMMA LoopSteps ==
  ASSUME TypeInv, Bounded, NEW l \in Launchers,
         \/ Scan(l) \/ ScanUnreadable(l) \/ Verify(l)
         \/ ApplyPatch(l) \/ FetchArtifact(l) \/ FetchWrongArtifact(l)
  PROVE  /\ at'[l] = at[l] + 1 /\ plan'[l] = plan[l]
         /\ \/ /\ pc[l] \in {"scan", "verify"} /\ pc'[l] = pc[l]
               /\ at[l] <= Len(plan[l])
            \/ /\ pc[l] \in Downloading /\ pc'[l] = "download"
               /\ at[l] <= Len(todo[l]) /\ todo'[l] = todo[l]
<1> USE DEF TypeInv, TypeOK, LoopOK, Goto, Advance, Downloading
<1>1. CASE Scan(l)
  BY <1>1 DEF Scan
<1>2. CASE ScanUnreadable(l)
  BY <1>2 DEF ScanUnreadable
<1>3. CASE Verify(l)
  BY <1>3 DEF Verify
<1>4. CASE ApplyPatch(l)
  BY <1>4 DEF ApplyPatch
<1>5. CASE FetchArtifact(l) \/ FetchWrongArtifact(l)
  BY <1>5 DEF FetchArtifact, FetchWrongArtifact
<1> QED
  BY <1>1, <1>2, <1>3, <1>4, <1>5

\* Steps at one file of the second loop.
LEMMA HandSteps ==
  ASSUME TypeInv, Bounded, NEW l \in Launchers,
         \/ FetchPatch(l) \/ FetchPatchFails(l) \/ OpenForPatch(l)
         \/ OpenForPatchFails(l) \/ ApplyPatchFails(l) \/ OpenForFetch(l)
  PROVE  /\ at'[l] = at[l] /\ todo'[l] = todo[l] /\ plan'[l] = plan[l]
         /\ pc[l] \in Downloading /\ pc'[l] \in Downloading
         /\ at[l] <= Len(todo[l])
         /\ HandOf(pc'[l]) < HandOf(pc[l])
<1> USE Stages DEF TypeInv, TypeOK, LoopOK, Goto, loopVars, settings, Downloading
<1>1. CASE FetchPatch(l) \/ OpenForPatch(l)
  BY <1>1 DEF FetchPatch, OpenForPatch
<1>2. CASE FetchPatchFails(l) \/ OpenForPatchFails(l) \/ ApplyPatchFails(l)
  BY <1>2 DEF FetchPatchFails, OpenForPatchFails, ApplyPatchFails, FallBack
<1>3. CASE OpenForFetch(l)
  BY <1>3 DEF OpenForFetch
<1> QED
  BY <1>1, <1>2, <1>3

\* The loops' bounds hold for the attempt that takes a step.
BoundedAt(l) ==
  /\ pc[l] \in {"scan", "verify"} => at[l] <= Len(plan[l]) + 1
  /\ pc[l] \in Downloading => at[l] <= Len(todo[l]) + 1

LEMMA OwnStepNearer ==
  ASSUME IsFiniteSet(Names), TypeInv, TypeInv', Bounded, NEW l \in Launchers,
         Proceed(l) \/ Crash(l)
  PROVE  Nearer(l) /\ BoundedAt(l)'
<1>1. /\ at[l] \in Nat /\ Len(plan[l]) \in Nat /\ Len(todo[l]) \in Nat
      /\ at'[l] \in Nat /\ Len(plan'[l]) \in Nat /\ Len(todo'[l]) \in Nat
  <2>1. plan'[l] \in Bootstraps \cup {<< >>} /\ << >> \in Seq(Artifacts)
    BY DEF TypeInv, TypeOK
  <2>2. plan'[l] \in Seq(Artifacts)
    BY <2>1, BootstrapAssumption
  <2>3. Len(plan[l]) \in Nat
    BY PlanLength DEF TypeInv
  <2> QED
    BY <2>2, <2>3 DEF TypeInv, TypeOK
<1>2. CASE \/ FetchBootstrap(l) \/ BootstrapFails(l) \/ ListFiles(l) \/ CleanDone(l)
           \/ ScanDone(l) \/ DownloadDone(l) \/ VerifyFails(l) \/ VerifyDone(l)
           \/ Start(l) \/ StartFails(l) \/ StartsNothing(l)
         \/ OpenForFetchFails(l) \/ FetchFails(l)
           \/ Crash(l)
  BY <1>1, <1>2, StageSteps DEF Nearer, BoundedAt, Downloading
<1>3. CASE \/ Scan(l) \/ ScanUnreadable(l) \/ Verify(l)
           \/ ApplyPatch(l) \/ FetchArtifact(l) \/ FetchWrongArtifact(l)
  <2>1. /\ at'[l] = at[l] + 1 /\ plan'[l] = plan[l]
        /\ \/ /\ pc[l] \in {"scan", "verify"} /\ pc'[l] = pc[l]
              /\ at[l] <= Len(plan[l])
           \/ /\ pc[l] \in Downloading /\ pc'[l] = "download"
              /\ at[l] <= Len(todo[l]) /\ todo'[l] = todo[l]
    BY <1>3, LoopSteps
  <2>2. StageOf(pc'[l]) = StageOf(pc[l])
    BY <2>1, Stages DEF Downloading
  <2>3. Left(l)' < Left(l)
    <3>1. CASE pc[l] \in {"scan", "verify"} /\ pc'[l] = pc[l]
      <4>1. /\ Left(l) = Len(plan[l]) + 1 - at[l]
            /\ Left(l)' = Len(plan'[l]) + 1 - at'[l]
        BY <3>1 DEF Left, Downloading
      <4> QED
        BY <1>1, <2>1, <4>1
    <3>2. CASE pc[l] \in Downloading /\ pc'[l] = "download" /\ todo'[l] = todo[l]
      <4>1. /\ Left(l) = Len(todo[l]) + 1 - at[l]
            /\ Left(l)' = Len(todo'[l]) + 1 - at'[l]
        BY <3>2 DEF Left, Downloading
      <4> QED
        BY <1>1, <2>1, <3>2, <4>1
    <3> QED
      BY <2>1, <3>1, <3>2
  <2>4. BoundedAt(l)'
    BY <1>1, <2>1 DEF BoundedAt, Downloading
  <2> QED
    BY <2>2, <2>3, <2>4 DEF Nearer
<1>4. CASE \/ FetchPatch(l) \/ FetchPatchFails(l) \/ OpenForPatch(l)
           \/ OpenForPatchFails(l) \/ ApplyPatchFails(l) \/ OpenForFetch(l)
  <2>1. /\ at'[l] = at[l] /\ todo'[l] = todo[l] /\ plan'[l] = plan[l]
        /\ pc[l] \in Downloading /\ pc'[l] \in Downloading
        /\ at[l] <= Len(todo[l])
        /\ HandOf(pc'[l]) < HandOf(pc[l])
    BY <1>4, HandSteps
  <2>2. StageOf(pc'[l]) = StageOf(pc[l])
    BY <2>1, Stages
  <2>3. Left(l)' = Left(l)
    BY <2>1 DEF Left, Downloading
  <2>4. BoundedAt(l)'
    BY <1>1, <2>1 DEF BoundedAt, Downloading
  <2> QED
    BY <2>1, <2>2, <2>3, <2>4 DEF Nearer
<1>5. CASE DeleteStale(l)
  <2>1. pc[l] = "clean" /\ pc'[l] = "clean"
    BY <1>5 DEF DeleteStale
  <2>2. PICK n \in stale[l] : stale'[l] = stale[l] \ {n}
    BY <1>5 DEF DeleteStale, TypeInv, TypeOK
  <2>3. IsFiniteSet(stale[l])
    BY FS_Subset DEF TypeInv, TypeOK
  <2>4. Cardinality(stale'[l]) = Cardinality(stale[l]) - 1 /\ Cardinality(stale[l]) \in Nat
    BY <2>2, <2>3, FS_RemoveElement, FS_CardinalityType
  <2>5. Left(l) = Cardinality(stale[l]) /\ Left(l)' = Cardinality(stale'[l])
    BY <2>1 DEF Left, Downloading
  <2>6. Left(l)' < Left(l)
    BY <2>4, <2>5
  <2> QED
    BY <2>1, <2>6 DEF Nearer, BoundedAt, Downloading
<1> QED
  BY <1>2, <1>3, <1>4, <1>5 DEF Proceed

\* The steps of other attempts take nothing from it.
LEMMA OthersRank ==
  ASSUME TypeOK, NEW l \in Launchers, NEW m \in Launchers, m # l,
         Launch(m) \/ Proceed(m) \/ Crash(m)
  PROVE  Rank(l)' = Rank(l) /\ (BoundedAt(l) => BoundedAt(l)')
<1>1. /\ pc'[l] = pc[l] /\ plan'[l] = plan[l] /\ at'[l] = at[l]
      /\ todo'[l] = todo[l] /\ stale'[l] = stale[l]
  BY OthersFrame
<1> QED
  BY <1>1 DEF Rank, Left, BoundedAt

\* One step, for one attempt.
LEMMA StepNearer ==
  ASSUME IsFiniteSet(Names), TypeInv, TypeInv', Bounded, [Next]_vars,
         NEW l \in Launchers
  PROVE  /\ BoundedAt(l)'
         /\ Proceed(l) => Nearer(l)
         /\ Nearer(l) \/ Launch(l) \/ Rank(l)' = Rank(l)
<1>1. BoundedAt(l)
  BY DEF Bounded, BoundedAt
<1>2. Proceed(l) \/ Crash(l) => Nearer(l) /\ BoundedAt(l)'
  BY OwnStepNearer
<1>3. CASE Launch(l)
  <2>1. pc'[l] = "boot"
    BY <1>3 DEF Launch, Goto, TypeInv, TypeOK
  <2> QED
    BY <1>2, <1>3, <2>1 DEF BoundedAt, Downloading
<1>4. CASE \E m \in Launchers : m # l /\ (Launch(m) \/ Proceed(m) \/ Crash(m))
  BY <1>1, <1>2, <1>4, OthersRank DEF TypeInv
<1>5. CASE Settle \/ UNCHANGED vars
  <2>1. /\ pc'[l] = pc[l] /\ plan'[l] = plan[l] /\ at'[l] = at[l]
        /\ todo'[l] = todo[l] /\ stale'[l] = stale[l]
    BY <1>5 DEF Settle, vars, repoVars, loopVars, settings, sizeVars, history
  <2>2. Rank(l)' = Rank(l) /\ BoundedAt(l)'
    BY <1>1, <2>1 DEF Rank, Left, BoundedAt
  <2> QED
    BY <1>2, <2>2
<1> QED
  BY <1>2, <1>3, <1>4, <1>5 DEF Next

\* Every attempt ends: each of its own steps, be it a success, a failure or the
\* repair of one, brings it nearer to starting the client or giving up, and what
\* other attempts do to the same files never sets it back (the loops of
\* Launcher.launch, clean, download and verifyJarHashes).  The rank is a triple of
\* naturals in lexicographic order, so that only finitely many steps lie between
\* one Launch and the next.
THEOREM AttemptsEnd ==
  ASSUME IsFiniteSet(Names)
  PROVE  Spec => /\ [](\A l \in Launchers : Left(l) \in Nat)
                 /\ [][\A l \in Launchers :
                         /\ Proceed(l) => Nearer(l)
                         /\ Nearer(l) \/ Launch(l) \/ Rank(l)' = Rank(l)]_vars
<1> DEFINE BInv == TypeInv /\ Bounded
           Steps == \A l \in Launchers :
                      /\ Proceed(l) => Nearer(l)
                      /\ Nearer(l) \/ Launch(l) \/ Rank(l)' = Rank(l)
           Numbers == \A l \in Launchers : Left(l) \in Nat
<1>1. Init => BInv
  BY InitTypeInv DEF Init, Bounded, Downloading
<1>2. BInv /\ [Next]_vars => BInv' /\ Steps
  <2> SUFFICES ASSUME BInv, [Next]_vars PROVE BInv' /\ Steps
    OBVIOUS
  <2>1. TypeInv'
    BY StepTypeInv
  <2>2. \A l \in Launchers : BoundedAt(l)'
    BY <2>1, StepNearer
  <2>3. Bounded'
    BY <2>2 DEF Bounded, BoundedAt
  <2>4. Steps
    BY <2>1, StepNearer
  <2> QED
    BY <2>1, <2>3, <2>4
<1>3. BInv => Numbers
  BY LeftIsNumber
<1> HIDE DEF BInv, Steps, Numbers
<1>4. Spec => []Numbers /\ [][Steps]_vars
  BY <1>1, <1>2, <1>3, PTL DEF Spec
<1> QED
  BY <1>4 DEF Steps, Numbers
=============================================================================
