-------------------------- MODULE PackrConfigProofs --------------------------
(***************************************************************************)
(* Proofs about PackrConfig for any number of launchers and bootstraps.     *)
(*                                                                          *)
(* The file can be unreadable only while a launcher copies it.  What makes  *)
(* this inductive is that of the launchers that copy without having been    *)
(* disturbed there is one, and that it owns what lies there (OneCopies).    *)
(***************************************************************************)
EXTENDS PackrConfig, TLAPS

FromSomeone == {Shipped} \cup {FromBootstrap(b) : b \in Bootstraps}

\* What the file holds, and what is about to be moved there, is of one bootstrap.
HeldTogether ==
  /\ config \in FromSomeone
  /\ \A p \in Procs :
       pc[p] \in {"move"} \cup Copying => read[p] = FromBootstrap(offer[p])

\* A launcher that copies undisturbed is the only one, finds the file as it left
\* it, or whole again after an installation, and owns what it has created.
OneCopies ==
  /\ sameVolume => \A p \in Procs : pc[p] \notin Copying
  /\ ~disturbed =>
       \A p \in Procs : pc[p] \in Copying =>
         /\ \A q \in Procs \ {p} : pc[q] \notin Copying
         /\ pc[p] = "create" => file \in {"missing", "whole"}
         /\ pc[p] = "fill" => owner = p \/ Whole

\* A launcher that updates alone is in fair weather, and nothing is in its way.
Undisturbed ==
  \A p \in Procs : clear[p] =>
    /\ weather = "fair" /\ writable
    /\ pc[p] \in Updating \cup {"done"}
    /\ \A q \in Procs \ {p} : pc[q] \notin Updating
    /\ pc[p] \in {"open", "parsed", "move", "done"} => Whole
    /\ pc[p] = "create" => file = "missing"
    /\ pc[p] = "fill" => owner = p

FileInv == TypeOK /\ HeldTogether /\ OneCopies /\ Startable
FairInv == TypeOK /\ HeldTogether /\ Undisturbed /\ FairUpdateApplies

-----------------------------------------------------------------------------
LEMMA ShippedType == Shipped \in Settings
  BY DEF Settings, Shipped

LEMMA BootstrapType == \A b \in Bootstraps : FromBootstrap(b) \in Settings
  BY DEF Settings, FromBootstrap

LEMMA TypeInit == Init => TypeOK
  BY ShippedType DEF Init, TypeOK, Updating, Copying

LEMMA TypeStep == TypeOK /\ [Next]_vars => TypeOK'
<1> SUFFICES ASSUME TypeOK, [Next]_vars PROVE TypeOK'
  OBVIOUS
<1> USE ShippedType, BootstrapType
    DEF TypeOK, Updating, Copying, Goto, platform, disk, Whole
<1>1. CASE \E p \in Procs : Start(p)
  BY <1>1 DEF Start
<1>2. CASE \E p \in Procs : Refuse(p)
  BY <1>2 DEF Refuse
<1>3. CASE \E p \in Procs : Install(p)
  BY <1>3 DEF Install
<1>4. CASE \E p \in Procs : Update(p)
  BY <1>4 DEF Update
<1>5. CASE \E p \in Procs : Parse(p)
  BY <1>5 DEF Parse
<1>6. CASE \E p \in Procs : PutSettings(p)
  <2>1. PICK p \in Procs : PutSettings(p)
    BY <1>6
  <2>2. offer[p] \in Bootstraps
    BY <2>1 DEF PutSettings
  <2> QED
    BY <2>1, <2>2 DEF PutSettings
<1>7. CASE \E p \in Procs : Move(p)
  BY <1>7 DEF Move
<1>8. CASE \E p \in Procs : MoveFallback(p)
  BY <1>8 DEF MoveFallback
<1>9. CASE \E p \in Procs : CopyCreate(p)
  BY <1>9 DEF CopyCreate
<1>10. CASE \E p \in Procs : CopyPart(p)
  BY <1>10 DEF CopyPart
<1>11. CASE \E p \in Procs : CopyRest(p)
  BY <1>11 DEF CopyRest
<1>12. CASE \E p \in Procs : Fail(p)
  BY <1>12 DEF Fail
<1>13. CASE \E p \in Procs : End(p)
  BY <1>13 DEF End
<1>14. CASE \E p \in Procs : Crash(p)
  BY <1>14 DEF Crash
<1>15. CASE Settle
  BY <1>15 DEF Settle
<1>16. CASE UNCHANGED vars
  BY <1>16 DEF vars
<1> QED
  BY <1>1, <1>2, <1>3, <1>4, <1>5, <1>6, <1>7, <1>8, <1>9, <1>10, <1>11,
     <1>12, <1>13, <1>14, <1>15, <1>16
  DEF Next

\* The variables of PackrConfig keep to their types.
THEOREM TypeCorrect == Spec => []TypeOK
<1> QED
  BY TypeInit, TypeStep, PTL DEF Spec

-----------------------------------------------------------------------------
LEMMA HeldStep == TypeOK /\ HeldTogether /\ [Next]_vars => HeldTogether'
<1> SUFFICES ASSUME TypeOK, HeldTogether, [Next]_vars PROVE HeldTogether'
  OBVIOUS
<1> USE DEF TypeOK, HeldTogether, FromSomeone, Updating, Copying, Goto, platform,
        disk, Whole
<1>1. CASE \E p \in Procs : Start(p)
  BY <1>1 DEF Start
<1>2. CASE \E p \in Procs : Refuse(p)
  BY <1>2 DEF Refuse
<1>3. CASE \E p \in Procs : Install(p)
  BY <1>3 DEF Install
<1>4. CASE \E p \in Procs : Update(p)
  BY <1>4 DEF Update
<1>5. CASE \E p \in Procs : Parse(p)
  BY <1>5 DEF Parse
<1>6. CASE \E p \in Procs : PutSettings(p)
  BY <1>6 DEF PutSettings
<1>7. CASE \E p \in Procs : Move(p)
  BY <1>7 DEF Move
<1>8. CASE \E p \in Procs : MoveFallback(p)
  BY <1>8 DEF MoveFallback
<1>9. CASE \E p \in Procs : CopyCreate(p)
  BY <1>9 DEF CopyCreate
<1>10. CASE \E p \in Procs : CopyPart(p)
  BY <1>10 DEF CopyPart
<1>11. CASE \E p \in Procs : CopyRest(p)
  BY <1>11 DEF CopyRest
<1>12. CASE \E p \in Procs : Fail(p)
  BY <1>12 DEF Fail
<1>13. CASE \E p \in Procs : End(p)
  BY <1>13 DEF End
<1>14. CASE \E p \in Procs : Crash(p)
  BY <1>14 DEF Crash
<1>15. CASE Settle
  BY <1>15 DEF Settle
<1>16. CASE UNCHANGED vars
  BY <1>16 DEF vars
<1> QED
  BY <1>1, <1>2, <1>3, <1>4, <1>5, <1>6, <1>7, <1>8, <1>9, <1>10, <1>11,
     <1>12, <1>13, <1>14, <1>15, <1>16
  DEF Next

LEMMA CopyStep ==
  TypeOK /\ OneCopies /\ Startable /\ [Next]_vars => OneCopies' /\ Startable'
<1> SUFFICES ASSUME TypeOK, OneCopies, Startable, [Next]_vars
             PROVE  OneCopies' /\ Startable'
  OBVIOUS
<1> USE DEF TypeOK, OneCopies, Startable, Updating, Copying, Goto, platform, disk,
        Whole
<1>1. CASE \E p \in Procs : Start(p)
  BY <1>1 DEF Start
<1>2. CASE \E p \in Procs : Refuse(p)
  BY <1>2 DEF Refuse
<1>3. CASE \E p \in Procs : Install(p)
  BY <1>3 DEF Install
<1>4. CASE \E p \in Procs : Update(p)
  BY <1>4 DEF Update
<1>5. CASE \E p \in Procs : Parse(p)
  BY <1>5 DEF Parse
<1>6. CASE \E p \in Procs : PutSettings(p)
  BY <1>6 DEF PutSettings
<1>7. CASE \E p \in Procs : Move(p)
  BY <1>7 DEF Move
<1>8. CASE \E p \in Procs : MoveFallback(p)
  <2>1. PICK p \in Procs : MoveFallback(p)
    BY <1>8
  <2>2. disturbed => disturbed'
    BY <2>1 DEF MoveFallback
  <2>3. CASE disturbed'
    BY <2>1, <2>3 DEF MoveFallback
  <2>4. CASE ~disturbed'
    BY <2>1, <2>2, <2>4 DEF MoveFallback
  <2> QED
    BY <2>3, <2>4
<1>9. CASE \E p \in Procs : CopyCreate(p)
  BY <1>9 DEF CopyCreate
<1>10. CASE \E p \in Procs : CopyPart(p)
  BY <1>10 DEF CopyPart
<1>11. CASE \E p \in Procs : CopyRest(p)
  BY <1>11 DEF CopyRest
<1>12. CASE \E p \in Procs : Fail(p)
  <2>1. PICK p \in Procs : Fail(p)
    BY <1>12
  <2>2. disturbed => disturbed'
    BY <2>1 DEF Fail
  <2>3. CASE disturbed'
    BY <2>1, <2>3 DEF Fail
  <2>4. CASE ~disturbed'
    BY <2>1, <2>2, <2>4 DEF Fail
  <2> QED
    BY <2>3, <2>4
<1>13. CASE \E p \in Procs : End(p)
  BY <1>13 DEF End
<1>14. CASE \E p \in Procs : Crash(p)
  <2>1. PICK p \in Procs : Crash(p)
    BY <1>14
  <2>2. disturbed => disturbed'
    BY <2>1 DEF Crash
  <2>3. CASE disturbed'
    BY <2>1, <2>3 DEF Crash
  <2>4. CASE ~disturbed'
    BY <2>1, <2>2, <2>4 DEF Crash
  <2> QED
    BY <2>3, <2>4
<1>15. CASE Settle
  BY <1>15 DEF Settle
<1>16. CASE UNCHANGED vars
  BY <1>16 DEF vars
<1> QED
  BY <1>1, <1>2, <1>3, <1>4, <1>5, <1>6, <1>7, <1>8, <1>9, <1>10, <1>11,
     <1>12, <1>13, <1>14, <1>15, <1>16
  DEF Next

LEMMA FileInit == Init => FileInv /\ FairInv
  BY TypeInit
  DEF Init, FileInv, FairInv, HeldTogether, FromSomeone, OneCopies, Startable,
      Undisturbed, FairUpdateApplies, Updating, Copying, Whole

\* packr can parse config.json whenever no copy is under way or was cut short or
\* disturbed, and always if the move is atomic, for any number of launchers that
\* may be killed anywhere.
THEOREM AlwaysStartable == Spec => []Startable
<1>1. Init => FileInv
  BY FileInit
<1>2. FileInv /\ [Next]_vars => FileInv'
  BY TypeStep, HeldStep, CopyStep DEF FileInv
<1>3. FileInv => Startable
  BY DEF FileInv
<1> QED
  BY <1>1, <1>2, <1>3, PTL DEF Spec

\* The file never mixes the settings of two bootstraps.
THEOREM NeverMixed == Spec => []OneBootstrap
<1>1. Init => FileInv
  BY FileInit
<1>2. FileInv /\ [Next]_vars => FileInv'
  BY TypeStep, HeldStep, CopyStep DEF FileInv
<1>3. FileInv => OneBootstrap
  BY DEF FileInv, HeldTogether, FromSomeone, OneBootstrap
<1> QED
  BY <1>1, <1>2, <1>3, PTL DEF Spec

-----------------------------------------------------------------------------
LEMMA FairStep == FairInv /\ [Next]_vars => (Undisturbed /\ FairUpdateApplies)'
<1> SUFFICES ASSUME FairInv, [Next]_vars
             PROVE  (Undisturbed /\ FairUpdateApplies)'
  OBVIOUS
<1> USE BootstrapAssumption
    DEF FairInv, TypeOK, HeldTogether, Undisturbed, FairUpdateApplies, Updating,
        Copying, Goto, platform, disk, Whole
<1>1. CASE \E p \in Procs : Start(p)
  BY <1>1 DEF Start
<1>2. CASE \E p \in Procs : Refuse(p)
  BY <1>2 DEF Refuse
<1>3. CASE \E p \in Procs : Install(p)
  BY <1>3 DEF Install
<1>4. CASE \E p \in Procs : Update(p)
  BY <1>4 DEF Update
<1>5. CASE \E p \in Procs : Parse(p)
  BY <1>5 DEF Parse
<1>6. CASE \E p \in Procs : PutSettings(p)
  BY <1>6 DEF PutSettings
<1>7. CASE \E p \in Procs : Move(p)
  BY <1>7 DEF Move
<1>8. CASE \E p \in Procs : MoveFallback(p)
  BY <1>8 DEF MoveFallback
<1>9. CASE \E p \in Procs : CopyCreate(p)
  BY <1>9 DEF CopyCreate
<1>10. CASE \E p \in Procs : CopyPart(p)
  BY <1>10 DEF CopyPart
<1>11. CASE \E p \in Procs : CopyRest(p)
  BY <1>11 DEF CopyRest
<1>12. CASE \E p \in Procs : Fail(p)
  BY <1>12 DEF Fail
<1>13. CASE \E p \in Procs : End(p)
  BY <1>13 DEF End
<1>14. CASE \E p \in Procs : Crash(p)
  BY <1>14 DEF Crash
<1>15. CASE Settle
  BY <1>15 DEF Settle
<1>16. CASE UNCHANGED vars
  BY <1>16 DEF vars
<1> QED
  BY <1>1, <1>2, <1>3, <1>4, <1>5, <1>6, <1>7, <1>8, <1>9, <1>10, <1>11,
     <1>12, <1>13, <1>14, <1>15, <1>16
  DEF Next

\* A launcher that updates alone in fair weather leaves the settings of its own
\* bootstrap behind, whatever others did before.
THEOREM OneFairUpdateSuffices == Spec => []FairUpdateApplies
<1>1. Init => FairInv
  BY FileInit
<1>2. FairInv /\ [Next]_vars => FairInv'
  BY TypeStep, HeldStep, FairStep DEF FairInv
<1>3. FairInv => FairUpdateApplies
  BY DEF FairInv
<1> QED
  BY <1>1, <1>2, <1>3, PTL DEF Spec
=============================================================================
