---------------------------- MODULE StartupProofs ----------------------------
(***************************************************************************)
(* Proofs about Startup for any number of launch threads and clients.       *)
(*                                                                          *)
(* Both properties are about who is to blame when a window is there or not. *)
(* The invariant traces each event of the queue to its cause: a dialog that *)
(* will open, or a launch that has ended, stands behind every window that   *)
(* is or will be closed, and behind every one that still has to be.         *)
(***************************************************************************)
EXTENDS Startup, SequenceTheorems, TLAPS

Occurs(e, s) == \E i \in 1 .. Len(s) : s[i] = e

Queued(e) == Occurs(e, edt)

\* Before the window is there no launch has begun.
LaunchesLater ==
  main \in {"manifest", "window", "waiting"} =>
    window = "none" /\ \A t \in Threads : pc[t] = "none"

\* An empty manifest has a dialog, open or queued.
EmptyReported ==
  /\ main \in {"window", "waiting", "opened"}
  /\ clientTypes = {}
  => dialog \/ Queued("dialog")

\* An open window that a launch was started from has a launch that runs, will be
\* closed, or is accompanied by a dialog.
WindowAttended ==
  /\ window = "open"
  /\ \E t \in Threads : pc[t] # "none"
  => \/ dialog \/ Queued("dialog") \/ Queued("stop")
     \/ \E t \in Threads : pc[t] \notin {"none", "ended"}

\* A launch that still has stages before it has started no client and not failed.
NotYetOver ==
  \A t \in Threads :
    pc[t] \in {"none", "stage", "set", "work"} => t \notin started \cup failed

\* Who opens a dialog is main, a launch that failed or one that warned of Java, ...
DialogHasCause ==
  dialog \/ Queued("dialog") =>
    complained \/ \E u \in Threads : u \in failed \cup warned

\* ... and who closes a window has opened a dialog, ended or started a client.
StopHasCause ==
  Queued("stop") => complained \/ \E u \in Threads : Closes(u)

\* So has who made a window vanish that a launch has seen, and only a warning of
\* Java can have been its own.
LossHasCause ==
  \A t \in Threads :
    pc[t] = "set" /\ window = "none" =>
      complained \/ t \in warned \/ \E u \in Threads \ {t} : Closes(u)

CauseInv == NotYetOver /\ DialogHasCause /\ StopHasCause /\ LossHasCause

IInv ==
  /\ TypeOK /\ LaunchesLater /\ EmptyReported /\ WindowAttended
  /\ CauseInv

-----------------------------------------------------------------------------
(* Events in a queue.                                                      *)

Events == {"dialog", "init", "stop"}

\* Append adds one event.
LEMMA AppendOccurs ==
  ASSUME NEW s \in Seq(Events), NEW e \in Events
  PROVE  /\ Append(s, e) \in Seq(Events)
         /\ \A x : Occurs(x, Append(s, e)) <=> Occurs(x, s) \/ x = e
<1> DEFINE a == Append(s, e)
<1>1. /\ a \in Seq(Events)
      /\ Len(a) = Len(s) + 1
      /\ \A i \in 1 .. Len(s) : a[i] = s[i]
      /\ a[Len(s) + 1] = e
  BY AppendProperties
<1>2. Len(s) \in Nat
  BY LenProperties
<1> HIDE DEF a
<1>3. ASSUME NEW x, Occurs(x, a) PROVE Occurs(x, s) \/ x = e
  BY <1>1, <1>2, <1>3 DEF Occurs
<1>4. ASSUME NEW x, Occurs(x, s) PROVE Occurs(x, a)
  BY <1>1, <1>2, <1>4 DEF Occurs
<1>5. Occurs(e, a)
  BY <1>1, <1>2 DEF Occurs
<1>6. \A x : Occurs(x, a) <=> Occurs(x, s) \/ x = e
  BY <1>3, <1>4, <1>5
<1> QED
  BY <1>1, <1>6 DEF a

\* Tail takes none away but the first.
LEMMA TailOccurs ==
  ASSUME NEW s \in Seq(Events), s # << >>
  PROVE  /\ Tail(s) \in Seq(Events)
         /\ \A x : Occurs(x, Tail(s)) => Occurs(x, s)
         /\ \A x : Occurs(x, s) /\ x # Head(s) => Occurs(x, Tail(s))
<1> DEFINE r == Tail(s)
<1>1. /\ r \in Seq(Events)
      /\ Len(r) = Len(s) - 1
      /\ \A i \in 1 .. Len(r) : r[i] = s[i + 1]
      /\ Head(s) = s[1]
  BY HeadTailProperties
<1>2. Len(s) \in Nat
  BY LenProperties
<1> HIDE DEF r
<1>3. ASSUME NEW x, Occurs(x, r) PROVE Occurs(x, s)
  <2>1. PICK i \in 1 .. Len(r) : r[i] = x
    BY <1>3 DEF Occurs
  <2>2. i + 1 \in 1 .. Len(s) /\ s[i + 1] = x
    BY <1>1, <1>2, <2>1
  <2> QED
    BY <2>2 DEF Occurs
<1>4. ASSUME NEW x, Occurs(x, s), x # Head(s) PROVE Occurs(x, r)
  <2>1. PICK i \in 1 .. Len(s) : s[i] = x
    BY <1>4 DEF Occurs
  <2>2. i - 1 \in 1 .. Len(r) /\ r[i - 1] = x
    BY <1>1, <1>2, <1>4, <2>1
  <2> QED
    BY <2>2 DEF Occurs
<1>5. \A x : Occurs(x, r) => Occurs(x, s)
  BY <1>3
<1>6. \A x : Occurs(x, s) /\ x # Head(s) => Occurs(x, r)
  BY <1>4
<1> QED
  BY <1>1, <1>5, <1>6 DEF r

\* Concatenation adds the events of the second sequence.
LEMMA ConcatOccurs ==
  ASSUME NEW s \in Seq(Events), NEW r \in Seq(Events)
  PROVE  /\ s \o r \in Seq(Events)
         /\ \A x : Occurs(x, s \o r) <=> Occurs(x, s) \/ Occurs(x, r)
<1> DEFINE c == s \o r
<1>1. /\ c \in Seq(Events)
      /\ Len(c) = Len(s) + Len(r)
      /\ \A i \in 1 .. Len(s) + Len(r) :
           c[i] = IF i <= Len(s) THEN s[i] ELSE r[i - Len(s)]
  BY ConcatProperties
<1>2. Len(s) \in Nat /\ Len(r) \in Nat
  BY LenProperties
<1> HIDE DEF c
<1>3. ASSUME NEW x, Occurs(x, c) PROVE Occurs(x, s) \/ Occurs(x, r)
  <2>1. PICK i \in 1 .. Len(c) : c[i] = x
    BY <1>3 DEF Occurs
  <2>2. CASE i <= Len(s)
    BY <1>1, <1>2, <2>1, <2>2 DEF Occurs
  <2>3. CASE i > Len(s)
    <3>1. i - Len(s) \in 1 .. Len(r) /\ r[i - Len(s)] = x
      BY <1>1, <1>2, <2>1, <2>3
    <3> QED
      BY <3>1 DEF Occurs
  <2> QED
    BY <1>2, <2>1, <2>2, <2>3
<1>4. ASSUME NEW x, Occurs(x, s) PROVE Occurs(x, c)
  BY <1>1, <1>2, <1>4 DEF Occurs
<1>5. ASSUME NEW x, Occurs(x, r) PROVE Occurs(x, c)
  <2>1. PICK i \in 1 .. Len(r) : r[i] = x
    BY <1>5 DEF Occurs
  <2> DEFINE j == i + Len(s)
  <2>2. /\ j \in 1 .. Len(s) + Len(r)
        /\ ~(j <= Len(s))
        /\ j - Len(s) = i
    BY <1>2
  <2> HIDE DEF j
  <2>3. j \in 1 .. Len(c) /\ c[j] = x
    BY <1>1, <2>1, <2>2
  <2> QED
    BY <2>3 DEF Occurs
<1>6. \A x : Occurs(x, c) <=> Occurs(x, s) \/ Occurs(x, r)
  BY <1>3, <1>4, <1>5
<1> QED
  BY <1>1, <1>6 DEF c

\* The queues of one dialog and of none.
LEMMA DialogOccurs ==
  /\ <<"dialog">> \in Seq(Events)
  /\ \A x : Occurs(x, <<"dialog">>) <=> x = "dialog"
  /\ << >> \in Seq(Events)
  /\ \A x : ~Occurs(x, << >>)
<1>1. << >> \in Seq(Events) /\ \A x : ~Occurs(x, << >>)
  BY DEF Occurs
<1>2. <<"dialog">> \in Seq(Events)
  BY DEF Events
<1>3. Len(<<"dialog">>) = 1 /\ <<"dialog">>[1] = "dialog"
  OBVIOUS
<1>4. \A x : Occurs(x, <<"dialog">>) <=> x = "dialog"
  BY <1>3 DEF Occurs
<1> QED
  BY <1>1, <1>2, <1>4

-----------------------------------------------------------------------------
(* What a step does to the queue.                                          *)

\* A queued dialog stays or opens; a queued stop stays or closes the window, and a
\* new one has a cause.  A launch that ends queues one, and an empty manifest a
\* dialog.
QueueKept ==
  /\ edt' \in Seq(Events)
  /\ Queued("dialog") => Queued("dialog")' \/ dialog'
  /\ Queued("stop") => Queued("stop")' \/ window' = "none"
  /\ Queued("stop")' =>
       \/ Queued("stop") \/ dialog'
       \/ \E u \in Threads : u \in started' \/ pc'[u] = "ended"
  /\ \A t \in Threads :
       pc[t] # "ended" /\ pc'[t] = "ended" =>
         Queued("stop")' \/ (main = "opened" /\ clientTypes = {})
  /\ main = "manifest" /\ main' # "manifest" /\ clientTypes' = {} =>
       Queued("dialog")'
  /\ Queued("dialog")' =>
       Queued("dialog") \/ complained' \/ \E u \in Threads : u \in failed'

LEMMA QueueStep == TypeOK /\ [Next]_vars => QueueKept
<1> SUFFICES ASSUME TypeOK, [Next]_vars PROVE QueueKept
  OBVIOUS
<1>a. edt \in Seq(Events)
  BY DEF TypeOK, Events
<1>b. "dialog" \in Events /\ "init" \in Events /\ "stop" \in Events
  BY DEF Events
<1>c. ASSUME NEW e \in Events, Queue(e)
      PROVE  /\ edt' \in Seq(Events)
             /\ \A x : Queued(x)' <=> Queued(x) \/ x = e
  <2>1. edt' = Append(edt, e)
    BY <1>c DEF Queue
  <2>2. /\ Append(edt, e) \in Seq(Events)
        /\ \A x : Occurs(x, Append(edt, e)) <=> Occurs(x, edt) \/ x = e
    BY <1>a, AppendOccurs
  <2> QED
    BY <2>1, <2>2 DEF Queued
<1>d. ASSUME NEW e, Dispatch(e)
      PROVE  /\ edt # << >> /\ Head(edt) = e
             /\ Tail(edt) \in Seq(Events)
             /\ \A x : Occurs(x, Tail(edt)) => Queued(x)
             /\ \A x : Queued(x) /\ x # e => Occurs(x, Tail(edt))
  BY <1>a, <1>d, TailOccurs DEF Dispatch, Queued
<1>e. edt' = edt => edt' \in Seq(Events) /\ \A x : Queued(x)' <=> Queued(x)
  BY <1>a DEF Queued
<1>f. QueueKept <=>
        /\ edt' \in Seq(Events)
        /\ Queued("dialog") => Queued("dialog")' \/ dialog'
        /\ Queued("stop") => Queued("stop")' \/ window' = "none"
        /\ Queued("stop")' =>
             \/ Queued("stop") \/ dialog'
             \/ \E u \in Threads : u \in started' \/ pc'[u] = "ended"
        /\ \A t \in Threads :
             pc[t] # "ended" /\ pc'[t] = "ended" =>
               Queued("stop")' \/ (main = "opened" /\ clientTypes = {})
        /\ main = "manifest" /\ main' # "manifest" /\ clientTypes' = {} =>
             Queued("dialog")'
        /\ Queued("dialog")' =>
             Queued("dialog") \/ complained' \/ \E u \in Threads : u \in failed'
  BY DEF QueueKept
<1>g. pc \in [Threads -> {"none", "post", "stage", "set", "work", "debug",
                         "closing", "ended"}]
  BY DEF TypeOK
<1> USE DEF Goto, options, shared, history
<1>1. CASE RetrieveClientTypes
  <2>1. PICK T \in SUBSET Types, broken \in BOOLEAN :
          /\ clientTypes' = T /\ pc' = pc
          /\ complained' = (complained \/ broken \/ T = {})
          /\ edt' = edt \o (IF broken THEN <<"dialog">> ELSE <<>>)
                        \o (IF T = {} THEN <<"dialog">> ELSE <<>>)
    BY <1>1 DEF RetrieveClientTypes
  <2> DEFINE a == IF broken THEN <<"dialog">> ELSE <<>>
             b == IF T = {} THEN <<"dialog">> ELSE <<>>
  <2>2. /\ a \in Seq(Events) /\ b \in Seq(Events)
        /\ ~Occurs("stop", a) /\ ~Occurs("stop", b)
        /\ T = {} => Occurs("dialog", b)
        /\ Occurs("dialog", a) => broken
        /\ Occurs("dialog", b) => T = {}
    BY DialogOccurs
  <2> HIDE DEF a, b
  <2>3. edt' = (edt \o a) \o b
    BY <2>1 DEF a, b
  <2>4. /\ edt \o a \in Seq(Events)
        /\ \A x : Occurs(x, edt \o a) <=> Occurs(x, edt) \/ Occurs(x, a)
    BY <1>a, <2>2, ConcatOccurs
  <2>5. /\ (edt \o a) \o b \in Seq(Events)
        /\ \A x : Occurs(x, (edt \o a) \o b) <=> Occurs(x, edt \o a) \/ Occurs(x, b)
    BY <2>2, <2>4, ConcatOccurs
  <2>6. /\ edt' \in Seq(Events)
        /\ Queued("dialog") => Queued("dialog")'
        /\ Queued("stop")' <=> Queued("stop")
        /\ T = {} => Queued("dialog")'
        /\ Queued("dialog")' => Queued("dialog") \/ broken \/ T = {}
    BY <2>2, <2>3, <2>4, <2>5 DEF Queued
  <2> QED
    BY <2>1, <2>6, <1>f
<1>2. CASE AskForWindow
  BY <1>2, <1>a, <1>b, <1>c, <1>d, <1>e, <1>f, <1>g DEF AskForWindow
<1>3. CASE FailInMain
  BY <1>3, <1>a, <1>b, <1>c, <1>d, <1>e, <1>f, <1>g DEF FailInMain, Complain
<1>4. CASE StartLaunch
  BY <1>4, <1>a, <1>b, <1>c, <1>d, <1>e, <1>f, <1>g DEF StartLaunch
<1>5. CASE TestInMain
  BY <1>5, <1>a, <1>b, <1>c, <1>d, <1>e, <1>f, <1>g DEF TestInMain
<1>6. CASE ClearInMain
  BY <1>6, <1>a, <1>b, <1>c, <1>d, <1>e, <1>f, <1>g DEF ClearInMain, Complain
<1>7. CASE \E t \in Threads : TestInstance(t)
  BY <1>7, <1>a, <1>b, <1>c, <1>d, <1>e, <1>f, <1>g DEF TestInstance
<1>8. CASE \E t \in Threads : UseInstance(t)
  BY <1>8, <1>a, <1>b, <1>c, <1>d, <1>e, <1>f, <1>g DEF UseInstance
<1>9. CASE \E t \in Threads : MissInstance(t)
  BY <1>9, <1>a, <1>b, <1>c, <1>d, <1>e, <1>f, <1>g DEF MissInstance
<1>10. CASE \E t \in Threads : Close(t)
  BY <1>10, <1>a, <1>b, <1>c, <1>d, <1>e, <1>f, <1>g DEF Close
<1>11. CASE \E t \in Threads : Advance(t)
  BY <1>11, <1>a, <1>b, <1>c, <1>d, <1>e, <1>f, <1>g DEF Advance
<1>12. CASE \E t \in Threads : Fail(t)
  BY <1>12, <1>a, <1>b, <1>c, <1>d, <1>e, <1>f, <1>g DEF Fail
<1>13. CASE \E t \in Threads : WarnAboutJava(t)
  BY <1>13, <1>a, <1>b, <1>c, <1>d, <1>e, <1>f, <1>g DEF WarnAboutJava
<1>14. CASE \E t \in Threads : ExitForUpdate(t)
  BY <1>14, <1>a, <1>b, <1>c, <1>d, <1>e, <1>f, <1>g DEF ExitForUpdate
<1>15. CASE \E t \in Threads : StartClient(t)
  BY <1>15, <1>a, <1>b, <1>c, <1>d, <1>e, <1>f, <1>g DEF StartClient
<1>16. CASE \E t \in Threads : ClientEnds(t)
  BY <1>16, <1>a, <1>b, <1>c, <1>d, <1>e, <1>f, <1>g DEF ClientEnds
<1>17. CASE \E t \in Threads : EndSilently(t)
  BY <1>17, <1>a, <1>b, <1>c, <1>d, <1>e, <1>f, <1>g DEF EndSilently
<1>18. CASE \E t \in Threads : PostInstall(t)
  BY <1>18, <1>a, <1>b, <1>c, <1>d, <1>e, <1>f, <1>g DEF PostInstall
<1>19. CASE OpenDialog
  <2>1. Dispatch("dialog") /\ dialog' /\ pc' = pc /\ main' = main
    BY <1>19 DEF OpenDialog
  <2>2. \/ edt' = Tail(edt)
        \/ edt' = Append(Tail(edt), "stop")
    BY <1>19 DEF OpenDialog
  <2>3. /\ Append(Tail(edt), "stop") \in Seq(Events)
        /\ \A x : Occurs(x, Append(Tail(edt), "stop")) <=>
                    Occurs(x, Tail(edt)) \/ x = "stop"
    BY <1>b, <1>d, <2>1, AppendOccurs
  <2>4. /\ Tail(edt) \in Seq(Events)
        /\ Queued("stop") => Occurs("stop", Tail(edt))
        /\ Occurs("dialog", Tail(edt)) => Queued("dialog")
    BY <1>d, <2>1
  <2>5. CASE edt' = Tail(edt)
    BY <1>f, <2>1, <2>4, <2>5 DEF Queued
  <2>6. CASE edt' = Append(Tail(edt), "stop")
    <3>1. Queued("dialog")' => Occurs("dialog", Tail(edt))
      BY <2>3, <2>6 DEF Queued
    <3>2. edt' \in Seq(Events) /\ Queued("stop")'
      BY <2>3, <2>6 DEF Queued
    <3> QED
      BY <1>f, <2>1, <2>4, <3>1, <3>2
  <2> QED
    BY <2>2, <2>5, <2>6
<1>20. CASE OpenWindow
  <2>1. Dispatch("init") /\ edt' = Tail(edt)
    BY <1>20 DEF OpenWindow
  <2>2. /\ edt' \in Seq(Events)
        /\ \A x : Queued(x)' => Queued(x)
        /\ \A x : Queued(x) /\ x # "init" => Queued(x)'
    BY <1>d, <2>1 DEF Queued
  <2> QED
    BY <1>20, <1>f, <2>2 DEF OpenWindow
<1>21. CASE StopWindow
  <2>1. Dispatch("stop") /\ edt' = Tail(edt)
    BY <1>21 DEF StopWindow
  <2>2. /\ edt' \in Seq(Events)
        /\ \A x : Queued(x)' => Queued(x)
        /\ \A x : Queued(x) /\ x # "stop" => Queued(x)'
    BY <1>d, <2>1 DEF Queued
  <2> QED
    BY <1>21, <1>f, <2>2 DEF StopWindow
<1>22. CASE Click
  BY <1>22, <1>a, <1>b, <1>c, <1>d, <1>e, <1>f, <1>g DEF Click
<1>23. CASE DisposeWindow
  BY <1>23, <1>a, <1>b, <1>c, <1>d, <1>e, <1>f, <1>g DEF DisposeWindow
<1>24. CASE Exit
  BY <1>24, <1>a, <1>b, <1>c, <1>d, <1>e, <1>f, <1>g DEF Exit
<1>25. CASE JvmEnds
  BY <1>25, <1>a, <1>b, <1>c, <1>d, <1>e, <1>f, <1>g DEF JvmEnds
<1>26. CASE UNCHANGED vars
  BY <1>26, <1>a, <1>b, <1>c, <1>d, <1>e, <1>f, <1>g DEF vars
<1> QED
  BY <1>1, <1>2, <1>3, <1>4, <1>5, <1>6, <1>7, <1>8, <1>9, <1>10, <1>11,
     <1>12, <1>13, <1>14, <1>15, <1>16, <1>17, <1>18, <1>19, <1>20, <1>21,
     <1>22, <1>23, <1>24, <1>25, <1>26
  DEF Next, Main, Proceed, Work, EventDispatch, User

-----------------------------------------------------------------------------
LEMMA TypeInit == Init => TypeOK
<1>1. 1 \in DOMAIN Phases
  BY DEF Phases
<1> QED
  BY <1>1, DialogOccurs DEF Init, TypeOK, Events

LEMMA TypeStep == TypeOK /\ [Next]_vars => TypeOK'
<1> SUFFICES ASSUME TypeOK, [Next]_vars PROVE TypeOK'
  OBVIOUS
<1>a. edt' \in Seq({"dialog", "init", "stop"})
  BY QueueStep DEF QueueKept, Events
<1>b. Len(Phases) = 4 /\ DOMAIN Phases = 1 .. 4
  BY DEF Phases
<1> USE <1>a, <1>b DEF TypeOK, Goto, options, shared, history
<1>1. CASE RetrieveClientTypes
  BY <1>1 DEF RetrieveClientTypes
<1>2. CASE AskForWindow
  BY <1>2 DEF AskForWindow
<1>3. CASE FailInMain
  BY <1>3 DEF FailInMain, Complain
<1>4. CASE StartLaunch
  BY <1>4 DEF StartLaunch
<1>5. CASE TestInMain
  BY <1>5 DEF TestInMain
<1>6. CASE ClearInMain
  BY <1>6 DEF ClearInMain, Complain
<1>7. CASE \E t \in Threads : TestInstance(t)
  BY <1>7 DEF TestInstance
<1>8. CASE \E t \in Threads : UseInstance(t)
  BY <1>8 DEF UseInstance
<1>9. CASE \E t \in Threads : MissInstance(t)
  BY <1>9 DEF MissInstance
<1>10. CASE \E t \in Threads : Close(t)
  BY <1>10 DEF Close
<1>11. CASE \E t \in Threads : Advance(t)
  BY <1>11 DEF Advance
<1>12. CASE \E t \in Threads : Fail(t)
  BY <1>12 DEF Fail
<1>13. CASE \E t \in Threads : WarnAboutJava(t)
  <2>1. PICK t \in Threads : WarnAboutJava(t)
    BY <1>13
  <2>2. phase[t] \in 1 .. 3
    BY <2>1 DEF WarnAboutJava, Doing, Phases
  <2>3. phase[t] + 1 \in DOMAIN Phases
    BY <2>2
  <2> QED
    BY <2>1, <2>3 DEF WarnAboutJava
<1>14. CASE \E t \in Threads : ExitForUpdate(t)
  BY <1>14 DEF ExitForUpdate
<1>15. CASE \E t \in Threads : StartClient(t)
  BY <1>15 DEF StartClient
<1>16. CASE \E t \in Threads : ClientEnds(t)
  BY <1>16 DEF ClientEnds
<1>17. CASE \E t \in Threads : EndSilently(t)
  BY <1>17 DEF EndSilently
<1>18. CASE \E t \in Threads : PostInstall(t)
  BY <1>18 DEF PostInstall
<1>19. CASE OpenDialog
  BY <1>19 DEF OpenDialog
<1>20. CASE OpenWindow
  BY <1>20 DEF OpenWindow
<1>21. CASE StopWindow
  BY <1>21 DEF StopWindow
<1>22. CASE Click
  BY <1>22 DEF Click
<1>23. CASE DisposeWindow
  BY <1>23 DEF DisposeWindow
<1>24. CASE Exit
  BY <1>24 DEF Exit
<1>25. CASE JvmEnds
  BY <1>25 DEF JvmEnds
<1>26. CASE UNCHANGED vars
  BY <1>26 DEF vars
<1> QED
  BY <1>1, <1>2, <1>3, <1>4, <1>5, <1>6, <1>7, <1>8, <1>9, <1>10, <1>11,
     <1>12, <1>13, <1>14, <1>15, <1>16, <1>17, <1>18, <1>19, <1>20, <1>21,
     <1>22, <1>23, <1>24, <1>25, <1>26
  DEF Next, Main, Proceed, Work, EventDispatch, User

\* The variables of Startup keep to their types, for any number of launches.
THEOREM TypeCorrect == Spec => []TypeOK
<1> QED
  BY TypeInit, TypeStep, PTL DEF Spec

-----------------------------------------------------------------------------
(* Why a window that is open will be closed, or is accompanied.            *)

LEMMA AttendedStep ==
  /\ TypeOK /\ LaunchesLater /\ EmptyReported /\ WindowAttended
  /\ [Next]_vars
  => (LaunchesLater /\ EmptyReported /\ WindowAttended)'
<1> SUFFICES ASSUME TypeOK, LaunchesLater, EmptyReported, WindowAttended, [Next]_vars
             PROVE  (LaunchesLater /\ EmptyReported /\ WindowAttended)'
  OBVIOUS
<1>a. QueueKept
  BY QueueStep
<1>b. pc \in [Threads -> {"none", "post", "stage", "set", "work", "debug",
                         "closing", "ended"}]
  BY DEF TypeOK
<1>c. dialog \in BOOLEAN
  BY DEF TypeOK
<1> USE <1>a, <1>b, <1>c
    DEF QueueKept, LaunchesLater, EmptyReported, WindowAttended, Goto, options,
        shared, history
<1>1. CASE RetrieveClientTypes
  BY <1>1 DEF RetrieveClientTypes
<1>2. CASE AskForWindow
  BY <1>2 DEF AskForWindow
<1>3. CASE FailInMain
  BY <1>3 DEF FailInMain, Complain
<1>4. CASE StartLaunch
  BY <1>4 DEF StartLaunch
<1>5. CASE TestInMain
  BY <1>5 DEF TestInMain
<1>6. CASE ClearInMain
  BY <1>6 DEF ClearInMain, Complain
<1>7. CASE \E t \in Threads : TestInstance(t)
  BY <1>7 DEF TestInstance
<1>8. CASE \E t \in Threads : UseInstance(t)
  BY <1>8 DEF UseInstance
<1>9. CASE \E t \in Threads : MissInstance(t)
  BY <1>9 DEF MissInstance
<1>10. CASE \E t \in Threads : Close(t)
  BY <1>10 DEF Close
<1>11. CASE \E t \in Threads : Advance(t)
  BY <1>11 DEF Advance
<1>12. CASE \E t \in Threads : Fail(t)
  BY <1>12 DEF Fail
<1>13. CASE \E t \in Threads : WarnAboutJava(t)
  BY <1>13 DEF WarnAboutJava
<1>14. CASE \E t \in Threads : ExitForUpdate(t)
  BY <1>14 DEF ExitForUpdate
<1>15. CASE \E t \in Threads : StartClient(t)
  BY <1>15 DEF StartClient
<1>16. CASE \E t \in Threads : ClientEnds(t)
  BY <1>16 DEF ClientEnds
<1>17. CASE \E t \in Threads : EndSilently(t)
  BY <1>17 DEF EndSilently
<1>18. CASE \E t \in Threads : PostInstall(t)
  BY <1>18 DEF PostInstall
<1>19. CASE OpenDialog
  BY <1>19 DEF OpenDialog
<1>20. CASE OpenWindow
  BY <1>20 DEF OpenWindow
<1>21. CASE StopWindow
  BY <1>21 DEF StopWindow
<1>22. CASE Click
  <2>1. PICK t \in Threads :
          /\ pc[t] = "none"
          /\ pc' = [pc EXCEPT ![t] = IF postInstall THEN "post" ELSE "stage"]
    BY <1>22 DEF Click
  <2>2. pc'[t] \in {"post", "stage"} /\ \A u \in Threads \ {t} : pc'[u] = pc[u]
    BY <2>1
  <2>3. window = "open" /\ UNCHANGED <<alive, options, shared, main, phase, history>>
    BY <1>22 DEF Click
  <2> QED
    BY <2>1, <2>2, <2>3
<1>23. CASE DisposeWindow
  BY <1>23 DEF DisposeWindow
<1>24. CASE Exit
  BY <1>24 DEF Exit
<1>25. CASE JvmEnds
  BY <1>25 DEF JvmEnds
<1>26. CASE UNCHANGED vars
  BY <1>26 DEF vars
<1> QED
  BY <1>1, <1>2, <1>3, <1>4, <1>5, <1>6, <1>7, <1>8, <1>9, <1>10, <1>11,
     <1>12, <1>13, <1>14, <1>15, <1>16, <1>17, <1>18, <1>19, <1>20, <1>21,
     <1>22, <1>23, <1>24, <1>25, <1>26
  DEF Next, Main, Proceed, Work, EventDispatch, User

\* A window that launches were started from never stays behind without a dialog, for
\* any number of launches and of clients.
THEOREM NoWindowStays == Spec => []NoOrphanWindow
<1> DEFINE I == TypeOK /\ LaunchesLater /\ EmptyReported /\ WindowAttended
<1>1. Init => I
  BY TypeInit DEF Init, LaunchesLater, EmptyReported, WindowAttended
<1>2. I /\ [Next]_vars => I'
  BY TypeStep, AttendedStep
<1>3. I => NoOrphanWindow
  <2> SUFFICES ASSUME I, edt = << >>
               PROVE  NoOrphanWindow
    BY DEF NoOrphanWindow
  <2>1. ~Queued("dialog") /\ ~Queued("stop")
    BY DialogOccurs DEF Queued
  <2> QED
    BY <2>1 DEF NoOrphanWindow, WindowAttended
<1> QED
  BY <1>1, <1>2, <1>3, PTL DEF Spec

-----------------------------------------------------------------------------
(* Who makes a window vanish.                                              *)

LEMMA CauseStep == TypeOK /\ CauseInv /\ [Next]_vars => CauseInv'
<1> SUFFICES ASSUME TypeOK, CauseInv, [Next]_vars
             PROVE  CauseInv'
  OBVIOUS
<1>a. QueueKept
  BY QueueStep
<1>b. pc \in [Threads -> {"none", "post", "stage", "set", "work", "debug",
                         "closing", "ended"}]
  BY DEF TypeOK
<1>c. dialog \in BOOLEAN
  BY DEF TypeOK
<1>d. ASSUME NEW e, Dispatch(e) PROVE Queued(e)
  <2>1. edt \in Seq(Events)
    BY DEF TypeOK, Events
  <2>2. Len(edt) \in Nat /\ Len(edt) # 0 /\ edt[1] = e
    BY <1>d, <2>1, HeadTailProperties, EmptySeq, LenProperties DEF Dispatch
  <2> QED
    BY <2>2 DEF Queued, Occurs
<1> USE <1>a, <1>b, <1>c
    DEF QueueKept, CauseInv, NotYetOver, DialogHasCause, StopHasCause, LossHasCause,
        Closes, Goto, options, shared, history
<1>1. CASE RetrieveClientTypes
  BY <1>1 DEF RetrieveClientTypes
<1>2. CASE AskForWindow
  BY <1>2 DEF AskForWindow
<1>3. CASE FailInMain
  BY <1>3 DEF FailInMain, Complain
<1>4. CASE StartLaunch
  BY <1>4 DEF StartLaunch
<1>5. CASE TestInMain
  BY <1>5 DEF TestInMain
<1>6. CASE ClearInMain
  BY <1>6 DEF ClearInMain, Complain
<1>7. CASE \E t \in Threads : TestInstance(t)
  BY <1>7 DEF TestInstance
<1>8. CASE \E t \in Threads : UseInstance(t)
  BY <1>8 DEF UseInstance
<1>9. CASE \E t \in Threads : MissInstance(t)
  BY <1>9 DEF MissInstance
<1>10. CASE \E t \in Threads : Close(t)
  BY <1>10 DEF Close
<1>11. CASE \E t \in Threads : Advance(t)
  BY <1>11 DEF Advance
<1>12. CASE \E t \in Threads : Fail(t)
  BY <1>12 DEF Fail
<1>13. CASE \E t \in Threads : WarnAboutJava(t)
  BY <1>13 DEF WarnAboutJava
<1>14. CASE \E t \in Threads : ExitForUpdate(t)
  BY <1>14 DEF ExitForUpdate
<1>15. CASE \E t \in Threads : StartClient(t)
  BY <1>15 DEF StartClient
<1>16. CASE \E t \in Threads : ClientEnds(t)
  BY <1>16 DEF ClientEnds
<1>17. CASE \E t \in Threads : EndSilently(t)
  BY <1>17 DEF EndSilently
<1>18. CASE \E t \in Threads : PostInstall(t)
  BY <1>18 DEF PostInstall
<1>19. CASE OpenDialog
  BY <1>19, <1>d DEF OpenDialog
<1>20. CASE OpenWindow
  BY <1>20 DEF OpenWindow
<1>21. CASE StopWindow
  BY <1>21, <1>d DEF StopWindow
<1>22. CASE Click
  <2>1. PICK t \in Threads :
          /\ pc[t] = "none"
          /\ pc' = [pc EXCEPT ![t] = IF postInstall THEN "post" ELSE "stage"]
    BY <1>22 DEF Click
  <2>2. pc'[t] \in {"post", "stage"} /\ \A u \in Threads \ {t} : pc'[u] = pc[u]
    BY <2>1
  <2>3. window = "open" /\ UNCHANGED <<alive, options, shared, main, phase, history>>
    BY <1>22 DEF Click
  <2> QED
    BY <2>1, <2>2, <2>3
<1>23. CASE DisposeWindow
  BY <1>23 DEF DisposeWindow
<1>24. CASE Exit
  BY <1>24 DEF Exit
<1>25. CASE JvmEnds
  BY <1>25 DEF JvmEnds
<1>26. CASE UNCHANGED vars
  BY <1>26 DEF vars
<1> QED
  BY <1>1, <1>2, <1>3, <1>4, <1>5, <1>6, <1>7, <1>8, <1>9, <1>10, <1>11,
     <1>12, <1>13, <1>14, <1>15, <1>16, <1>17, <1>18, <1>19, <1>20, <1>21,
     <1>22, <1>23, <1>24, <1>25, <1>26
  DEF Next, Main, Proceed, Work, EventDispatch, User

\* The window of a launch vanishes under its feet only because another launch has
\* ended, failed, started its client or opened a dialog, because main has asked for
\* one, or because the launch itself has warned about Java.
THEOREM LossesHaveReasons == Spec => LostForAReason
<1> DEFINE I == TypeOK /\ CauseInv
<1>1. Init => I
  <2>1. Init => ~Queued("stop") /\ ~Queued("dialog")
    BY DialogOccurs DEF Init, Queued
  <2> QED
    BY <2>1, TypeInit
       DEF Init, CauseInv, NotYetOver, DialogHasCause, StopHasCause, LossHasCause
<1>2. I /\ [Next]_vars => I'
  BY TypeStep, CauseStep
<1>3. I /\ [Next]_vars =>
        [\A t \in lost' \ lost :
           complained \/ t \in warned \/ \E u \in Threads \ {t} : Closes(u)]_vars
  <2> SUFFICES ASSUME I, Next, NEW t \in lost' \ lost
               PROVE  \/ complained \/ t \in warned
                      \/ \E u \in Threads \ {t} : Closes(u)
    BY DEF vars, history
  <2>1. PICK u \in Threads : MissInstance(u)
    BY DEF Next, Main, Proceed, Work, EventDispatch, User, history,
       RetrieveClientTypes, AskForWindow, FailInMain, StartLaunch, TestInMain,
       ClearInMain, TestInstance, UseInstance, Close, Advance, Fail,
       WarnAboutJava, ExitForUpdate, StartClient, ClientEnds, EndSilently,
       PostInstall, OpenDialog, OpenWindow, StopWindow, Click, DisposeWindow,
       Exit, JvmEnds
  <2>2. t = u
    BY <2>1 DEF MissInstance
  <2> QED
    BY <2>1, <2>2 DEF MissInstance, CauseInv, LossHasCause
<1> QED
  BY <1>1, <1>2, <1>3, PTL DEF Spec, LostForAReason
=============================================================================
