------------------------------- MODULE Startup -------------------------------
(***************************************************************************)
(* The threads of one launcher process and the windows they share: main()   *)
(* and launch(), the splash screen or the window in which the user picks a  *)
(* client, and the fatal error dialog.                                      *)
(*                                                                          *)
(* main reads the manifest of clients, opens a window and leaves.  With one *)
(* client it starts a launch thread itself, with several each click starts  *)
(* one.  Windows belong to the event dispatch thread (EDT): what others want *)
(* of it waits in the queue edt.  But stage() reads the static INSTANCE of  *)
(* the window directly, tests it and then uses it, while the EDT may set it *)
(* to null.  What a launch does between two stages is left to the modules   *)
(* SelfUpdate, JavaInstaller and Repository; here it goes well or fails.    *)
(***************************************************************************)
EXTENDS Naturals, Sequences, FiniteSets

CONSTANTS
  Threads,   \* launch threads the process may start
  Types      \* clients the manifest may list

ASSUME TypesAssumption == IsFiniteSet(Types)

VARIABLES
  alive,        \* the process runs
  postInstall,  \* --postinstall
  oldJava,      \* the launcher runs on a Java older than 11
  clientTypes,
  displayMultipleOptions,
  edt,          \* events not yet dispatched
  window,       \* the window INSTANCE refers to; "none" if it is null
  dialog,       \* the fatal error dialog is open: alreadyOpen
  main,         \* where main() is
  pc,           \* pc[t]: where launch thread t is
  phase,        \* phase[t]: the part of launch() that it is in
  failed,       \* history: launches that ended in an exception
  lost,         \* history: launches whose window vanished in stage()
  started,      \* history: launches that started a client
  warned,       \* history: launches that opened the dialog themselves
  complained    \* history: main has asked for a dialog

options == <<postInstall, oldJava, clientTypes, displayMultipleOptions>>
shared == <<edt, window, dialog>>
history == <<failed, lost, started, warned, complained>>
vars == <<alive, options, shared, main, pc, phase, history>>

\* The parts of launch(), each with a stage() before it: the bootstrap and the
\* launcher's own update; its settings and, if need be, a Java runtime; the files
\* of the client; the start of the client.
Phases == <<"update", "java", "repository", "start">>

Doing(t) == Phases[phase[t]]

-----------------------------------------------------------------------------
Goto(t, x) == pc' = [pc EXCEPT ![t] = x]

Queue(e) == edt' = Append(edt, e)

Init ==
  /\ alive = TRUE
  /\ postInstall \in BOOLEAN
  /\ oldJava \in BOOLEAN
  /\ clientTypes = {}
  /\ displayMultipleOptions = FALSE
  /\ edt = <<>>
  /\ window = "none"
  /\ dialog = FALSE
  /\ main = "manifest"
  /\ pc = [t \in Threads |-> "none"]
  /\ phase = [t \in Threads |-> 1]
  /\ failed = {}
  /\ lost = {}
  /\ started = {}
  /\ warned = {}
  /\ complained = FALSE

-----------------------------------------------------------------------------
(* The main thread.                                                        *)

\* The manifest is read.  It may fail as a whole, or at an entry after some
\* have been taken; an empty one gets a dialog, in this case a second.
RetrieveClientTypes ==
  /\ main = "manifest"
  /\ \E T \in SUBSET Types, broken \in BOOLEAN :
       /\ clientTypes' = T
       /\ edt' = edt \o (IF broken THEN <<"dialog">> ELSE <<>>)
                     \o (IF T = {} THEN <<"dialog">> ELSE <<>>)
       /\ complained' = (complained \/ broken \/ T = {})
       /\ displayMultipleOptions' = (T # {} /\ Cardinality(T) # 1)
  /\ main' = "window"
  /\ UNCHANGED <<alive, postInstall, oldJava, window, dialog, pc, phase, failed, lost,
                 started, warned>>

\* An exception in main is shown, but not by --postinstall.
Complain(is) ==
  IF is /\ ~postInstall
  THEN Queue("dialog") /\ complained' = TRUE
  ELSE UNCHANGED <<edt, complained>>

\* SplashScreen.init and SplashScreenMultipleOptions.init: invokeAndWait.
AskForWindow ==
  /\ main = "window"
  /\ Queue("init")
  /\ main' = "waiting"
  /\ UNCHANGED <<alive, options, window, dialog, pc, phase, history>>

\* Something else fails before: the trust manager, the font of the buttons.
FailInMain ==
  /\ main = "window"
  /\ Complain(TRUE)
  /\ main' = "done"
  /\ UNCHANGED <<alive, options, window, dialog, pc, phase, failed, lost, started,
                 warned>>

\* One client: main starts the launch thread.  Its first call is findAny().get(),
\* outside the try of launch: without a client the thread ends with an exception
\* that nobody catches.
StartLaunch ==
  /\ main = "opened"
  /\ ~displayMultipleOptions
  /\ \E t \in Threads :
       /\ pc[t] = "none"
       /\ Goto(t, IF clientTypes = {} THEN "ended"
                  ELSE IF postInstall THEN "post" ELSE "stage")
  /\ main' = "done"
  /\ UNCHANGED <<alive, options, shared, phase, history>>

\* Several: main clears the texts of the window, barMessage and message, each of
\* which tests INSTANCE ...
TestInMain ==
  /\ main = "opened"
  /\ displayMultipleOptions
  /\ main' = IF window = "none" THEN "done" ELSE "clear"
  /\ UNCHANGED <<alive, options, shared, pc, phase, history>>

\* ... and uses it, with a NullPointerException if it is gone by then.
ClearInMain ==
  /\ main = "clear"
  /\ Complain(window = "none")
  /\ main' = "done"
  /\ UNCHANGED <<alive, options, window, dialog, pc, phase, failed, lost, started,
                 warned>>

-----------------------------------------------------------------------------
(* A launch thread.                                                        *)

\* The test of INSTANCE in stage().
TestInstance(t) ==
  /\ pc[t] = "stage"
  /\ Goto(t, IF window = "none" THEN "work" ELSE "set")
  /\ UNCHANGED <<alive, options, shared, main, phase, history>>

\* Its use.
UseInstance(t) ==
  /\ pc[t] = "set"
  /\ window # "none"
  /\ Goto(t, "work")
  /\ UNCHANGED <<alive, options, shared, main, phase, history>>

\* Mutant of MissInstance: the exception reaches no handler that opens a dialog.
MissInstanceSilently(t) ==
  /\ pc[t] = "set"
  /\ window = "none"
  /\ failed' = failed \cup {t}
  /\ lost' = lost \cup {t}
  /\ Goto(t, "closing")
  /\ UNCHANGED <<alive, options, shared, main, phase, started, warned, complained>>

\* The window has gone: NullPointerException, caught at the end of launch.
MissInstance(t) ==
  /\ pc[t] = "set"
  /\ window = "none"
  /\ Queue("dialog")
  /\ failed' = failed \cup {t}
  /\ lost' = lost \cup {t}
  /\ Goto(t, "closing")
  /\ UNCHANGED <<alive, options, window, dialog, main, phase, started, warned,
                 complained>>

\* Mutant of Advance: no end.
AdvanceBeyond(t) ==
  /\ pc[t] = "work"
  /\ phase' = [phase EXCEPT ![t] = @ + 1]
  /\ Goto(t, "stage")
  /\ UNCHANGED <<alive, options, shared, main, history>>

\* Mutant of Advance: the window is closed before the last stage.
AdvanceClosing(t) ==
  /\ pc[t] = "work"
  /\ phase[t] < Len(Phases)
  /\ phase' = [phase EXCEPT ![t] = @ + 1]
  /\ IF Doing(t) = "repository" THEN Queue("stop") ELSE UNCHANGED edt
  /\ Goto(t, "stage")
  /\ UNCHANGED <<alive, options, window, dialog, main, history>>

\* A part of launch() is done, also one whose errors are only logged, such as an
\* update of the launcher or the installation of Java.
Advance(t) ==
  /\ pc[t] = "work"
  /\ phase[t] < Len(Phases)
  /\ phase' = [phase EXCEPT ![t] = @ + 1]
  /\ Goto(t, "stage")
  /\ UNCHANGED <<alive, options, shared, main, history>>

\* An exception, or an early return after queueing a dialog of its own.
Fail(t) ==
  /\ pc[t] = "work"
  /\ Queue("dialog")
  /\ failed' = failed \cup {t}
  /\ Goto(t, "closing")
  /\ UNCHANGED <<alive, options, window, dialog, main, phase, lost, started, warned,
                 complained>>

\* JavaInstaller opens the dialog on this thread, prints the exception and
\* returns: the launch goes on.  (If one is open already the constructor throws:
\* Fail.)
WarnAboutJava(t) ==
  /\ pc[t] = "work"
  /\ Doing(t) = "java"
  /\ oldJava
  /\ ~dialog
  /\ dialog' = TRUE
  /\ warned' = warned \cup {t}
  /\ Queue("stop")
  /\ phase' = [phase EXCEPT ![t] = @ + 1]
  /\ Goto(t, "stage")
  /\ UNCHANGED <<alive, options, window, main, failed, lost, started, complained>>

\* Updater.update has started the installer or the new version: System.exit(0).
ExitForUpdate(t) ==
  /\ pc[t] = "work"
  /\ Doing(t) = "update"
  /\ alive' = FALSE
  /\ UNCHANGED <<options, shared, main, pc, phase, history>>

\* The client's process is started.  With --debug the window is closed at once
\* and the launch thread waits for the client to end.
StartClient(t) ==
  /\ pc[t] = "work"
  /\ Doing(t) = "start"
  /\ started' = started \cup {t}
  /\ \/ Goto(t, "closing") /\ UNCHANGED edt
     \/ Goto(t, "debug") /\ Queue("stop")
  /\ UNCHANGED <<alive, options, window, dialog, main, phase, failed, lost, warned,
                 complained>>

ClientEnds(t) ==
  /\ pc[t] = "debug"
  /\ Goto(t, "closing")
  /\ UNCHANGED <<alive, options, shared, main, phase, history>>

\* An Error, which is thrown on, or in the last part: no Java executable, which is
\* logged, or no main class in REFLECT mode, which is logged by another thread.
EndSilently(t) ==
  /\ pc[t] = "work"
  /\ Goto(t, "closing")
  /\ UNCHANGED <<alive, options, shared, main, phase, history>>

\* postInstall() logs what goes wrong.
PostInstall(t) ==
  /\ pc[t] = "post"
  /\ Goto(t, "closing")
  /\ UNCHANGED <<alive, options, shared, main, phase, history>>

\* Mutant of Close: the window is closed only for a client that was started.
CloseOnSuccess(t) ==
  /\ pc[t] = "closing"
  /\ IF t \in started THEN Queue("stop") ELSE UNCHANGED edt
  /\ Goto(t, "ended")
  /\ UNCHANGED <<alive, options, window, dialog, main, phase, history>>

\* Mutant of Close: only on failure.
CloseOnFailure(t) ==
  /\ pc[t] = "closing"
  /\ IF t \notin started THEN Queue("stop") ELSE UNCHANGED edt
  /\ Goto(t, "ended")
  /\ UNCHANGED <<alive, options, window, dialog, main, phase, history>>

\* finally: close().
Close(t) ==
  /\ pc[t] = "closing"
  /\ Queue("stop")
  /\ Goto(t, "ended")
  /\ UNCHANGED <<alive, options, window, dialog, main, phase, history>>

-----------------------------------------------------------------------------
(* The event dispatch thread, and the user.                                *)

Dispatch(e) ==
  /\ edt # <<>>
  /\ Head(edt) = e

\* A dialog is built and opened, and open() calls close().  If there is one the
\* constructor throws an IllegalStateException, which the EDT survives.
OpenDialog ==
  /\ Dispatch("dialog")
  /\ dialog' = TRUE
  /\ edt' = IF dialog THEN Tail(edt) ELSE Append(Tail(edt), "stop")
  /\ UNCHANGED <<alive, options, window, main, pc, phase, history>>

\* The window is built if there is none; what its constructor throws is logged.
OpenWindow ==
  /\ Dispatch("init")
  /\ main = "waiting"
  /\ window' \in IF window = "none" THEN {"open", "none"} ELSE {window}
  /\ edt' = Tail(edt)
  /\ main' = "opened"
  /\ UNCHANGED <<alive, options, dialog, pc, phase, history>>

\* SplashScreen.stop and SplashScreenMultipleOptions.close.
StopWindow ==
  /\ Dispatch("stop")
  /\ window' = "none"
  /\ edt' = Tail(edt)
  /\ UNCHANGED <<alive, options, dialog, main, pc, phase, history>>

\* A button of the window is pressed; it may be the same as before.
Click ==
  /\ displayMultipleOptions
  /\ window = "open"
  /\ \E t \in Threads :
       /\ pc[t] = "none"
       /\ Goto(t, IF postInstall THEN "post" ELSE "stage")
  /\ UNCHANGED <<alive, options, shared, main, phase, history>>

\* The window of several clients is closed by the user: DISPOSE_ON_CLOSE leaves
\* INSTANCE as it is.
DisposeWindow ==
  /\ displayMultipleOptions
  /\ window = "open"
  /\ window' = "disposed"
  /\ UNCHANGED <<alive, options, edt, dialog, main, pc, phase, history>>

\* The exit button of the dialog or of the window, or EXIT_ON_CLOSE of the splash
\* screen.
Exit ==
  /\ dialog \/ window = "open"
  /\ alive' = FALSE
  /\ UNCHANGED <<options, shared, main, pc, phase, history>>

\* No thread, no event and no window is left: the JVM ends.
JvmEnds ==
  /\ main = "done"
  /\ \A t \in Threads : pc[t] \in {"none", "ended"}
  /\ edt = <<>>
  /\ window # "open"
  /\ ~dialog
  /\ alive' = FALSE
  /\ UNCHANGED <<options, shared, main, pc, phase, history>>

-----------------------------------------------------------------------------
Main ==
  \/ RetrieveClientTypes \/ AskForWindow \/ FailInMain
  \/ StartLaunch \/ TestInMain \/ ClearInMain

\* Steps that wait for nothing outside the process.
Proceed(t) ==
  \/ TestInstance(t) \/ UseInstance(t) \/ MissInstance(t) \/ Close(t)

Work(t) ==
  \/ Advance(t) \/ Fail(t) \/ WarnAboutJava(t) \/ ExitForUpdate(t)
  \/ StartClient(t) \/ ClientEnds(t) \/ EndSilently(t) \/ PostInstall(t)

EventDispatch == OpenDialog \/ OpenWindow \/ StopWindow

User == Click \/ DisposeWindow \/ Exit

Next ==
  /\ alive
  /\ \/ Main \/ EventDispatch \/ User \/ JvmEnds
     \/ \E t \in Threads : Proceed(t) \/ Work(t)

\* The threads of a process are scheduled.  Nothing is assumed of the user, nor of
\* what needs the network or waits for the client: no connection has a timeout.
Fairness ==
  /\ WF_vars(alive /\ main # "manifest" /\ Main)
  /\ WF_vars(alive /\ EventDispatch)
  /\ WF_vars(alive /\ JvmEnds)
  /\ \A t \in Threads : WF_vars(alive /\ Proceed(t))

Spec == Init /\ [][Next]_vars /\ Fairness

-----------------------------------------------------------------------------
TypeOK ==
  /\ alive \in BOOLEAN /\ postInstall \in BOOLEAN /\ oldJava \in BOOLEAN
  /\ displayMultipleOptions \in BOOLEAN /\ dialog \in BOOLEAN
  /\ clientTypes \subseteq Types
  /\ edt \in Seq({"dialog", "init", "stop"})
  /\ window \in {"none", "open", "disposed"}
  /\ main \in {"manifest", "window", "waiting", "opened", "clear", "done"}
  /\ pc \in [Threads -> {"none", "post", "stage", "set", "work", "debug",
                         "closing", "ended"}]
  /\ phase \in [Threads -> DOMAIN Phases]
  /\ failed \cup lost \cup started \cup warned \subseteq Threads
  /\ complained \in BOOLEAN

\* When every launch has ended and nothing is left to do, the splash screen or the
\* window of clients does not stay behind on its own: whatever way launch() was
\* left, its finally closes it (Launcher.launch, SplashScreen.stop), and where
\* no finally is reached the user has a dialog with a way out.
NoOrphanWindow ==
  /\ alive
  /\ main = "done"
  /\ edt = <<>>
  /\ \E t \in Threads : pc[t] # "none"
  /\ \A t \in Threads : pc[t] \in {"none", "ended"}
  /\ window = "open"
  => dialog

\* Launch u has something closed: its own window at the end, or everyone's by a
\* dialog.
Closes(u) == u \in started \cup failed \cup warned \/ pc[u] = "ended"

\* stage() finds that its window has vanished between the test and the use only for
\* one of three reasons: another launch has ended, failed, started its client or
\* opened a dialog; main has asked for a dialog; or the launch itself has warned
\* about Java, opened the dialog on its own thread and gone on without the window
\* that the dialog closes (SplashScreen.stage, SplashScreenMultipleOptions.stage,
\* JavaInstaller.downloadFile).
LostForAReason ==
  [][\A t \in lost' \ lost :
       complained \/ t \in warned \/ \E u \in Threads \ {t} : Closes(u)]_vars

\* Whatever ends a launch with an exception, in any order with other launches and
\* their dialogs, the user gets to see a dialog (FatalErrorDialog.alreadyOpen,
\* Launcher.launch).
FailuresReported == failed # {} ~> dialog \/ ~alive

\* Once a client is started the launcher's process ends, unless a dialog is open,
\* another launch is at work or --debug waits for the client: no window keeps
\* it alive, even one that another click left behind.
GivesWay ==
  started # {} ~> \/ ~alive
                  \/ dialog
                  \/ \E t \in Threads : pc[t] \in {"work", "debug", "post"}
=============================================================================
