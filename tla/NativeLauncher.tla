---------------------------- MODULE NativeLauncher ----------------------------
(***************************************************************************)
(* The processes of one launch.  The user starts the native executable      *)
(* (packr), which reads its command line and config.json, creates a Java VM *)
(* and calls Launcher.main; main starts the launch thread, which at its end *)
(* runs the client in the same process (REFLECT), in a VM of its own (JVM)  *)
(* or by starting the executable again (FORK).  The command line that       *)
(* ForkLauncher builds is read by packr's option parser (dropt) and what is *)
(* left of it by Launcher.main's.                                           *)
(*                                                                          *)
(* Data abstraction.  An argument is a token.  Packr's options that only    *)
(* say where it looks (--cwd, --config, --console, --verbose) are left out. *)
(* What happens in main and launch before their last step is in Startup and *)
(* the modules it names; here it goes well or fails.                        *)
(***************************************************************************)
EXTENDS Naturals, Sequences

CONSTANTS
  Words,      \* arguments that do not begin with "-"
  Dashed,     \* arguments that begin with "-" and that neither program knows
  Commands,   \* command lines a user may start the executable with
  Configs,    \* vmArgs that config.json may have
  Bootstraps, \* JVM arguments that a bootstrap may have for the client
  UserArgs    \* JVM arguments that the settings or the environment may have

First == "-XstartOnFirstThread"

\* Arguments that begin with "-" and that a program knows or the launcher adds.
Known == {"-c", "--help", "-J", "--", "--classpath", "--configure",
          First, "-D", "-XX:ErrorFile"}

Token == Words \cup Dashed \cup Known \cup {"names"}

Tokens == Seq(Token)

ASSUME NativeLauncherAssumption ==
  /\ Commands \cup Configs \cup Bootstraps \cup UserArgs \subseteq Tokens
  /\ Words \cap Known = {}
  /\ Dashed \cap (Words \cup Known \cup {"names"}) = {}

VARIABLES
  system, appimage, mode,   \* the machine and the launch mode in force
  config, bootstrap,        \* JVM arguments from the files of these names,
  saved, environment,       \* from the settings and from ..._VMARGS
  procs                     \* the processes, in the order they were started

settings == <<system, appimage, mode, config, bootstrap, saved, environment>>
vars == <<settings, procs>>

\* forked: by ForkLauncher.  at: where the thread that runs packr is; on macOS
\* the main thread may be in the run loop instead.  java: Java threads that are
\* no daemons, besides the one that called main.
Process ==
  [forked : BOOLEAN, cmd : Tokens, vm : Tokens, args : Tokens,
   at : {"parse", "config", "jni", "callback", "create", "load", "main",
         "destroy", "client", "hung", "ended"},
   loop : BOOLEAN, java : SUBSET {"launch", "awt", "client"}, thrown : BOOLEAN,
   client : BOOLEAN, status : {"none", "success", "failure", "rejected", "exited"}]

Started(forked, cmd) ==
  [forked |-> forked, cmd |-> cmd, vm |-> << >>, args |-> << >>, at |-> "parse",
   loop |-> FALSE, java |-> {}, thrown |-> FALSE, client |-> FALSE, status |-> "none"]

Init ==
  /\ system \in {"windows", "mac", "linux"}
  /\ appimage \in {FALSE, system = "linux"}
  /\ mode \in {"AUTO", "JVM", "FORK", "REFLECT"}
  /\ config \in Configs /\ bootstrap \in Bootstraps
  /\ saved \in UserArgs /\ environment \in UserArgs
  /\ \E c \in Commands : procs = <<Started(FALSE, c)>>

-----------------------------------------------------------------------------
\* The two parsers of arguments.

From(s, i) == SubSeq(s, i, Len(s))

Reading == [ok |-> TRUE, help |-> FALSE, vm |-> << >>, rest |-> << >>]

\* Mutant of DroptStep: a -J without argument is taken with none.
DroptStepNull(s, i, one, two) ==
  CASE i > Len(s) -> Reading
    [] i <= Len(s) /\ s[i] = "--" -> [Reading EXCEPT !.rest = From(s, i + 1)]
    [] i <= Len(s) /\ s[i] = "-c" -> one
    [] i <= Len(s) /\ s[i] = "--help" -> [Reading EXCEPT !.help = TRUE]
    [] i < Len(s) /\ s[i] = "-J" -> [two EXCEPT !.vm = <<s[i + 1]>> \o @]
    [] i = Len(s) /\ s[i] = "-J" -> [Reading EXCEPT !.vm = <<"null">>]
    [] i <= Len(s) /\ s[i] \in Words \cup {"names"} ->
         [Reading EXCEPT !.rest = From(s, i)]
    [] OTHER -> [Reading EXCEPT !.ok = FALSE]

\* What dropt_parse makes of s from token i on, given what it makes of it from one
\* or two tokens further on: it stops behind "--", before what is no option, and
\* at an option it does not know.  No token reads as the Boolean that may follow
\* -c.
DroptStep(s, i, one, two) ==
  CASE i > Len(s) -> Reading
    [] i <= Len(s) /\ s[i] = "--" -> [Reading EXCEPT !.rest = From(s, i + 1)]
    [] i <= Len(s) /\ s[i] = "-c" -> one
    [] i <= Len(s) /\ s[i] = "--help" -> [Reading EXCEPT !.help = TRUE]
    [] i < Len(s) /\ s[i] = "-J" -> [two EXCEPT !.vm = <<s[i + 1]>> \o @]
    [] i <= Len(s) /\ s[i] \in Words \cup {"names"} ->
         [Reading EXCEPT !.rest = From(s, i)]
    [] OTHER -> [Reading EXCEPT !.ok = FALSE]

\* dropt_parse.
Dropt(s) ==
  LET p[i \in 1 .. Len(s) + 2] == DroptStep(s, i, p[i + 1], p[i + 2]) IN p[1]

\* setCmdLineArguments: only a command line that begins with -c is parsed.
CommandLine(s) ==
  IF s # << >> /\ s[1] = "-c" THEN Dropt(s) ELSE [Reading EXCEPT !.rest = s]

None == [ok |-> TRUE, help |-> FALSE, configure |-> FALSE, classpath |-> FALSE,
         jvm |-> << >>, client |-> << >>]

\* The parser of Launcher.main: what it does not know is for the client.
OptionsStep(s, i, one, two) ==
  CASE i > Len(s) -> None
    [] i <= Len(s) /\ s[i] = "--" -> [None EXCEPT !.client = From(s, i + 1)]
    [] i <= Len(s) /\ s[i] = "--help" -> [one EXCEPT !.help = TRUE]
    [] i <= Len(s) /\ s[i] = "--configure" -> [one EXCEPT !.configure = TRUE]
    [] i < Len(s) /\ s[i] = "--classpath" -> [two EXCEPT !.classpath = TRUE]
    [] i < Len(s) /\ s[i] = "-J" -> [two EXCEPT !.jvm = <<s[i + 1]>> \o @]
    [] i = Len(s) /\ s[i] \in {"--classpath", "-J"} -> [None EXCEPT !.ok = FALSE]
    [] OTHER -> [one EXCEPT !.client = <<s[i]>> \o @]

Options(s) ==
  LET p[i \in 1 .. Len(s) + 2] == OptionsStep(s, i, p[i + 1], p[i + 2]) IN p[1]

-----------------------------------------------------------------------------
\* One process of packr.

Becomes(i, r) == procs' = [procs EXCEPT ![i] = r] /\ UNCHANGED settings

Goes(i, x) == Becomes(i, [procs[i] EXCEPT !.at = x])

Ends(i, s) == Becomes(i, [procs[i] EXCEPT !.at = "ended", !.status = s, !.java = {}])

\* --help ends in EXIT_FAILURE as well.
SetCmdLineArguments(i) ==
  /\ procs[i].at = "parse"
  /\ LET r == CommandLine(procs[i].cmd)
     IN  \/ ~r.ok /\ Ends(i, "rejected")
         \/ r.help /\ Ends(i, "failure")
         \/ /\ r.ok /\ ~r.help
            /\ Becomes(i, [procs[i] EXCEPT !.at = "config", !.vm = r.vm, !.args = r.rest])

\* The configuration's vmArgs count only if there is no -J.
LoadConfiguration(i) ==
  /\ procs[i].at = "config"
  /\ \/ Ends(i, "failure")
     \/ Becomes(i, [procs[i] EXCEPT !.at = "jni",
                                    !.vm = IF @ = << >> THEN config ELSE @])

LoadJNIFunctions(i) ==
  /\ procs[i].at = "jni"
  /\ Ends(i, "failure") \/ Goes(i, "callback")

\* On macOS the VM gets a thread of its own, and whether there is one is not
\* looked at; the main thread goes to the run loop.
Callback(i) ==
  /\ procs[i].at = "callback"
  /\ IF system = "mac" /\ \A k \in DOMAIN procs[i].vm : procs[i].vm[k] # First
     THEN \E x \in {"create", "hung"} :
            Becomes(i, [procs[i] EXCEPT !.at = x, !.loop = TRUE])
     ELSE Goes(i, "create")

CreateJavaVM(i) ==
  /\ procs[i].at = "create"
  /\ Ends(i, "failure") \/ Goes(i, "load")

LoadStaticMethod(i) ==
  /\ procs[i].at = "load"
  /\ Ends(i, "failure") \/ Goes(i, "main")

\* Waits for the threads that are no daemons; then exit, on whatever thread.
DestroyJavaVM(i) ==
  /\ procs[i].at = "destroy"
  /\ procs[i].java = {}
  /\ Ends(i, IF procs[i].thrown THEN "failure" ELSE "success")

-----------------------------------------------------------------------------
\* Java.

Returns(i, threads, client) ==
  Becomes(i, [procs[i] EXCEPT !.at = "destroy", !.java = threads, !.client = client])

Throws(i, threads) ==
  Becomes(i, [procs[i] EXCEPT !.at = "destroy", !.java = threads, !.thrown = TRUE])

\* Launcher.main.  Windows and dialogs are the AWT's; --classpath runs the
\* client on a thread of this process.
Main(i) ==
  /\ procs[i].at = "main"
  /\ LET o == Options(procs[i].args)
     IN  \/ ~o.ok /\ Throws(i, {"awt"})
         \/ o.ok /\ o.help /\ Ends(i, "exited")
         \/ o.ok /\ ~o.help /\ o.configure /\ Returns(i, {"awt"}, FALSE)
         \/ /\ o.ok /\ ~o.help /\ ~o.configure
            /\ \/ o.classpath /\ Returns(i, {"client"}, TRUE)
               \/ o.classpath /\ Returns(i, {}, FALSE)
               \/ ~o.classpath /\ Returns(i, {"launch", "awt"}, FALSE)
               \/ Returns(i, {"awt"}, FALSE)
               \/ Throws(i, {})

Without(i, thread) == [procs[i] EXCEPT !.java = @ \ {thread}]

\* A window is closed, or the client ends; the launch closes its own window.
ThreadEnds(i) ==
  /\ procs[i].at = "destroy"
  /\ \/ "launch" \notin procs[i].java /\ "awt" \in procs[i].java /\ Becomes(i, Without(i, "awt"))
     \/ "client" \in procs[i].java /\ Becomes(i, Without(i, "client"))

\* System.exit, in whatever thread.
JavaExits(i) ==
  /\ procs[i].at = "destroy"
  /\ procs[i].java # {}
  /\ Ends(i, "exited")

\* The property sun.java.command, which names the executable or something else
\* or is missing, as the VM pleases.
CanForkLaunch(command) ==
  IF system = "linux" THEN appimage ELSE command = "executable"

\* What a launch asks the client's VM for.
Raw(i) ==
  LET jvm == Options(procs[i].args).jvm
  IN  <<"-XX:ErrorFile">> \o (IF jvm = << >> THEN saved ELSE jvm) \o environment

Asked(i) == bootstrap \o <<"-D">> \o Raw(i)

Tagged(s) == [k \in 1 .. 2 * Len(s) |-> IF k % 2 = 1 THEN "-J" ELSE s[k \div 2]]

\* Mutant of ForkCommand: the class path comes without its option.
ForkCommandNames(i) ==
  <<"-c">> \o Tagged(bootstrap \o <<"-D">>) \o Raw(i)
    \o <<"--", "names">> \o Options(procs[i].args).client

\* ForkLauncher.launch.
ForkCommand(i) ==
  <<"-c">> \o Tagged(bootstrap \o <<"-D">>) \o Raw(i)
    \o <<"--", "--classpath", "names">> \o Options(procs[i].args).client

Starts(i, p) ==
  /\ procs' = Append([procs EXCEPT ![i] = Without(i, "launch")], p)
  /\ UNCHANGED settings

Fork(i, command) ==
  IF command = "executable" THEN Starts(i, Started(TRUE, ForkCommand(i)))
  ELSE Becomes(i, Without(i, "launch"))

\* JvmLauncher.launch.
ClientProcess(i) ==
  [Started(FALSE, << >>) EXCEPT !.at = "client", !.client = TRUE,
     !.vm = Asked(i), !.args = Options(procs[i].args).client]

\* The launch thread ends: with a failure, or with the client, which REFLECT does
\* not find (it asks for the empty type) and JVM refuses in an AppImage.
Launch(i) ==
  /\ procs[i].at = "destroy" /\ "launch" \in procs[i].java
  /\ \/ Becomes(i, Without(i, "launch"))
     \/ \E command \in {"executable", "other", "none"} :
          \/ /\ mode = "FORK" \/ (mode = "AUTO" /\ CanForkLaunch(command))
             /\ Fork(i, command)
          \/ /\ mode = "JVM" \/ (mode = "AUTO" /\ ~CanForkLaunch(command))
             /\ ~appimage
             /\ Starts(i, ClientProcess(i))

ClientEnds(i) == procs[i].at = "client" /\ Ends(i, "exited")

-----------------------------------------------------------------------------
Packr(i) ==
  \/ SetCmdLineArguments(i) \/ LoadConfiguration(i) \/ LoadJNIFunctions(i)
  \/ Callback(i) \/ CreateJavaVM(i) \/ LoadStaticMethod(i) \/ DestroyJavaVM(i)

Java(i) == Main(i) \/ ThreadEnds(i) \/ JavaExits(i) \/ Launch(i) \/ ClientEnds(i)

Next == \E i \in DOMAIN procs : Packr(i) \/ Java(i)

Spec == Init /\ [][Next]_vars

-----------------------------------------------------------------------------
TypeOK ==
  /\ system \in {"windows", "mac", "linux"}
  /\ appimage \in BOOLEAN
  /\ mode \in {"AUTO", "JVM", "FORK", "REFLECT"}
  /\ {config, bootstrap, saved, environment} \subseteq Tokens
  /\ procs \in Seq(Process)

\* Main's parser reads the class path on a command line.
ReadsClasspath(c) ==
  \E k \in DOMAIN c : c[k] = "--" /\ Options(From(c, k + 1)).classpath

\* "avoid looping" (ForkLauncher.java:90): a launch starts one other process and
\* runs the client in one, though a forked launcher is a launcher like the first
\* and has only its arguments to tell it otherwise.  That packr refuses them is
\* not all that keeps it from launching again: what stands behind the -- that ends
\* packr's part of them would have main run the client, whatever the arguments for
\* the client are that main's parser reads a second time.
NoForkLoop ==
  /\ Len(procs) <= 2
  /\ \A i, j \in DOMAIN procs : procs[i].client /\ procs[j].client => i = j
  /\ \A i \in DOMAIN procs : procs[i].forked => ReadsClasspath(procs[i].cmd)

\* The JVM arguments of the launcher are for the FORK launch mode too
\* (Launcher.java:111): packr accepts the command line that ForkLauncher builds.
ForkAccepted == \A i \in DOMAIN procs : procs[i].forked => procs[i].status # "rejected"
=============================================================================
