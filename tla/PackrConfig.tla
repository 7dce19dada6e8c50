----------------------------- MODULE PackrConfig -----------------------------
(***************************************************************************)
(* config.json, from which the native launcher (packr.cpp) takes the JVM     *)
(* arguments and the environment of the next start, and which the running   *)
(* launcher rewrites with what the bootstrap says (PackrConfig).  Several    *)
(* launchers may run at once, each may be killed at any point, and nothing   *)
(* repairs a file that packr cannot parse: the launcher does not start any   *)
(* more.                                                                     *)
(*                                                                          *)
(* The file is written as a temporary file and moved.  The temporary        *)
(* directory may lie on another volume than the installation; the move is   *)
(* then a deletion and a copy.                                              *)
(***************************************************************************)
EXTENDS Integers

CONSTANTS
  Procs,       \* launcher processes
  Bootstraps,
  ArgLess,     \* bootstraps without arguments for this launcher
  EnvLess,     \* bootstraps without environment for this platform
  Packaged,    \* what the installer puts into the file
  None

ASSUME BootstrapAssumption ==
  /\ ArgLess \cup EnvLess \subseteq Bootstraps
  /\ {Packaged, None} \cap Bootstraps = {}
  /\ None \notin Procs

VARIABLES
  sameVolume,  \* the temporary directory and the installation
  writable,    \* canWrite
  weather,     \* "bad": disk and process may fail; "fair": they do not
  file,        \* config.json: "whole", or what packr cannot parse: "missing",
               \* "empty" or "torn"
  config,      \* what it holds if it is whole
  owner,       \* the launcher whose copy lies there
  pc,
  offer,       \* offer[p]: the bootstrap p has got
  read,        \* read[p]: the settings p has parsed
  disturbed,   \* history: a copy was cut short or overlapped another one
  clear        \* history: p updates alone, in fair weather

platform == <<sameVolume, writable>>
vars == <<sameVolume, writable, weather, file, config, owner, pc, offer, read,
          disturbed, clear>>

Settings == [args : Bootstraps \cup {Packaged}, env : Bootstraps \cup {None}]

\* The settings a bootstrap asks for; without an environment the key goes.
FromBootstrap(b) == [args |-> b, env |-> IF b \in EnvLess THEN None ELSE b]

Shipped == [args |-> Packaged, env |-> None]

disk == <<file, config, owner>>

Whole == file = "whole"

Copying == {"create", "fill"}
Updating == {"open", "parsed", "move"} \cup Copying

-----------------------------------------------------------------------------
Goto(p, x) == pc' = [pc EXCEPT ![p] = x]

Init ==
  /\ sameVolume \in BOOLEAN
  /\ writable \in BOOLEAN
  /\ weather \in {"bad", "fair"}
  /\ file = "whole"
  /\ config = Shipped
  /\ owner = None
  /\ pc = [p \in Procs |-> "off"]
  /\ offer = [p \in Procs |-> None]
  /\ read = [p \in Procs |-> Shipped]
  /\ disturbed = FALSE
  /\ clear = [p \in Procs |-> FALSE]

\* loadConfiguration: the environment of the file is set, and its arguments are
\* used unless the command line gives some.
Start(p) ==
  /\ pc[p] \in {"off", "refused"}
  /\ Whole
  /\ Goto(p, "running")
  /\ UNCHANGED <<platform, weather, disk, offer, read, disturbed, clear>>

\* "failed to load configuration": EXIT_FAILURE.
Refuse(p) ==
  /\ pc[p] = "off"
  /\ ~Whole
  /\ Goto(p, "refused")
  /\ UNCHANGED <<platform, weather, disk, offer, read, disturbed, clear>>

\* The launcher's own update puts the shipped file in place, and ends.
Install(p) ==
  /\ pc[p] = "running"
  /\ file' = "whole"
  /\ config' = Shipped
  /\ owner' = None
  /\ clear' = [q \in Procs |-> FALSE]
  /\ Goto(p, "off")
  /\ UNCHANGED <<platform, weather, offer, read, disturbed>>

\* updateLauncherArgs begins: the file must exist and be writable.
Update(p) ==
  /\ pc[p] = "running"
  /\ \E b \in Bootstraps : offer' = [offer EXCEPT ![p] = b]
  /\ Goto(p, IF file = "missing" \/ ~writable THEN "done" ELSE "open")
  /\ clear' = [q \in Procs |->
                 q = p /\ weather = "fair" /\ Whole /\ writable
                       /\ \A r \in Procs \ {p} : pc[r] \notin Updating]
  /\ UNCHANGED <<platform, weather, disk, read, disturbed>>

\* It is parsed: null for an empty file, an exception for a part or none.
Parse(p) ==
  /\ pc[p] = "open"
  /\ IF Whole /\ offer[p] \notin ArgLess
     THEN /\ read' = [read EXCEPT ![p] = config]
          /\ Goto(p, "parsed")
     ELSE /\ Goto(p, "done")
          /\ UNCHANGED read
  /\ UNCHANGED <<platform, weather, disk, offer, disturbed, clear>>

\* Mutant of PutSettings: an environment that is null is not put.
PutKeepingEnv(p) ==
  /\ pc[p] = "parsed"
  /\ read' = [read EXCEPT ![p] = [args |-> offer[p],
                env |-> IF offer[p] \in EnvLess THEN @.env ELSE offer[p]]]
  /\ Goto(p, "move")
  /\ UNCHANGED <<platform, weather, disk, offer, disturbed, clear>>

\* Mutant of PutSettings: settings of an earlier bootstrap are left alone.
PutIfAbsent(p) ==
  /\ pc[p] = "parsed"
  /\ read' = [read EXCEPT ![p] =
                IF @.args = Packaged THEN FromBootstrap(offer[p]) ELSE @]
  /\ Goto(p, "move")
  /\ UNCHANGED <<platform, weather, disk, offer, disturbed, clear>>

\* Mutant of PutSettings: a bootstrap without environment is put as its own key.
PutNullEnv(p) ==
  /\ pc[p] = "parsed"
  /\ read' = [read EXCEPT ![p] = [args |-> offer[p], env |-> "null"]]
  /\ Goto(p, "move")
  /\ UNCHANGED <<platform, weather, disk, offer, disturbed, clear>>

\* vmArgs and env are put, and the temporary file is written and forced.
PutSettings(p) ==
  /\ pc[p] = "parsed"
  /\ read' = [read EXCEPT ![p] = FromBootstrap(offer[p])]
  /\ Goto(p, "move")
  /\ UNCHANGED <<platform, weather, disk, offer, disturbed, clear>>

\* Mutant of Move: the file is written in place.
WriteInPlace(p) ==
  /\ pc[p] = "move"
  /\ file' = "empty"
  /\ Goto(p, "create")
  /\ UNCHANGED <<platform, weather, config, owner, offer, read, disturbed, clear>>

\* ATOMIC_MOVE.
Move(p) ==
  /\ pc[p] = "move"
  /\ sameVolume
  /\ file' = "whole"
  /\ config' = read[p]
  /\ owner' = None
  /\ Goto(p, "done")
  /\ UNCHANGED <<platform, weather, offer, read, disturbed, clear>>

\* AtomicMoveNotSupportedException: the other move deletes the file ...
MoveFallback(p) ==
  /\ pc[p] = "move"
  /\ ~sameVolume
  /\ file' = "missing"
  /\ disturbed' = (disturbed \/ \E q \in Procs \ {p} : pc[q] \in Copying)
  /\ Goto(p, "create")
  /\ UNCHANGED <<platform, weather, config, owner, offer, read, clear>>

\* ... creates it anew, which fails if it has come back ...
CopyCreate(p) ==
  /\ pc[p] = "create"
  /\ \/ /\ file = "missing"
        /\ file' = "empty"
        /\ owner' = p
        /\ Goto(p, "fill")
     \/ /\ file # "missing"
        /\ UNCHANGED <<file, owner>>
        /\ Goto(p, "done")
  /\ UNCHANGED <<platform, weather, config, offer, read, disturbed, clear>>

\* ... and fills it, some of it first.
CopyPart(p) ==
  /\ pc[p] = "fill"
  /\ owner = p
  /\ file' = "torn"
  /\ UNCHANGED <<platform, weather, config, owner, pc, offer, read, disturbed, clear>>

\* What is written after the file was replaced goes nowhere.
CopyRest(p) ==
  /\ pc[p] = "fill"
  /\ IF owner = p
     THEN file' = "whole" /\ config' = read[p] /\ owner' = None
     ELSE UNCHANGED disk
  /\ Goto(p, "done")
  /\ UNCHANGED <<platform, weather, offer, read, disturbed, clear>>

\* An IOException is logged; a copy that fails leaves what there is.  A file that
\* another launcher holds open may not be deleted.
Fail(p) ==
  /\ pc[p] \in Updating
  /\ \/ weather = "bad"
     \/ pc[p] = "move" /\ \E q \in Procs : pc[q] = "fill" /\ owner = q
  /\ disturbed' = (disturbed \/ pc[p] \in Copying)
  /\ Goto(p, "done")
  /\ UNCHANGED <<platform, weather, disk, offer, read, clear>>

End(p) ==
  /\ pc[p] = "done"
  /\ clear' = [clear EXCEPT ![p] = FALSE]
  /\ Goto(p, "off")
  /\ UNCHANGED <<platform, weather, disk, offer, read, disturbed>>

Crash(p) ==
  /\ weather = "bad"
  /\ pc[p] # "refused"
  /\ disturbed' = (disturbed \/ pc[p] \in Copying)
  /\ clear' = [clear EXCEPT ![p] = FALSE]
  /\ Goto(p, "off")
  /\ UNCHANGED <<platform, weather, disk, offer, read>>

Settle ==
  /\ weather' = "fair"
  /\ UNCHANGED <<platform, disk, pc, offer, read, disturbed, clear>>

Next ==
  \/ \E p \in Procs :
       \/ Start(p) \/ Refuse(p) \/ Install(p)
       \/ Update(p) \/ Parse(p) \/ PutSettings(p)
       \/ Move(p) \/ MoveFallback(p)
       \/ CopyCreate(p) \/ CopyPart(p) \/ CopyRest(p)
       \/ Fail(p) \/ End(p) \/ Crash(p)
  \/ Settle

Spec == Init /\ [][Next]_vars

-----------------------------------------------------------------------------
TypeOK ==
  /\ sameVolume \in BOOLEAN /\ writable \in BOOLEAN /\ disturbed \in BOOLEAN
  /\ weather \in {"bad", "fair"}
  /\ file \in {"whole", "missing", "empty", "torn"}
  /\ config \in Settings
  /\ owner \in Procs \cup {None}
  /\ pc \in [Procs -> {"off", "refused", "running", "done"} \cup Updating]
  /\ offer \in [Procs -> Bootstraps \cup {None}]
  /\ \A p \in Procs : pc[p] \in Updating => offer[p] \in Bootstraps
  /\ read \in [Procs -> Settings]
  /\ clear \in [Procs -> BOOLEAN]

\* packr can start the launcher at every moment, whoever is killed and however many
\* launchers write, if the move is atomic; otherwise the file may be unreadable
\* while one launcher copies it, and for good only if that was cut short or two
\* copied at once (PackrConfig.updateLauncherArgs, loadConfiguration).
Startable ==
  \/ Whole
  \/ /\ ~sameVolume
     /\ disturbed \/ \E p \in Procs : pc[p] \in Copying

\* Arguments and environment in the file come from one bootstrap, though they are
\* put into a file that an earlier one has written and either may be left out.
OneBootstrap ==
  Whole => config \in {Shipped} \cup {FromBootstrap(b) : b \in Bootstraps}

\* A launcher that updates alone, in fair weather, leaves the settings of its own
\* bootstrap for the next start, whatever the file held.
FairUpdateApplies ==
  \A p \in Procs :
    pc[p] = "done" /\ clear[p] /\ offer[p] \notin ArgLess =>
      config = FromBootstrap(offer[p])
=============================================================================
