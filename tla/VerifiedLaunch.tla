---------------------------- MODULE VerifiedLaunch ----------------------------
(***************************************************************************)
(* What a launch promises, seen from outside: an attempt may do what it      *)
(* likes to the files of its own directory, may give up or be killed at any  *)
(* time, and starts the client only if these files are, then, those of one   *)
(* signed bootstrap.  How the files get there (scan, patches, downloads,     *)
(* verification) is not said; module Repository says it, and implements      *)
(* this specification.                                                       *)
(***************************************************************************)
EXTENDS Sequences

CONSTANTS
  Launchers,   \* launch attempts
  Locations,   \* directories repository/<type>/
  Loc,         \* the directory of each attempt
  Bootstraps   \* the artifact lists the server signs

VARIABLES
  files,       \* files[d][n]: content of file n of directory d
  session      \* "off", "launching" or "client"

vars == <<files, session>>

\* Directory f holds every artifact of bootstrap b.
Genuine(f, b) == \A j \in DOMAIN b : f[b[j].name] = b[j].hash

Enter(l, s) == session' = [session EXCEPT ![l] = s]

Init == session = [l \in Launchers |-> "off"]

Attempt(l) ==
  /\ session[l] # "launching"
  /\ Enter(l, "launching")
  /\ UNCHANGED files

\* Whatever is done to the files, it is done by an attempt that is under way,
\* in its own directory.
Work(l) ==
  /\ session[l] = "launching"
  /\ \A d \in Locations \ {Loc[l]} : files'[d] = files[d]
  /\ UNCHANGED session

GiveUp(l) ==
  /\ session[l] = "launching"
  /\ Enter(l, "off")
  /\ UNCHANGED files

StartClient(l) ==
  /\ session[l] = "launching"
  /\ \E b \in Bootstraps : Genuine(files[Loc[l]], b)
  /\ Enter(l, "client")
  /\ UNCHANGED files

Next ==
  \E l \in Launchers : Attempt(l) \/ Work(l) \/ GiveUp(l) \/ StartClient(l)

Spec == Init /\ [][Next]_vars

\* A client that runs keeps, as long as nobody launches again, exactly the
\* files it was started on: they are all those of one bootstrap.
ClientsKeepGenuineFiles ==
  \A l \in Launchers :
    session[l] = "client" => \E b \in Bootstraps : Genuine(files[Loc[l]], b)
=============================================================================
