---------------------------- MODULE MCRepository ----------------------------
(***************************************************************************)
(* Small instances of Repository.  The server has two releases: the first   *)
(* is the artifact c1; in the second c1 is replaced by c2, which can be     *)
(* patched from c1, and a library x is added.                               *)
(***************************************************************************)
EXTENDS Repository

CONSTANTS l1, l2, here, c1, c2, x, hc1, hc2, hx

OneLoc == [l \in {l1} |-> here]
TwoLoc == [l \in {l1, l2} |-> here]

MCFirst == [name |-> c1, hash |-> hc1, size |-> 4, diffs |-> << >>]

MCSecond ==
  [name |-> c2, hash |-> hc2, size |-> 5,
   diffs |-> << [from |-> c1, fromHash |-> hc1, size |-> 2] >>]

MCLib == [name |-> x, hash |-> hx, size |-> 3, diffs |-> << >>]

Releases == {<<MCFirst>>, <<MCSecond, MCLib>>}

\* A single artifact: enough for two attempts to meet.
OneRelease == {<<MCFirst>>}

BothSettings == BOOLEAN
DiffsOn == {FALSE}

\* An installation on Windows, a Linux AppImage, and the jar run by a java of which
\* only the library is there.
Installed == [os |-> "Windows", appImage |-> FALSE, command |-> "packr", java |-> TRUE]

AppImage == [os |-> "Linux", appImage |-> TRUE, command |-> "packr", java |-> TRUE]

Jar == [os |-> "Windows", appImage |-> FALSE, command |-> "other", java |-> FALSE]

MCSystems == {Installed, AppImage, Jar}
=============================================================================
