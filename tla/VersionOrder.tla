----------------------------- MODULE VersionOrder -----------------------------
(***************************************************************************)
(* The order of version names (Launcher.compareVersion), by which the       *)
(* updater finds what is newer than itself.                                 *)
(*                                                                          *)
(* Data abstraction.  A version is the sequence of its tokens, what is left *)
(* of the name when it is split at everything but letters and digits.  A    *)
(* token is a number that Integer.parseInt accepts, or a word, of which     *)
(* only the rank in the alphabet, regardless of case, is kept.  A number of *)
(* more digits than an int can hold is a word.                              *)
(***************************************************************************)
EXTENDS Integers, Sequences

Number(n) == [int |-> TRUE, rank |-> n]

Token == [int : BOOLEAN, rank : Nat]

Version == Seq(Token)

\* Numbers come after words.
After(x, y) ==
  \/ x.int /\ ~y.int
  \/ x.int = y.int /\ x.rank > y.rank

\* The first n tokens of a and b are equal.
Agree(a, b, n) == \A i \in 1 .. n : a[i] = b[i]

\* Mutant of Newer: the lengths at the end are swapped.
NewerIfShorter(a, b) ==
  \/ \E i \in DOMAIN a \cap DOMAIN b : Agree(a, b, i - 1) /\ After(a[i], b[i])
  \/ Len(a) < Len(b) /\ Agree(a, b, Len(a))

\* compareVersion(a, b) > 0: the first tokens that differ decide, or else the
\* longer name is the newer.
Newer(a, b) ==
  \/ \E i \in DOMAIN a \cap DOMAIN b : Agree(a, b, i - 1) /\ After(a[i], b[i])
  \/ Len(a) > Len(b) /\ Agree(a, b, Len(b))
=============================================================================
