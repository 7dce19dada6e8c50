------------------------------ MODULE MCDetours ------------------------------
(***************************************************************************)
(* Two functions on one page: two pointers lead to the first one, as the    *)
(* exports of kernel32.dll and kernelbase.dll may, and one to the second.   *)
(***************************************************************************)
EXTENDS Detours, TLC

CONSTANTS k32, kb, other, fn, gn, page

MCHome == (k32 :> fn) @@ (kb :> fn) @@ (other :> gn)

MCPage == [t \in {fn, gn} |-> page]

Symmetry == Permutations(Threads) \cup Permutations(Regions) \cup Permutations(Slots)
=============================================================================
