---------------------------- MODULE MCLibLauncher ----------------------------
(***************************************************************************)
(* LoadLibraryA and LoadLibraryW, exported by kernel32.dll and by           *)
(* kernelbase.dll: the exports of kernel32 are jumps that Detours follows,  *)
(* so that both pointers lead to one function.  A calls W.                  *)
(***************************************************************************)
EXTENDS LibLauncher, TLC

CONSTANTS K32A, K32W, KBA, KBW, A, W, page

MCHome == (K32A :> A) @@ (K32W :> W) @@ (KBA :> A) @@ (KBW :> W)

MCOrder == <<K32A, K32W, KBA, KBW>>

MCInner == (A :> W) @@ (W :> None)

MCPage == [g \in {A, W} |-> page]
=============================================================================
