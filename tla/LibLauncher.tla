------------------------------ MODULE LibLauncher ------------------------------
(***************************************************************************)
(* The launcher's native library on Windows: DllMain hooks the exports      *)
(* LoadLibrary* of kernel32.dll and kernelbase.dll through Detours, main    *)
(* hands it a list of names, and the hooks refuse to load what is listed,   *)
(* on whatever thread.  One thread, the loader's, uses Detours; any thread  *)
(* may call LoadLibrary at any moment, also while a commit is under way.    *)
(*                                                                          *)
(* Data abstraction.  Pointers are the variables K32LoadLibraryA ... for    *)
(* which GetProcAddress finds a function; Order is the order of DllMain.  A *)
(* name stands for the file name of a path, the part isBlacklistedDll       *)
(* compares.  The stack of a thread has room for a number of hooks that call *)
(* themselves; what becomes of a process in which a call runs overwritten    *)
(* code or out of stack is not followed.                                    *)
(***************************************************************************)
EXTENDS Detours

CONSTANTS
  Loader,    \* the thread that runs DllMain
  Order,     \* Pointers, in the order of DllMain
  Wide,      \* the pointers to functions that take wide strings
  Inner,     \* the function that the original of each function calls, or None
  None,
  Callers,   \* threads that call LoadLibrary
  Rounds,    \* how often a hook can call itself before the stack overflows
  Names,     \* names of libraries
  Listed     \* names in the property runelite.launcher.blacklistedDlls

ASSUME LibLauncherAssumption ==
  /\ Threads = {Loader}
  /\ Order \in Seq(Pointers)
  /\ \A p \in Pointers : \E i \in DOMAIN Order : Order[i] = p
  /\ \A i, j \in DOMAIN Order : Order[i] = Order[j] => i = j
  /\ Wide \subseteq Pointers
  /\ None \notin Targets
  /\ Inner \in [Targets -> Targets \cup {None}]
  /\ Rounds \in Nat
  /\ Listed \subseteq Names

VARIABLES
  at,        \* where DllMain is
  next,      \* the next pointer in Order
  handed,    \* setBlacklistedDlls has returned
  narrow,    \* blacklistedDlls
  wide,      \* blacklistedDllsW
  call       \* what each caller is doing

lib == <<at, next, handed, narrow, wide>>
libVars == <<vars, lib, call>>

Idle == [stage |-> "idle"]

\* A call of LoadLibrary for a name: at a function's first instruction or inside
\* its first instructions, through with the test of a hook, or at its end.  It
\* began early, before DllMain's commit was over, or was settled, or guarded: with
\* hooks and list in place.  rounds: the hooks on its stack that called themselves.
Called(stages, places) ==
  [stage : stages, place : places, name : Names,
   begun : {"early", "settled", "guarded"}, rounds : 0 .. Rounds]

Call == Called({"at", "inside"}, Targets) \cup Called({"through"}, Pointers)
          \cup Called({"loaded", "refused", "torn", "overflow"}, {None})

LibInit ==
  /\ Init
  /\ at = "out" /\ next = 1 /\ handed = FALSE
  /\ narrow = {} /\ wide = {}
  /\ call = [c \in Callers |-> Idle]

-----------------------------------------------------------------------------
\* DllMain.

\* DLL_PROCESS_ATTACH; without both modules nothing is hooked, at any time.
ProcessAttach ==
  /\ at = "out"
  /\ \/ at' = "attach" /\ Begin(Loader)
     \/ at' = "bare" /\ UNCHANGED vars
  /\ UNCHANGED <<next, handed, narrow, wide, call>>

\* Mutant of LoadAndAttach: no function is hooked twice.
AttachUnlessKnown ==
  /\ at = "attach" /\ next <= Len(Order)
  /\ \/ /\ \A i \in DOMAIN ops : ops[i].target # ptr[Order[next]]
        /\ Attach(Loader, Order[next]) \/ AttachFails(Loader, Order[next])
     \/ (failed \/ \E i \in DOMAIN ops : ops[i].target = ptr[Order[next]]) /\ UNCHANGED vars
  /\ next' = next + 1
  /\ UNCHANGED <<at, handed, narrow, wide, call>>

\* Mutant of LoadAndAttach: a failed attach is tried once more.
AttachTwice ==
  /\ at = "attach" /\ next <= Len(Order)
  /\ \/ Attach(Loader, Order[next]) /\ next' = next + 1
     \/ Attach(Loader, Order[next]) /\ next' = next
     \/ failed /\ UNCHANGED vars /\ next' = next + 1
  /\ UNCHANGED <<at, handed, narrow, wide, call>>

\* What DetourAttach returns is not looked at.
LoadAndAttach ==
  /\ at = "attach" /\ next <= Len(Order)
  /\ \/ Attach(Loader, Order[next])
     \/ AttachFails(Loader, Order[next])
     \/ failed /\ UNCHANGED vars
  /\ next' = next + 1
  /\ UNCHANGED <<at, handed, narrow, wide, call>>

\* Mutant of DetachNext: the hooks of the last pointer are left alone.
DetachAllButLast ==
  /\ at = "detach" /\ next <= Len(Order)
  /\ \/ next < Len(Order) /\ Detach(Loader, Order[next])
     \/ DetachFails(Loader)
     \/ (failed \/ next = Len(Order)) /\ UNCHANGED vars
  /\ next' = next + 1
  /\ UNCHANGED <<at, handed, narrow, wide, call>>

DetachNext ==
  /\ at = "detach" /\ next <= Len(Order)
  /\ \/ Detach(Loader, Order[next])
     \/ DetachFails(Loader)
     \/ failed /\ UNCHANGED vars
  /\ next' = next + 1
  /\ UNCHANGED <<at, handed, narrow, wide, call>>

\* The commit at the end of either transaction; an error is printed only.
CommitHooks ==
  /\ at \in {"attach", "detach"} /\ next > Len(Order)
  /\ Commit(Loader)
  /\ UNCHANGED <<lib, call>>

Committing ==
  /\ Engine(Loader)
  /\ IF owner' = NoThread
     THEN at' = (IF at = "attach" THEN "in" ELSE "gone") /\ next' = 1
     ELSE UNCHANGED <<at, next>>
  /\ UNCHANGED <<handed, narrow, wide, call>>

\* Mutant of ProcessDetach: the library is unloaded while other threads run.
UnloadEarly ==
  /\ at = "in"
  /\ at' = "detach"
  /\ Begin(Loader)
  /\ UNCHANGED <<next, handed, narrow, wide, call>>

\* DLL_PROCESS_DETACH: the JVM does not unload the library, so that this is the
\* end of the process, when no other thread runs any more.
ProcessDetach ==
  /\ at = "in"
  /\ at' = "detach"
  /\ Begin(Loader)
  /\ call' = [c \in Callers |-> Idle]
  /\ UNCHANGED <<next, handed, narrow, wide>>

-----------------------------------------------------------------------------
\* Mutant of SetBlacklistedDlls: one set for both kinds of strings.
SetNarrowOnly ==
  /\ at \in {"in", "bare"} /\ ~handed
  /\ handed' = TRUE
  /\ narrow' = Listed
  /\ UNCHANGED <<vars, at, next, wide, call>>

\* main hands the list over once, before the splash screen (initDllBlacklist).
\* The hooks read under the shared lock, so that they see it whole.
SetBlacklistedDlls ==
  /\ at \in {"in", "bare"} /\ ~handed
  /\ handed' = TRUE
  /\ narrow' = Listed
  /\ wide' = wide \cup Listed
  /\ UNCHANGED <<vars, at, next, call>>

IsBlacklistedDll(p, n) == n \in IF p \in Wide THEN wide ELSE narrow

\* The threads that call LoadLibrary.

Becomes(c, r) == call' = [call EXCEPT ![c] = r] /\ UNCHANGED <<vars, lib>>

Goes(c, s, x) == Becomes(c, [call[c] EXCEPT !.stage = s, !.place = x])

Ends(c, s) == Goes(c, s, None)

Hooked(g) == code[g] # Original

CallLoadLibrary(c, g, n) ==
  /\ at \in {"out", "attach", "in", "bare"}
  /\ call[c].stage = "idle"
  /\ Becomes(c, [stage |-> "at", place |-> g, name |-> n, rounds |-> 0,
                 begun |-> CASE at \in {"out", "attach"} -> "early"
                             [] at = "in" /\ handed /\ Hooked(g) -> "guarded"
                             [] OTHER -> "settled"])

\* The original function, which loads the library or has another one do so.
RunOriginal(c, g) ==
  IF Inner[g] = None THEN Ends(c, "loaded") ELSE Goes(c, "at", Inner[g])

\* At a function's first instruction: one of the original, or the jump to the
\* hook, which tests the name and calls through its pointer.
EnterFunction(c) ==
  /\ call[c].stage = "at"
  /\ LET g == call[c].place
     IN  \/ ~Hooked(g) /\ Goes(c, "inside", g)
         \/ /\ Hooked(g)
            /\ LET p == tramp[code[g]].pointer
               IN  IF IsBlacklistedDll(p, call[c].name)
                   THEN Ends(c, "refused")
                   ELSE Goes(c, "through", p)

\* Past the instructions that a hook overwrites.
RunOn(c) ==
  /\ call[c].stage = "inside"
  /\ ~Hooked(call[c].place)
  /\ RunOriginal(c, call[c].place)

\* Commit suspends no thread but its own (DllMain enlists no other): a call that
\* is inside the instructions meets the middle of a jump, and one that comes
\* while the jump is being written may meet a part of it.
Tear(c) ==
  /\ \/ call[c].stage = "inside" /\ Hooked(call[c].place)
     \/ call[c].stage \in {"at", "inside"} /\ Writing(call[c].place)
  /\ Ends(c, "torn")

\* A hook calls the function it stands in for, with one more frame on the stack.
CallAgain(c, g) ==
  IF call[c].rounds < Rounds
  THEN Becomes(c, [call[c] EXCEPT !.stage = "at", !.place = g, !.rounds = @ + 1])
  ELSE Ends(c, "overflow")

\* Mutant of CallThrough: the hook calls the function by its name.
CallByName(c) ==
  /\ call[c].stage = "through"
  /\ CallAgain(c, Home[call[c].place])

\* The pointer leads to the function itself until commit has written it: the
\* call then meets the hook again.
CallThrough(c) ==
  /\ call[c].stage = "through"
  /\ LET x == ptr[call[c].place]
     IN  \/ x \in Trampolines /\ RunOriginal(c, tramp[x].target)
         \/ x \in Targets /\ CallAgain(c, x)

CallReturns(c) ==
  /\ call[c].stage \in {"loaded", "refused"}
  /\ Becomes(c, Idle)

-----------------------------------------------------------------------------
DllMain == ProcessAttach \/ LoadAndAttach \/ DetachNext \/ CommitHooks \/ Committing

Caller(c) ==
  EnterFunction(c) \/ RunOn(c) \/ Tear(c) \/ CallThrough(c) \/ CallReturns(c)

LibNext ==
  \/ DllMain \/ ProcessDetach \/ SetBlacklistedDlls
  \/ \E c \in Callers :
       \/ Caller(c)
       \/ \E g \in Targets, n \in Names : CallLoadLibrary(c, g, n)

LibSpec == LibInit /\ [][LibNext]_libVars

\* A thread that can run does run: the loader's, and each caller's.  Nothing is
\* assumed of the end of the process, or of how often libraries are loaded.
LibFairSpec ==
  /\ LibSpec
  /\ WF_libVars(DllMain)
  /\ \A c \in Callers : WF_libVars(Caller(c))

-----------------------------------------------------------------------------
LibTypeOK ==
  /\ at \in {"out", "attach", "in", "bare", "detach", "gone"}
  /\ next \in 1 .. Len(Order) + 1
  /\ handed \in BOOLEAN
  /\ narrow \subseteq Names /\ wide \subseteq Names
  /\ call \in [Callers -> Call \cup {Idle}]

\* DllMain uses Detours as its clients may: every step is one of a transaction
\* in which a pointer is named once and leads to code no hook was written to.
UsesDetours == Spec

\* The hooks are there together or not at all, though the result of every
\* single DetourAttach is ignored (macro LoadAndAttach).
HookedTogether ==
  at \in {"in", "bare"} =>
    \/ \A p \in Pointers : ptr[p] \in Trampolines /\ Hooked(Home[p])
    \/ \A p \in Pointers : ptr[p] = Home[p] /\ ~Hooked(Home[p])

\* With the hooks and the list in place, a listed library is not loaded by any
\* of the functions, directly or through another, with narrow or wide strings.
Enforced ==
  \A c \in Callers :
    call[c].stage = "loaded" => ~(call[c].begun = "guarded" /\ call[c].name \in Listed)

\* The hooks endanger only the calls that had begun when DllMain's commit was not
\* over, of threads that it did not suspend: later ones never meet code that is
\* being written, nor a hook that calls itself (order of Patch and Point, and no
\* unloading while threads run).
OnlyEarlyCallsCrash ==
  \A c \in Callers : call[c].stage \in {"torn", "overflow"} => call[c].begun = "early"

\* The library leaves Windows as it found it, unless a call fails at the end:
\* every operation that was queued for a function is undone, also where two
\* pointers lead to one function.
LeavesNoHook ==
  at = "gone" =>
    failed \/ /\ \A g \in Targets : ~Hooked(g)
              /\ ptr = Home
              /\ regions = {}

\* A call of LoadLibrary that began when DllMain's commit was over returns.  One
\* that began earlier returns or crashes: it does not go round for ever between a
\* function and the hook whose pointer is not written yet.
CallsEnd ==
  \A c \in Callers :
    /\ call[c].stage # "idle" ~> call[c].stage \in {"idle", "torn", "overflow"}
    /\ (call[c].stage # "idle" /\ call[c].begun # "early") ~> call[c].stage = "idle"
=============================================================================
