-------------------------------- MODULE Detours --------------------------------
(***************************************************************************)
(* The transactions of the Detours library, which liblauncher is linked     *)
(* with: a client thread begins a transaction, asks for functions to be     *)
(* hooked (attach) or released (detach), enlists the threads that run       *)
(* meanwhile, and commits.  Commit writes a jump over the first             *)
(* instructions of a function; the instructions it overwrites have been     *)
(* copied to a trampoline, through which the function can still be called.  *)
(*                                                                          *)
(* Data abstraction.  The code of a function is Original or a jump through  *)
(* a trampoline; the instructions that are moved are numbered from 0.  A    *)
(* detour is named by the pointer it is attached with.  The list of pending *)
(* operations is kept with its head last.  Trampolines are near enough to   *)
(* every target, and the call that restores a page's protection succeeds,   *)
(* as detours.cpp:1616 assumes.                                             *)
(***************************************************************************)
EXTENDS Naturals, Sequences

CONSTANTS
  Threads,   \* threads that use the library
  Workers,   \* threads that run code that may be hooked
  Pointers,  \* the variables a client passes as ppPointer
  Targets,   \* functions, by the address of their code
  Home,      \* the function each pointer points to at first
  Pages,     \* pages of memory
  Page,      \* the page of each function's first instructions
  Small,     \* functions too short to hold a jump
  Regions,   \* blocks of memory for trampolines
  Slots,     \* the trampolines of a region
  Moved,     \* how many instructions the jump overwrites
  Scanned,   \* how many of them begin in a trampoline's first sizeof(PVOID) bytes
  Original,  \* the code of a function as it was compiled
  NoThread, Free,
  Out,       \* a place in any other code
  Lost       \* a place in memory that is no longer a trampoline

Trampolines == Regions \X Slots

Jump == {Original} \cup Trampolines

Use == [pointer : Pointers, target : Targets, saved : Jump]

ASSUME DetoursAssumption ==
  /\ Home \in [Pointers -> Targets]
  /\ Page \in [Targets -> Pages]
  /\ Small \subseteq Targets
  /\ NoThread \notin Threads
  /\ Original \notin Trampolines
  /\ {Out, Lost} \cap ((Targets \cup Trampolines) \X Nat) = {}
  /\ Targets \cap Trampolines = {}
  /\ Free \notin Use
  /\ Moved \in Nat \ {0} /\ Scanned \in 1 .. Moved

VARIABLES
  owner,     \* s_nPendingThreadId
  failed,    \* s_nPendingError is not NO_ERROR
  ops,       \* s_pPendingOperations
  enlisted,  \* s_pPendingThreads: threads that are suspended
  missed,    \* those of them that commit does not move along
  stuck,     \* threads that are suspended and on no list
  phase,     \* where the owner stands
  index,     \* the operation that commit works on
  freed,     \* commit has freed a trampoline
  code,      \* what the first instructions of each function are
  ptr,       \* what each pointer points to
  tramp,     \* what each trampoline is used for
  regions,   \* s_pRegions
  writable,  \* regions that are PAGE_EXECUTE_READWRITE
  prot,      \* protection of each page: "RX" or "RWX"
  eip,       \* the instruction each worker is at
  before,    \* history: code and pointers when the transaction began
  asked      \* history: its requests were all "queued", or one was "refused" and
             \* left no error behind, or one "failed" and did

suspended == <<enlisted, missed, stuck>>
transaction == <<owner, failed, ops, phase, index, freed, before, asked>>
memory == <<code, ptr, tramp, prot>>
blocks == <<regions, writable>>
vars == <<transaction, suspended, memory, blocks, eip>>

Operation == [remove : BOOLEAN, pointer : Pointers, target : Targets,
              tramp : Trampolines, perm : {"RX", "RWX"}]

Init ==
  /\ owner = NoThread /\ failed = FALSE /\ ops = << >> /\ asked = "queued"
  /\ enlisted = {} /\ missed = {} /\ stuck = {}
  /\ phase = "idle" /\ index = 0 /\ freed = FALSE
  /\ code = [g \in Targets |-> Original]
  /\ ptr = Home
  /\ tramp = [k \in Trampolines |-> Free]
  /\ regions = {} /\ writable = {}
  /\ prot = [p \in Pages |-> "RX"]
  /\ eip = [w \in Workers |-> Out]
  /\ before = [code |-> code, ptr |-> ptr]

-----------------------------------------------------------------------------
\* The list of pending operations.

\* Mutant of Push: operations are worked on in the order they were asked for.
PushBehind(o) == ops' = <<o>> \o ops

Push(o) == ops' = Append(ops, o)

-----------------------------------------------------------------------------
\* DetourTransactionBegin.  Regions made writable before an error stay so; the
\* threads on the list are forgotten, and nobody resumes them.
Begin(t) ==
  /\ owner = NoThread
  /\ owner' = t
  /\ phase' = "open"
  /\ ops' = << >> /\ index' = 0 /\ freed' = FALSE
  /\ enlisted' = {} /\ missed' = {} /\ stuck' = stuck \cup enlisted
  /\ before' = [code |-> code, ptr |-> ptr]
  /\ \/ failed' = FALSE /\ asked' = "queued" /\ writable' = regions
     \/ /\ failed' = TRUE /\ asked' = "failed"
        /\ writable' \in {w \in SUBSET regions : w # regions}
  /\ UNCHANGED <<memory, regions, eip>>

\* s_nPendingError is set, before the owner commits or after.
Fail ==
  /\ failed' = TRUE
  /\ asked' = IF phase = "open" THEN "failed" ELSE asked
  /\ UNCHANGED <<owner, ops, phase, index, freed, before, suspended, memory, eip>>

\* DetourUpdateThread returns at once after a failure; who calls it, and whether
\* a transaction is open, is not tested.  The owner cannot call it in mid-commit.
MayEnlist(t) == (t # owner \/ phase = "open") /\ ~failed

\* A thread is suspended and put at the head of the list, where commit's second
\* loop finds it unless it has begun.  The list is not locked: of two threads
\* that are put there at once one may be lost.
Enlist(t, w) ==
  /\ MayEnlist(t)
  /\ \/ /\ enlisted' = enlisted \cup {w}
        /\ missed' = IF phase \in {"move", "restore", "undo"} THEN missed \cup {w} ELSE missed
        /\ UNCHANGED stuck
     \/ /\ Threads # {t}
        /\ stuck' = stuck \cup {w}
        /\ UNCHANGED <<enlisted, missed>>
  /\ UNCHANGED <<transaction, memory, blocks, eip>>

EnlistFails(t) == MayEnlist(t) /\ Fail /\ UNCHANGED blocks

\* DetourAttachEx and DetourDetach return at once after a failure, and when
\* another thread owns the transaction.
MayAsk(t) == owner = t /\ phase = "open" /\ ~failed

\* Trampolines that are free in the regions of s.
Vacant(s) == {k \in s \X Slots : tramp[k] = Free}

\* detour_alloc_trampoline: a new region only when the others are full.
Allocate(k) ==
  \/ k \in Vacant(regions) /\ UNCHANGED blocks
  \/ /\ Vacant(regions) = {}
     /\ k \in Vacant(Regions \ regions)
     /\ regions' = regions \cup {k[1]}
     /\ writable' = writable \cup {k[1]}

\* DetourAttachEx: copy the instructions, unprotect the page, queue.
Attach(t, p) ==
  /\ MayAsk(t)
  /\ ptr[p] \notin Small
  /\ \E k \in Trampolines :
       /\ Allocate(k)
       /\ tramp' = [tramp EXCEPT ![k] =
                      [pointer |-> p, target |-> ptr[p], saved |-> code[ptr[p]]]]
       /\ Push([remove |-> FALSE, pointer |-> p, target |-> ptr[p], tramp |-> k,
                perm |-> prot[Page[ptr[p]]]])
  /\ prot' = [prot EXCEPT ![Page[ptr[p]]] = "RWX"]
  /\ UNCHANGED <<owner, failed, phase, index, freed, before, asked, suspended, code, ptr, eip>>

\* No memory, a function that is too short or a page that cannot be written: the
\* trampoline is given back, a region made for it stays.
AttachFails(t, p) ==
  /\ MayAsk(t)
  /\ Fail
  /\ \/ UNCHANGED blocks
     \/ \E k \in Trampolines : Allocate(k)

\* A function that would be its own hook is refused by way of fail while error
\* is still NO_ERROR: nothing is queued, and no error is pending.
AttachRefused(t) ==
  /\ MayAsk(t)
  /\ asked' = "refused"
  /\ UNCHANGED <<owner, failed, ops, phase, index, freed, before, suspended, memory, blocks, eip>>

\* DetourDetach.  The pointer must be a trampoline that leads to this detour.
Attached(p) == ptr[p] \in Trampolines /\ tramp[ptr[p]] # Free /\ tramp[ptr[p]].pointer = p

Detach(t, p) ==
  /\ MayAsk(t)
  /\ Attached(p)
  /\ LET g == tramp[ptr[p]].target
     IN  /\ Push([remove |-> TRUE, pointer |-> p, target |-> g, tramp |-> ptr[p],
                  perm |-> prot[Page[g]]])
         /\ prot' = [prot EXCEPT ![Page[g]] = "RWX"]
  /\ UNCHANGED <<owner, failed, phase, index, freed, before, asked, suspended, code, ptr,
                 tramp, blocks, eip>>

DetachFails(t) == MayAsk(t) /\ Fail /\ UNCHANGED blocks

-----------------------------------------------------------------------------
\* DetourTransactionCommitEx and DetourTransactionAbort.

Aside == UNCHANGED <<owner, failed, ops, freed, before, asked>>

\* From the open transaction to phase p, with the head of the list.
Enter(p) ==
  /\ phase' = p
  /\ index' = Len(ops)
  /\ Aside
  /\ UNCHANGED <<suspended, memory, blocks, eip>>

\* On to the next operation in phase p, or after the last one to phase q.
Onward(p, q) ==
  /\ Aside
  /\ \/ index > 1 /\ phase' = p /\ index' = index - 1
     \/ index = 1 /\ phase' = q /\ index' = Len(ops)

\* Mutant of Commit: what could be queued is done, whatever failed.
CommitRegardless(t) ==
  /\ owner = t /\ phase = "open"
  /\ Enter(IF ops = << >> THEN "restore" ELSE "apply")

\* Mutant of Commit: no test for an empty list.
CommitEmpty(t) ==
  /\ owner = t /\ phase = "open"
  /\ Enter(IF failed THEN "undo" ELSE "apply")

\* After a failure the whole transaction is aborted.
Commit(t) ==
  /\ owner = t /\ phase = "open"
  /\ Enter(IF failed THEN "undo" ELSE IF ops = << >> THEN "restore" ELSE "apply")

Abort(t) == owner = t /\ phase = "open" /\ Enter("undo")

\* Commit's first loop writes the code of a function ...
Patch(t) ==
  /\ owner = t /\ phase = "apply"
  /\ LET o == ops[index]
     IN  code' = [code EXCEPT ![o.target] =
                    IF o.remove THEN tramp[o.tramp].saved ELSE o.tramp]
  /\ phase' = "point"
  /\ Aside
  /\ UNCHANGED <<index, suspended, ptr, tramp, prot, blocks, eip>>

\* Mutant of Point: a detached pointer keeps pointing to its trampoline.
PointForgets(t) ==
  /\ owner = t /\ phase = "point"
  /\ LET o == ops[index]
     IN  ptr' = [ptr EXCEPT ![o.pointer] = o.tramp]
  /\ Onward("apply", "move")
  /\ UNCHANGED <<suspended, code, tramp, prot, blocks, eip>>

\* ... and then the client's pointer.
Point(t) ==
  /\ owner = t /\ phase = "point"
  /\ LET o == ops[index]
     IN  ptr' = [ptr EXCEPT ![o.pointer] = IF o.remove THEN o.target ELSE o.tramp]
  /\ Onward("apply", "move")
  /\ UNCHANGED <<suspended, code, tramp, prot, blocks, eip>>

\* A thread at e is in the code at x.
Inside(e, x) == e \notin {Out, Lost} /\ e[1] = x

\* Mutant of Follow: threads stay where they are.
FollowNot(o, e) == e

\* Where a thread that is at e goes on after operation o: at the same
\* instruction, wherever that is now.
Follow(o, e) ==
  CASE o.remove /\ Inside(e, o.tramp) /\ e[2] < Scanned -> <<o.target, e[2]>>
    [] ~o.remove /\ Inside(e, o.target) -> <<o.tramp, e[2]>>
    [] OTHER -> e

\* The second loop, for all threads at a time: those that are suspended do not
\* move by themselves.  A thread whose context cannot be had stays where it is.
UpdateThreads(t) ==
  /\ owner = t /\ phase = "move"
  /\ \E m \in SUBSET enlisted : missed' = missed \cup m
  /\ eip' = [w \in Workers |->
               IF w \in enlisted \ missed' THEN Follow(ops[index], eip[w]) ELSE eip[w]]
  /\ Onward("move", "restore")
  /\ UNCHANGED <<enlisted, stuck, memory, blocks>>

\* Mutant of GivesBack: an abort keeps the trampolines of attaches.
KeepsAttached(o) == o.remove /\ phase = "restore"

\* Commit gives back the trampolines of detaches, abort those of attaches.
GivesBack(o) == o.remove <=> phase = "restore"

\* The loop that restores protections and gives back trampolines.
Restore(t) ==
  /\ owner = t /\ phase \in {"restore", "undo"} /\ index > 0
  /\ LET o == ops[index]
     IN  /\ prot' = [prot EXCEPT ![Page[o.target]] = o.perm]
         /\ IF GivesBack(o)
            THEN /\ tramp' = [tramp EXCEPT ![o.tramp] = Free]
                 /\ eip' = [w \in Workers |->
                              IF Inside(eip[w], o.tramp) THEN Lost ELSE eip[w]]
            ELSE UNCHANGED <<tramp, eip>>
         /\ freed' = (freed \/ (o.remove /\ phase = "restore"))
  /\ index' = index - 1
  /\ UNCHANGED <<owner, failed, ops, phase, before, asked, suspended, code, ptr, blocks>>

\* Free regions that are empty, seal the others, resume the threads, of which
\* some may fail to go on.
Finish(t) ==
  /\ owner = t /\ phase \in {"restore", "undo"} /\ index = 0
  /\ regions' = IF freed
                THEN {r \in regions : \E s \in Slots : tramp[<<r, s>>] # Free}
                ELSE regions
  /\ writable' = {}
  /\ ops' = << >> /\ enlisted' = {} /\ missed' = {}
  /\ \E m \in SUBSET enlisted : stuck' = stuck \cup m
  /\ owner' = NoThread
  /\ phase' = "idle" /\ freed' = FALSE
  /\ before' = [code |-> code, ptr |-> ptr] /\ asked' = "queued"
  /\ UNCHANGED <<failed, index, memory, eip>>

-----------------------------------------------------------------------------
\* Clients and the other threads.

\* The clients of the library in this repository name a pointer once in a
\* transaction, and hook a function that no earlier transaction has hooked.  A
\* thread that is suspended is not enlisted again.
Named(p) == \E i \in DOMAIN ops : ops[i].pointer = p

Untouched(p) == ptr[p] \in Targets /\ code[ptr[p]] = Original

\* The jump over a function's first instructions is being written, byte by byte.
Writing(g) == phase = "apply" /\ ops[index].target = g

\* A thread at e finds there the code it expects.
Sound(e) ==
  /\ e # Lost
  /\ \A g \in Targets : Inside(e, g) => e[2] = 0 \/ code[g] = Original

Client(t) ==
  \/ Begin(t) \/ Commit(t) \/ Abort(t)
  \/ \E p \in Pointers :
       /\ ~Named(p)
       /\ \/ Untouched(p) /\ (Attach(t, p) \/ AttachFails(t, p))
          \/ Detach(t, p)
  \/ AttachRefused(t) \/ DetachFails(t)
  \/ \E w \in Workers \ (enlisted \cup stuck) : Enlist(t, w)
  \/ EnlistFails(t)

Engine(t) == Patch(t) \/ Point(t) \/ UpdateThreads(t) \/ Restore(t) \/ Finish(t)

\* Where a thread that runs at e is next: a jump leads to a hook, which is other
\* code, and among bytes that were overwritten under it a thread is lost.
NextPlace(e) ==
  CASE ~Sound(e) -> Lost
    [] \E g \in Targets : Inside(e, g) /\ code[g] # Original -> Out
    [] OTHER -> IF e[2] + 1 < Moved THEN <<e[1], e[2] + 1>> ELSE Out

\* A thread that is not suspended calls a function, or the original of a hooked
\* one through its trampoline, and goes on to its next instruction.
Run(w) ==
  /\ w \notin enlisted \cup stuck
  /\ eip[w] # Lost
  /\ \/ /\ eip[w] = Out
        /\ \/ \E g \in Targets : eip' = [eip EXCEPT ![w] = <<g, 0>>]
           \/ \E p \in Pointers :
                ptr[p] \in Trampolines /\ eip' = [eip EXCEPT ![w] = <<ptr[p], 0>>]
     \/ eip[w] # Out /\ eip' = [eip EXCEPT ![w] = NextPlace(eip[w])]
     \/ /\ \E g \in Targets : Inside(eip[w], g) /\ Writing(g)
        /\ eip' = [eip EXCEPT ![w] = Lost]
  /\ UNCHANGED <<transaction, suspended, memory, blocks>>

Next ==
  \/ \E t \in Threads : Client(t) \/ Engine(t)
  \/ \E w \in Workers : Run(w)

Spec == Init /\ [][Next]_vars

-----------------------------------------------------------------------------
Places == {Out, Lost} \cup ((Targets \cup Trampolines) \X (0 .. Moved - 1))

TypeOK ==
  /\ owner \in Threads \cup {NoThread}
  /\ failed \in BOOLEAN
  /\ ops \in Seq(Operation)
  /\ enlisted \subseteq Workers /\ missed \subseteq enlisted /\ stuck \subseteq Workers
  /\ phase \in {"idle", "open", "apply", "point", "move", "restore", "undo"}
  /\ index \in Nat
  /\ phase \in {"apply", "point", "move"} => index \in 1 .. Len(ops)
  /\ phase \in {"restore", "undo"} => index \in 0 .. Len(ops)
  /\ freed \in BOOLEAN
  /\ code \in [Targets -> Jump]
  /\ ptr \in [Pointers -> Targets \cup Trampolines]
  /\ tramp \in [Trampolines -> Use \cup {Free}]
  /\ regions \subseteq Regions
  /\ writable \subseteq regions
  /\ prot \in [Pages -> {"RX", "RWX"}]
  /\ eip \in [Workers -> Places]
  /\ before \in [code : [Targets -> Jump],
                 ptr : [Pointers -> Targets \cup Trampolines]]
  /\ asked \in {"queued", "refused", "failed"}

\* When no transaction is under way no page of code and no trampoline is left
\* writable, though functions share pages, a page is unprotected several times
\* in a transaction, and transactions fail half-way (the lists of operations of
\* DetourAttachEx, DetourDetach, CommitEx and Abort).
Sealed ==
  owner = NoThread => writable = {} /\ \A g \in Pages : prot[g] = "RX"

\* At every moment, in the middle of a commit too, a hooked function jumps
\* through a trampoline that is in use, and a client's pointer that leads through
\* a trampoline reaches its own function (order of Patch, Point and Restore).
Callable ==
  /\ \A g \in Targets :
       code[g] # Original => tramp[code[g]] # Free /\ tramp[code[g]].target = g
  /\ \A p \in Pointers : ptr[p] \in Trampolines =>
       /\ tramp[ptr[p]] # Free
       /\ tramp[ptr[p]].target = Home[p]
       /\ tramp[ptr[p]].saved = Original

\* Outside a transaction every trampoline in use is some client's way to the
\* original function: none is leaked by a commit or an abort.
NoTrampolineLost ==
  owner = NoThread =>
    \A k \in Trampolines : tramp[k] # Free => ptr[tramp[k].pointer] = k

\* No operation of the transaction before i is on the function of operation i.
LastOnItsFunction(i) == \A j \in 1 .. i - 1 : ops[j].target # ops[i].target

\* The operations have been carried out, to code c and pointers x: of several on
\* one function the one that was asked for first is carried out last.
CarriedOut(c, x) ==
  \A i \in DOMAIN ops :
    LET o == ops[i]
    IN  /\ x[o.pointer] = IF o.remove THEN o.target ELSE o.tramp
        /\ LastOnItsFunction(i) =>
             c[o.target] = IF o.remove THEN Original ELSE o.tramp

AsFound(c, x) == c = before.code /\ x = before.ptr

\* A transaction ends with everything done that was queued, or with every
\* function and every pointer as it found them; with the latter if an error was
\* pending when its owner committed.  That an error which another thread causes
\* during the commit comes too late makes no difference to it (CommitEx tests
\* s_nPendingError once).
AllOrNothing ==
  [][owner # NoThread /\ owner' = NoThread =>
       \/ AsFound(code', ptr')
       \/ asked # "failed" /\ CarriedOut(code', ptr')]_vars

\* "If any of the pending operations failed, then we abort the whole transaction"
\* (detours.cpp:1689).  An attach that was refused leaves no error behind, and
\* the other operations are carried out.  TLC refutes this; no run states it.
AbortsWhole ==
  [][owner # NoThread /\ owner' = NoThread /\ asked # "queued" => AsFound(code', ptr')]_vars

\* Where an earlier transaction has overwritten the code under a thread that it
\* did not suspend.
Astray(w) ==
  \E g \in Targets : Inside(eip[w], g) /\ before.code[g] # Original

\* A thread that was enlisted before commit went through the list, by whatever
\* thread, and whose context could be had, is resumed where its code still is.
\* The exception is one that is further in a trampoline than commit looks:
\* sizeof(o->pTrampoline) is the size of a pointer (detours.cpp:1867), and the
\* trampoline is freed.
EnlistedFollow ==
  [][\A w \in enlisted \ missed :
       /\ eip'[w] = Lost => eip[w] = Lost \/ eip[w][2] >= Scanned
       /\ owner # NoThread /\ owner' = NoThread =>
            eip[w] = Lost \/ Sound(eip[w]) \/ Astray(w)]_vars
=============================================================================
