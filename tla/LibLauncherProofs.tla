-------------------------- MODULE LibLauncherProofs --------------------------
(***************************************************************************)
(* Proofs about LibLauncher for any exported functions, whichever of them   *)
(* are the same, any names and any number of callers.  They rest on what    *)
(* DetoursProofs shows of the library: LibLauncher keeps to its rules.      *)
(***************************************************************************)
EXTENDS LibLauncher, DetoursProofs

InPlace ==
  \A p \in Pointers : ptr[p] \in Trampolines /\ Hooked(Home[p])

Bare ==
  \A p \in Pointers : ptr[p] = Home[p] /\ ~Hooked(Home[p])

\* The operations are those of DllMain so far: all of one kind, of the pointers
\* before the next one, and of all of them if nothing failed.
InOrder ==
  owner # NoThread =>
    /\ at \in {"attach", "detach"}
    /\ \A i \in DOMAIN ops :
         /\ ops[i].remove <=> at = "detach"
         /\ \E j \in 1 .. next - 1 : ops[i].pointer = Order[j]
    /\ ~failed => \A j \in 1 .. next - 1 : \E i \in DOMAIN ops : ops[i].pointer = Order[j]
    /\ phase # "open" => next = Len(Order) + 1
    /\ phase # "open" => (phase = "undo" <=> failed)

\* Between transactions.
Outside ==
  /\ owner = NoThread => at \notin {"attach", "detach"} /\ next = 1
  /\ at \in {"out", "bare"} => Bare
  /\ at = "in" => InPlace \/ Bare
  /\ at = "gone" => failed \/ (ptr = Home /\ regions = {} /\ \A g \in Targets : ~Hooked(g))

\* During them.
AttachSoFar ==
  at = "attach" =>
    /\ phase \in {"open", "undo"} => Bare
    /\ \A i \in DOMAIN ops :
         /\ Patched(i) => Hooked(ops[i].target)
         /\ Pointed(i) => ptr[ops[i].pointer] \in Trampolines
         /\ ops[i].target = Home[ops[i].pointer]

DetachSoFar ==
  at = "detach" =>
    /\ \A i \in DOMAIN ops :
         Pointed(i) => ptr[ops[i].pointer] = Home[ops[i].pointer]
    /\ phase = "restore" /\ index < Len(ops) => freed

\* Memory for trampolines is there only if there was something to attach.
RegionsUsed == regions # {} => Order # << >>

ListHanded ==
  /\ ~handed => wide = {}
  /\ handed => narrow = Listed /\ wide = Listed

\* A guarded call of a listed name is refused by the first hook it meets.
GuardedCalls ==
  \A c \in Callers : call[c].stage # "idle" /\ call[c].begun = "guarded" =>
    /\ at = "in" /\ handed
    /\ call[c].name \in Listed =>
         \/ call[c].stage = "refused"
         \/ call[c].stage = "at" /\ Hooked(call[c].place)

\* A call that began when the commit was over meets no other commit: the code
\* under it stays, and so does the pointer of the hook it is in.
SettledCalls ==
  \A c \in Callers : call[c].stage # "idle" /\ call[c].begun # "early" =>
    /\ at \in {"in", "bare"}
    /\ call[c].stage \notin {"torn", "overflow"}
    /\ call[c].stage = "inside" => ~Hooked(call[c].place)
    /\ call[c].stage = "through" => ptr[call[c].place] \in Trampolines

LibCore ==
  /\ InOrder /\ Outside /\ AttachSoFar /\ DetachSoFar /\ RegionsUsed
  /\ ListHanded /\ GuardedCalls /\ SettledCalls

LibInv == Inv /\ LibTypeOK /\ LibCore
-----------------------------------------------------------------------------
\* DllMain keeps to the rules of Detours.

LEMMA CallAt ==
  ASSUME NEW r \in Call
  PROVE  /\ r.name \in Names /\ r.begun \in {"early", "settled", "guarded"}
         /\ r.rounds \in 0 .. Rounds
         /\ r.stage \in {"at", "inside", "through", "loaded", "refused", "torn", "overflow"}
         /\ r.stage \in {"at", "inside"} => r.place \in Targets
         /\ r.stage = "through" => r.place \in Pointers
  BY DEF Call, Called

\* The places that belong to a stage of a call.
Fits(s, x) ==
  \/ s \in {"at", "inside"} /\ x \in Targets
  \/ s = "through" /\ x \in Pointers
  \/ s \in {"loaded", "refused", "torn", "overflow"} /\ x = None

\* A call that goes on to another place, or to another frame on the stack.
Went(r, s, x) == [r EXCEPT !.stage = s, !.place = x]

Deeper(r, g) == [r EXCEPT !.stage = "at", !.place = g, !.rounds = @ + 1]

LEMMA CallMoved ==
  ASSUME NEW r \in Call, NEW s, NEW x, Fits(s, x)
  PROVE  /\ Went(r, s, x) \in Call
         /\ Went(r, s, x).stage = s /\ Went(r, s, x).place = x
         /\ Went(r, s, x).name = r.name /\ Went(r, s, x).begun = r.begun
         /\ Went(r, s, x).rounds = r.rounds
  BY DEF Call, Called, Fits, Went

LEMMA CallDeeper ==
  ASSUME NEW r \in Call, NEW g \in Targets, r.rounds < Rounds
  PROVE  /\ Deeper(r, g) \in Call
         /\ Deeper(r, g).stage = "at" /\ Deeper(r, g).place = g
         /\ Deeper(r, g).name = r.name /\ Deeper(r, g).begun = r.begun
         /\ Deeper(r, g).rounds = r.rounds + 1
<1> DEFINE n == r.rounds + 1
           q == [r EXCEPT !.stage = "at", !.place = g, !.rounds = n]
<1>1. n \in 0 .. Rounds
  BY CallAt, LibLauncherAssumption
<1>2. Deeper(r, g) = q
  BY DEF Deeper
<1> HIDE DEF n
<1>3. /\ q \in Call /\ q.stage = "at" /\ q.place = g
      /\ q.name = r.name /\ q.begun = r.begun /\ q.rounds = n
  BY <1>1 DEF Call, Called
<1> QED
  BY <1>2, <1>3 DEF n

\* The pointer whose turn it is.
LEMMA NextPointer ==
  ASSUME LibInv, next <= Len(Order)
  PROVE  /\ next \in DOMAIN Order /\ Order[next] \in Pointers
         /\ next + 1 \in 1 .. Len(Order) + 1 /\ Order # << >>
<1> USE LibLauncherAssumption DEF LibInv, LibTypeOK
<1>1. Len(Order) \in Nat /\ DOMAIN Order = 1 .. Len(Order) /\ next \in 1 .. Len(Order)
  OBVIOUS
<1>2. Order[next] \in Pointers
  BY <1>1
<1> QED
  BY <1>1, <1>2

LEMMA NotNamed ==
  ASSUME LibInv, owner # NoThread, next <= Len(Order)
  PROVE  ~Named(Order[next])
<1> SUFFICES ASSUME NEW i \in DOMAIN ops, ops[i].pointer = Order[next] PROVE FALSE
  BY DEF Named
<1>1. PICK j \in 1 .. next - 1 : ops[i].pointer = Order[j]
  BY DEF LibInv, LibCore, InOrder
<1>2. next \in DOMAIN Order /\ j \in DOMAIN Order /\ j # next
  BY NextPointer, LibLauncherAssumption DEF LibInv, LibTypeOK
<1> QED
  BY <1>1, <1>2, LibLauncherAssumption

LEMMA HomeUntouched ==
  ASSUME LibInv, at = "attach", phase = "open", NEW p \in Pointers
  PROVE  Untouched(p) /\ ptr[p] = Home[p]
  BY DetoursAssumption
     DEF LibInv, LibCore, AttachSoFar, Bare, Hooked, Untouched

LEMMA StepOfDetours == LibInv /\ [LibNext]_libVars => [Next]_vars
<1> SUFFICES ASSUME LibInv, [LibNext]_libVars PROVE [Next]_vars
  OBVIOUS
<1> DEFINE p == Order[next]
<1>0. Loader \in Threads
  BY LibLauncherAssumption
<1>1. CASE ProcessAttach
  BY <1>0, <1>1 DEF ProcessAttach, Next, Client
<1>2. CASE LoadAndAttach
  <2>1. CASE failed /\ UNCHANGED vars
    BY <2>1
  <2>2. CASE Attach(Loader, p) \/ AttachFails(Loader, p)
    <3>1. owner # NoThread /\ phase = "open" /\ at = "attach" /\ next <= Len(Order)
      BY <1>0, <1>2, <2>2, DetoursAssumption DEF LoadAndAttach, Attach, AttachFails, MayAsk
    <3>2. p \in Pointers /\ ~Named(p) /\ Untouched(p)
      BY <3>1, NextPointer, NotNamed, HomeUntouched
    <3> HIDE DEF p
    <3> QED
      BY <1>0, <2>2, <3>2 DEF Next, Client
  <2> QED
    BY <1>2, <2>1, <2>2 DEF LoadAndAttach
<1>3. CASE DetachNext
  <2>1. CASE failed /\ UNCHANGED vars
    BY <2>1
  <2>2. CASE DetachFails(Loader)
    BY <1>0, <2>2 DEF Next, Client
  <2>3. CASE Detach(Loader, p)
    <3>1. owner # NoThread /\ next <= Len(Order)
      BY <1>0, <1>3, <2>3, DetoursAssumption DEF DetachNext, Detach, MayAsk
    <3>2. p \in Pointers /\ ~Named(p)
      BY <3>1, NextPointer, NotNamed
    <3> HIDE DEF p
    <3> QED
      BY <1>0, <2>3, <3>2 DEF Next, Client
  <2> QED
    BY <1>3, <2>1, <2>2, <2>3 DEF DetachNext
<1>4. CASE CommitHooks
  BY <1>0, <1>4 DEF CommitHooks, Next, Client
<1>5. CASE Committing
  BY <1>0, <1>5 DEF Committing, Next
<1>6. CASE ProcessDetach
  BY <1>0, <1>6 DEF ProcessDetach, Next, Client
<1>7. CASE SetBlacklistedDlls
  BY <1>7 DEF SetBlacklistedDlls
<1>8. ASSUME NEW c \in Callers,
             Caller(c) \/ \E g \in Targets, n \in Names : CallLoadLibrary(c, g, n)
      PROVE  UNCHANGED vars
  BY <1>8 DEF Caller, EnterFunction, RunOn, Tear, CallThrough, CallAgain, CallReturns,
              CallLoadLibrary, RunOriginal, Goes, Ends, Becomes
<1>9. CASE UNCHANGED libVars
  BY <1>9 DEF libVars
<1> QED
  BY <1>1, <1>2, <1>3, <1>4, <1>5, <1>6, <1>7, <1>8, <1>9 DEF LibNext, DllMain

-----------------------------------------------------------------------------
\* The invariant, action by action.

LEMMA LibInitially == LibInit => LibInv
<1> SUFFICES ASSUME LibInit PROVE LibInv
  OBVIOUS
<1> USE LibLauncherAssumption, DetoursAssumption
<1>1. Inv
  BY Initially DEF LibInit
<1>2. LibTypeOK
  <2>1. Len(Order) \in Nat /\ 1 \in 1 .. Len(Order) + 1
    OBVIOUS
  <2>2. call \in [Callers -> Call \cup {Idle}]
    BY DEF LibInit
  <2> QED
    BY <2>1, <2>2 DEF LibInit, LibTypeOK
<1>3. Bare
  BY DEF LibInit, Init, Bare, Hooked
<1>4. LibCore
  BY <1>3 DEF LibInit, Init, LibCore, InOrder, Outside, AttachSoFar, DetachSoFar,
              RegionsUsed, ListHanded, GuardedCalls, SettledCalls, Idle
<1> QED
  BY <1>1, <1>2, <1>4 DEF LibInv

\* Steps of DllMain before and after the hooks are in place do not concern the
\* list and the calls.
LEMMA CallsKept ==
  ASSUME LibInv, at \notin {"in", "bare"}, UNCHANGED <<handed, narrow, wide, call>>
  PROVE  ListHanded' /\ GuardedCalls' /\ SettledCalls'
  BY DEF LibInv, LibCore, ListHanded, GuardedCalls, SettledCalls

LEMMA BareKept == ASSUME UNCHANGED <<code, ptr>> PROVE Bare' <=> Bare
  BY DEF Bare, Hooked

LEMMA ProcessAttachStep ==
  ASSUME LibInv, ProcessAttach
  PROVE  LibTypeOK' /\ LibCore'
<1> USE DEF ProcessAttach
<1>1. LibTypeOK'
  BY DEF LibInv, LibTypeOK
<1>2. ListHanded' /\ GuardedCalls' /\ SettledCalls'
  BY CallsKept
<1>3. Bare /\ owner = NoThread /\ next = 1 /\ next' = 1
  BY DEF LibInv, LibCore, Outside, InOrder
<1>4. CASE at' = "attach" /\ Begin(Loader)
  <2>1. /\ UNCHANGED <<code, ptr, regions>> /\ phase' = "open" /\ ops' = << >>
        /\ DOMAIN ops' = {} /\ owner' # NoThread
    BY <1>4, LibLauncherAssumption, DetoursAssumption DEF Begin, memory
  <2>2. Bare'
    BY <1>3, <2>1, BareKept
  <2>3. InOrder' /\ Outside'
    BY <1>3, <1>4, <2>1 DEF InOrder, Outside
  <2>4. AttachSoFar' /\ DetachSoFar' /\ RegionsUsed'
    BY <1>4, <2>1, <2>2 DEF AttachSoFar, DetachSoFar, RegionsUsed, LibInv, LibCore
  <2> QED
    BY <1>1, <1>2, <2>3, <2>4 DEF LibCore
<1>5. CASE at' = "bare" /\ UNCHANGED vars
  <2>1. UNCHANGED <<owner, code, ptr, regions>> /\ Bare'
    BY <1>3, <1>5, BareKept DEF vars, transaction, memory, blocks
  <2>2. InOrder' /\ Outside'
    BY <1>3, <1>5, <2>1 DEF InOrder, Outside
  <2>3. AttachSoFar' /\ DetachSoFar' /\ RegionsUsed'
    BY <1>5, <2>1 DEF AttachSoFar, DetachSoFar, RegionsUsed, LibInv, LibCore
  <2> QED
    BY <1>1, <1>2, <2>2, <2>3 DEF LibCore
<1> QED
  BY <1>4, <1>5

\* A call of DllMain that queues an operation for the pointer whose turn it is.
LEMMA QueuedInOrder ==
  ASSUME LibInv, owner # NoThread, UNCHANGED <<owner, failed, phase, at>>, phase = "open",
         next <= Len(Order), next' = next + 1,
         NEW o \in Operation, ops' = Append(ops, o),
         o.remove <=> at = "detach", o.pointer = Order[next]
  PROVE  InOrder'
<1>1. /\ DOMAIN ops' = 1 .. Len(ops) + 1 /\ Len(ops) \in Nat /\ DOMAIN ops = 1 .. Len(ops)
      /\ \A i \in 1 .. Len(ops) : ops'[i] = ops[i]
      /\ ops'[Len(ops) + 1] = o
  BY PushSeq, OperationAt DEF LibInv, Inv, TypeOK
<1>2. next \in Nat /\ next >= 1 /\ next' - 1 = next
  BY NextPointer, LibLauncherAssumption DEF LibInv, LibTypeOK
<1>3. at \in {"attach", "detach"}
  BY DEF LibInv, LibCore, InOrder
<1>4. \A i \in DOMAIN ops' :
        /\ ops'[i].remove <=> at' = "detach"
        /\ \E j \in 1 .. next' - 1 : ops'[i].pointer = Order[j]
  <2> SUFFICES ASSUME NEW i \in DOMAIN ops'
               PROVE  /\ ops'[i].remove <=> at' = "detach"
                      /\ \E j \in 1 .. next' - 1 : ops'[i].pointer = Order[j]
    OBVIOUS
  <2>1. CASE i = Len(ops) + 1
    <3>1. next \in 1 .. next' - 1
      BY <1>2
    <3> QED
      BY <2>1, <3>1, <1>1
  <2>2. CASE i # Len(ops) + 1
    <3>1. i \in DOMAIN ops /\ ops'[i] = ops[i]
      BY <2>2, <1>1
    <3>2. PICK j \in 1 .. next - 1 : ops[i].pointer = Order[j]
      BY <3>1 DEF LibInv, LibCore, InOrder
    <3>3. j \in 1 .. next' - 1
      BY <1>2
    <3>4. ops[i].remove <=> at = "detach"
      BY <3>1 DEF LibInv, LibCore, InOrder
    <3> QED
      BY <3>1, <3>2, <3>3, <3>4
  <2> QED
    BY <2>1, <2>2
<1>5. ~failed' => \A j \in 1 .. next' - 1 : \E i \in DOMAIN ops' : ops'[i].pointer = Order[j]
  <2> SUFFICES ASSUME ~failed, NEW j \in 1 .. next' - 1
               PROVE  \E i \in DOMAIN ops' : ops'[i].pointer = Order[j]
    OBVIOUS
  <2>1. CASE j = next
    BY <2>1, <1>1
  <2>2. CASE j # next
    <3>1. j \in 1 .. next - 1
      BY <2>2, <1>2
    <3>2. PICK i \in DOMAIN ops : ops[i].pointer = Order[j]
      BY <3>1 DEF LibInv, LibCore, InOrder
    <3> QED
      BY <3>2, <1>1
  <2> QED
    BY <2>1, <2>2
<1> QED
  BY <1>3, <1>4, <1>5 DEF InOrder

\* One that queues none, because it fails now or has failed before.
LEMMA FailedInOrder ==
  ASSUME LibInv, owner # NoThread, UNCHANGED <<owner, ops, phase, at>>, failed',
         next <= Len(Order), next' = next + 1
  PROVE  InOrder'
<1>1. next \in Nat /\ Len(Order) \in Nat /\ phase = "open"
  BY LibLauncherAssumption DEF LibInv, LibTypeOK, LibCore, InOrder
<1>2. \A j \in 1 .. next - 1 : j \in 1 .. next' - 1
  BY <1>1
<1> QED
  BY <1>1, <1>2 DEF LibInv, LibCore, InOrder

LEMMA LoadAndAttachStep ==
  ASSUME LibInv, LoadAndAttach
  PROVE  LibTypeOK' /\ LibCore'
<1> DEFINE p == Order[next]
<1>1. /\ at = "attach" /\ at' = at /\ next <= Len(Order) /\ next' = next + 1
      /\ UNCHANGED <<handed, narrow, wide, call>>
  BY DEF LoadAndAttach
<1>2. p \in Pointers /\ next + 1 \in 1 .. Len(Order) + 1 /\ Order # << >>
  BY <1>1, NextPointer
<1>3. LibTypeOK'
  BY <1>1, <1>2 DEF LibInv, LibTypeOK
<1>4. ListHanded' /\ GuardedCalls' /\ SettledCalls'
  BY <1>1, CallsKept
<1>5. owner # NoThread /\ phase = "open" /\ DetachSoFar' /\ RegionsUsed'
  BY <1>1, <1>2, NextPointer, LibLauncherAssumption
     DEF LibInv, LibCore, LibTypeOK, InOrder, Outside, DetachSoFar, RegionsUsed
<1>6. /\ UNCHANGED <<owner, phase, code, ptr>>
      /\ \/ failed' /\ UNCHANGED ops
         \/ Attach(Loader, p) /\ UNCHANGED failed
  BY DEF LoadAndAttach, Attach, AttachFails, Fail, MayAsk, memory, vars, transaction
<1>7. InOrder'
  <2>1. CASE failed' /\ UNCHANGED ops
    BY <2>1, <1>1, <1>5, <1>6, FailedInOrder
  <2>2. CASE Attach(Loader, p) /\ UNCHANGED failed
    <3>1. PICK o \in Operation : ops' = Append(ops, o) /\ o.remove = FALSE /\ o.pointer = p
      <4>1. p \in Pointers /\ Inv
        BY <1>2 DEF LibInv
      <4> HIDE DEF p
      <4>2. PICK k \in Trampolines :
              Push([remove |-> FALSE, pointer |-> p, target |-> ptr[p], tramp |-> k,
                    perm |-> prot[Page[ptr[p]]]])
        BY <2>2 DEF Attach
      <4>3. ptr[p] \in Targets
        BY <1>1, <1>5, <4>1, HomeUntouched DEF Untouched
      <4>4. prot[Page[ptr[p]]] \in {"RX", "RWX"}
        BY <4>1, <4>3, DetoursAssumption DEF Inv, TypeOK
      <4> DEFINE o == [remove |-> FALSE, pointer |-> p, target |-> ptr[p], tramp |-> k,
                       perm |-> prot[Page[ptr[p]]]]
      <4>5. o \in Operation
        BY <4>1, <4>3, <4>4 DEF Operation
      <4>6. ops' = Append(ops, o) /\ o.remove = FALSE /\ o.pointer = p
        BY <4>2 DEF Push
      <4> HIDE DEF o
      <4> QED
        BY <4>5, <4>6
    <3> QED
      BY <2>2, <3>1, <1>1, <1>5, <1>6, QueuedInOrder
  <2> QED
    BY <1>6, <2>1, <2>2
<1>8. Bare'
  BY <1>1, <1>5, <1>6, BareKept DEF LibInv, LibCore, AttachSoFar
<1>9. Outside'
  BY <1>1, <1>5, <1>6 DEF Outside
<1>10. AttachSoFar'
  <2>1. \A i \in DOMAIN ops' : ops'[i].target = Home[ops'[i].pointer]
    <3>1. \A i \in DOMAIN ops : ops[i].target = Home[ops[i].pointer]
      BY <1>1 DEF LibInv, LibCore, AttachSoFar
    <3>2. CASE UNCHANGED ops
      BY <3>1, <3>2
    <3>3. CASE Attach(Loader, p)
      <4>1. p \in Pointers /\ ptr[p] = Home[p]
        BY <1>1, <1>2, <1>5, HomeUntouched
      <4> HIDE DEF p
      <4>2. PICK o : ops' = Append(ops, o) /\ o.pointer = p /\ o.target = ptr[p]
        BY <3>3 DEF Attach, Push
      <4>3. /\ DOMAIN ops' = 1 .. Len(ops) + 1 /\ Len(ops) \in Nat
            /\ DOMAIN ops = 1 .. Len(ops)
            /\ \A i \in 1 .. Len(ops) : ops'[i] = ops[i]
            /\ ops'[Len(ops) + 1] = o
        BY <4>2 DEF LibInv, Inv, TypeOK
      <4> QED
        BY <3>1, <4>1, <4>2, <4>3
    <3> QED
      BY <1>6, <3>2, <3>3
  <2>2. \A i : ~Patched(i)' /\ ~Pointed(i)'
    BY <1>5, <1>6 DEF Patched, Pointed
  <2> QED
    BY <1>8, <2>1, <2>2 DEF AttachSoFar
<1> QED
  BY <1>3, <1>4, <1>5, <1>7, <1>9, <1>10 DEF LibCore

LEMMA DetachNextStep ==
  ASSUME LibInv, DetachNext
  PROVE  LibTypeOK' /\ LibCore'
<1> DEFINE p == Order[next]
<1>1. /\ at = "detach" /\ at' = at /\ next <= Len(Order) /\ next' = next + 1
      /\ UNCHANGED <<handed, narrow, wide, call>>
  BY DEF DetachNext
<1>2. p \in Pointers /\ next + 1 \in 1 .. Len(Order) + 1 /\ Order # << >>
  BY <1>1, NextPointer
<1>3. LibTypeOK'
  BY <1>1, <1>2 DEF LibInv, LibTypeOK
<1>4. ListHanded' /\ GuardedCalls' /\ SettledCalls'
  BY <1>1, CallsKept
<1>5. owner # NoThread /\ phase = "open" /\ AttachSoFar' /\ RegionsUsed'
  BY <1>1, <1>2, NextPointer, LibLauncherAssumption
     DEF LibInv, LibCore, LibTypeOK, InOrder, Outside, AttachSoFar, RegionsUsed
<1>6. /\ UNCHANGED <<owner, phase, code, ptr>>
      /\ \/ failed' /\ UNCHANGED ops
         \/ Detach(Loader, p) /\ UNCHANGED failed
  <2>1. CASE Detach(Loader, p)
    BY <2>1 DEF Detach
  <2>2. CASE DetachFails(Loader)
    BY <2>2 DEF DetachFails, Fail, memory
  <2>3. CASE failed /\ UNCHANGED vars
    BY <2>3 DEF memory, vars, transaction
  <2> QED
    BY <2>1, <2>2, <2>3 DEF DetachNext
<1>7. InOrder'
  <2>1. CASE failed' /\ UNCHANGED ops
    BY <2>1, <1>1, <1>5, <1>6, FailedInOrder
  <2>2. CASE Detach(Loader, p) /\ UNCHANGED failed
    <3>1. PICK o \in Operation : ops' = Append(ops, o) /\ o.remove = TRUE /\ o.pointer = p
      <4>1. p \in Pointers /\ Inv
        BY <1>2 DEF LibInv
      <4> HIDE DEF p
      <4>2. /\ Attached(p)
            /\ Push([remove |-> TRUE, pointer |-> p, target |-> tramp[ptr[p]].target,
                     tramp |-> ptr[p], perm |-> prot[Page[tramp[ptr[p]].target]]])
        BY <2>2 DEF Detach
      <4>3. ptr[p] \in Trampolines /\ tramp[ptr[p]].target \in Targets
        BY <4>1, <4>2, UseAt DEF Attached, Inv
      <4>4. prot[Page[tramp[ptr[p]].target]] \in {"RX", "RWX"}
        BY <4>1, <4>3, DetoursAssumption DEF Inv, TypeOK
      <4> DEFINE o == [remove |-> TRUE, pointer |-> p, target |-> tramp[ptr[p]].target,
                       tramp |-> ptr[p], perm |-> prot[Page[tramp[ptr[p]].target]]]
      <4>5. o \in Operation
        BY <4>1, <4>3, <4>4 DEF Operation
      <4>6. ops' = Append(ops, o) /\ o.remove = TRUE /\ o.pointer = p
        BY <4>2 DEF Push
      <4> HIDE DEF o
      <4> QED
        BY <4>5, <4>6
    <3> QED
      BY <2>2, <3>1, <1>1, <1>5, <1>6, QueuedInOrder
  <2> QED
    BY <1>6, <2>1, <2>2
<1>8. Outside'
  BY <1>1, <1>5, <1>6 DEF Outside
<1>9. DetachSoFar'
  <2>1. \A i : ~Patched(i)' /\ ~Pointed(i)'
    BY <1>5, <1>6 DEF Patched, Pointed
  <2> QED
    BY <1>5, <1>6, <2>1 DEF DetachSoFar
<1> QED
  BY <1>3, <1>4, <1>5, <1>7, <1>8, <1>9 DEF LibCore

LEMMA CommitHooksStep ==
  ASSUME LibInv, CommitHooks
  PROVE  LibTypeOK' /\ LibCore'
<1>1. /\ at \in {"attach", "detach"} /\ next > Len(Order) /\ UNCHANGED <<lib, call>>
      /\ owner = Loader /\ phase = "open"
      /\ phase' = IF failed THEN "undo" ELSE IF ops = << >> THEN "restore" ELSE "apply"
      /\ index' = Len(ops)
      /\ UNCHANGED <<owner, failed, ops, freed, code, ptr, regions>>
  BY DEF CommitHooks, Commit, Enter, Aside, memory, blocks
<1>2. /\ owner # NoThread /\ next = Len(Order) + 1
      /\ UNCHANGED <<at, next, handed, narrow, wide>>
  BY <1>1, LibLauncherAssumption, DetoursAssumption DEF LibInv, LibTypeOK, lib
<1>3. Len(ops) \in Nat /\ DOMAIN ops = 1 .. Len(ops)
  BY OperationAt DEF LibInv, Inv
<1>4. LibTypeOK'
  BY <1>1, <1>2 DEF LibInv, LibTypeOK
<1>5. ListHanded' /\ GuardedCalls' /\ SettledCalls' /\ RegionsUsed'
  BY <1>1, <1>2, CallsKept DEF LibInv, LibCore, RegionsUsed
<1>6. InOrder' /\ Outside'
  BY <1>1, <1>2 DEF InOrder, Outside, LibInv, LibCore
<1>7. \A i \in DOMAIN ops : ~Patched(i)' /\ ~Pointed(i)'
  <2>1. phase' = "restore" => DOMAIN ops = {}
    BY <1>1
  <2> QED
    BY <2>1, <1>1, <1>3 DEF Patched, Pointed
<1>8. Bare' <=> Bare
  BY <1>1, BareKept
<1>9. AttachSoFar'
  BY <1>1, <1>2, <1>7, <1>8 DEF LibInv, LibCore, AttachSoFar
<1>10. DetachSoFar'
  BY <1>1, <1>2, <1>3, <1>7 DEF DetachSoFar
<1> QED
  BY <1>4, <1>5, <1>6, <1>9, <1>10 DEF LibCore

\* A step of commit that is not its last.
LEMMA CommittingKept ==
  ASSUME LibInv, Committing, owner # NoThread, UNCHANGED <<owner, failed, ops, regions>>,
         phase # "open", phase' # "open", phase' = "undo" <=> phase = "undo"
  PROVE  /\ LibTypeOK' /\ InOrder' /\ Outside' /\ RegionsUsed'
         /\ ListHanded' /\ GuardedCalls' /\ SettledCalls'
         /\ at \in {"attach", "detach"} /\ at' = at
<1>1. UNCHANGED <<at, next, handed, narrow, wide, call>> /\ at \in {"attach", "detach"}
  BY DEF Committing, LibInv, LibCore, InOrder
<1>2. LibTypeOK'
  BY <1>1 DEF LibInv, LibTypeOK
<1>3. ListHanded' /\ GuardedCalls' /\ SettledCalls' /\ RegionsUsed'
  BY <1>1, CallsKept DEF LibInv, LibCore, RegionsUsed
<1>4. InOrder' /\ Outside'
  BY <1>1 DEF InOrder, Outside, LibInv, LibCore
<1> QED
  BY <1>1, <1>2, <1>3, <1>4

\* What the operation that is worked on works on.
LEMMA AtIndex ==
  ASSUME LibInv, phase \in {"apply", "point", "move"}
  PROVE  /\ index \in DOMAIN ops /\ index \in Nat
         /\ DOMAIN ops = 1 .. Len(ops) /\ Len(ops) \in Nat
         /\ \A i \in DOMAIN ops :
              /\ ops[i].pointer \in Pointers /\ ops[i].target \in Targets
              /\ ops[i].tramp \in Trampolines
              /\ ops[i].remove <=> at = "detach"
              /\ ops[i].target = Home[ops[i].pointer]
         /\ owner # NoThread
<1>1. /\ index \in DOMAIN ops /\ index \in Nat
      /\ DOMAIN ops = 1 .. Len(ops) /\ Len(ops) \in Nat
      /\ \A i \in DOMAIN ops :
           /\ ops[i].pointer \in Pointers /\ ops[i].target \in Targets
           /\ ops[i].tramp \in Trampolines
  BY OperationAt DEF LibInv, Inv, TypeOK
<1>2. Pending = DOMAIN ops /\ owner # NoThread
  BY DEF Pending, LibInv, Inv, Core, Owned
<1>3. \A i \in DOMAIN ops : ops[i].remove <=> at = "detach"
  BY <1>2 DEF LibInv, LibCore, InOrder
<1>4. \A i \in DOMAIN ops : ops[i].target = Home[ops[i].pointer]
  BY <1>1, <1>2 DEF LibInv, Inv, Core, OperationsLive, TrampolinesOriginal
<1> QED
  BY <1>1, <1>2, <1>3, <1>4

LEMMA PatchKeeps ==
  ASSUME LibInv, Committing, Patch(Loader)
  PROVE  LibTypeOK' /\ LibCore'
<1> DEFINE o == ops[index]
<1>1. /\ phase = "apply" /\ phase' = "point"
      /\ UNCHANGED <<owner, failed, ops, freed, index, ptr, regions>>
      /\ code' = [code EXCEPT ![o.target] = IF o.remove THEN tramp[o.tramp].saved ELSE o.tramp]
  BY DEF Patch, Aside, blocks
<1>2. /\ index \in DOMAIN ops /\ index \in Nat
      /\ DOMAIN ops = 1 .. Len(ops) /\ Len(ops) \in Nat
      /\ \A i \in DOMAIN ops :
           /\ ops[i].pointer \in Pointers /\ ops[i].target \in Targets
           /\ ops[i].tramp \in Trampolines
           /\ ops[i].remove <=> at = "detach"
      /\ owner # NoThread
  BY <1>1, AtIndex
<1>3. /\ LibTypeOK' /\ InOrder' /\ Outside' /\ RegionsUsed'
      /\ ListHanded' /\ GuardedCalls' /\ SettledCalls'
      /\ at' = at
  BY <1>1, <1>2, CommittingKept
<1>4. \A i \in DOMAIN ops :
        /\ Pointed(i)' <=> Pointed(i)
        /\ Patched(i)' => Patched(i) \/ i = index
  BY <1>1, <1>2 DEF Pointed, Patched
<1>5. AttachSoFar'
  <2> SUFFICES ASSUME at = "attach", NEW i \in DOMAIN ops
               PROVE  /\ Patched(i)' => code'[ops[i].target] # Original
                      /\ Pointed(i)' => ptr[ops[i].pointer] \in Trampolines
                      /\ ops[i].target = Home[ops[i].pointer]
    BY <1>1, <1>3 DEF AttachSoFar, Hooked
  <2>1. Pointed(i)' => ptr[ops[i].pointer] \in Trampolines
    BY <1>4 DEF LibInv, LibCore, AttachSoFar
  <2>2. ops[i].target = Home[ops[i].pointer] /\ (Patched(i) => Hooked(ops[i].target))
    BY DEF LibInv, LibCore, AttachSoFar
  <2>3. code' = [code EXCEPT ![o.target] = o.tramp] /\ o.tramp # Original
    BY <1>1, <1>2, DetoursAssumption
  <2>4. CASE ops[i].target = o.target
    BY <1>2, <2>1, <2>2, <2>3, <2>4 DEF Hooked, LibInv, Inv, TypeOK
  <2>5. CASE ops[i].target # o.target
    BY <1>2, <1>4, <2>1, <2>2, <2>3, <2>5 DEF Hooked, LibInv, Inv, TypeOK
  <2> QED
    BY <2>4, <2>5
<1>6. DetachSoFar'
  BY <1>1, <1>3, <1>4 DEF DetachSoFar, LibInv, LibCore
<1> QED
  BY <1>3, <1>5, <1>6 DEF LibCore

LEMMA PointKeeps ==
  ASSUME LibInv, Committing, Point(Loader)
  PROVE  LibTypeOK' /\ LibCore'
<1> DEFINE o == ops[index]
<1>1. /\ phase = "point"
      /\ \/ phase' = "apply" /\ index' = index - 1
         \/ index = 1 /\ phase' = "move"
      /\ UNCHANGED <<owner, failed, ops, freed, code, regions>>
      /\ ptr' = [ptr EXCEPT ![o.pointer] = IF o.remove THEN o.target ELSE o.tramp]
  BY DEF Point, Onward, Aside, blocks
<1>2. /\ index \in DOMAIN ops /\ index \in Nat
      /\ DOMAIN ops = 1 .. Len(ops) /\ Len(ops) \in Nat
      /\ \A i \in DOMAIN ops :
           /\ ops[i].pointer \in Pointers /\ ops[i].target \in Targets
           /\ ops[i].tramp \in Trampolines
           /\ ops[i].remove <=> at = "detach"
           /\ ops[i].target = Home[ops[i].pointer]
      /\ owner # NoThread
  BY <1>1, AtIndex
<1>3. /\ LibTypeOK' /\ InOrder' /\ Outside' /\ RegionsUsed'
      /\ ListHanded' /\ GuardedCalls' /\ SettledCalls'
      /\ at' = at
  BY <1>1, <1>2, CommittingKept
<1>4. \A i \in DOMAIN ops :
        /\ Patched(i)' <=> Patched(i)
        /\ Pointed(i)' => Pointed(i) \/ i = index
  BY <1>1, <1>2 DEF Pointed, Patched
<1>5. AttachSoFar'
  <2> SUFFICES ASSUME at = "attach", NEW i \in DOMAIN ops
               PROVE  /\ Patched(i)' => Hooked(ops[i].target)
                      /\ Pointed(i)' => ptr'[ops[i].pointer] \in Trampolines
                      /\ ops[i].target = Home[ops[i].pointer]
    BY <1>1, <1>3 DEF AttachSoFar, Hooked
  <2>1. /\ Patched(i)' => Hooked(ops[i].target)
        /\ Pointed(i) => ptr[ops[i].pointer] \in Trampolines
    BY <1>4 DEF LibInv, LibCore, AttachSoFar
  <2>2. ptr' = [ptr EXCEPT ![o.pointer] = o.tramp] /\ o.tramp \in Trampolines
    BY <1>1, <1>2
  <2>3. CASE ops[i].pointer = o.pointer
    BY <1>2, <2>1, <2>2, <2>3 DEF LibInv, Inv, TypeOK
  <2>4. CASE ops[i].pointer # o.pointer
    BY <1>2, <1>4, <2>1, <2>2, <2>4 DEF LibInv, Inv, TypeOK
  <2> QED
    BY <2>3, <2>4
<1>6. DetachSoFar'
  <2> SUFFICES ASSUME at = "detach", NEW i \in DOMAIN ops, Pointed(i)'
               PROVE  ptr'[ops[i].pointer] = Home[ops[i].pointer]
    BY <1>1, <1>3 DEF DetachSoFar
  <2>1. Pointed(i) => ptr[ops[i].pointer] = Home[ops[i].pointer]
    BY DEF LibInv, LibCore, DetachSoFar
  <2>2. ptr' = [ptr EXCEPT ![o.pointer] = o.target] /\ o.target = Home[o.pointer]
    BY <1>1, <1>2
  <2>3. CASE ops[i].pointer = o.pointer
    BY <1>2, <2>2, <2>3 DEF LibInv, Inv, TypeOK
  <2>4. CASE ops[i].pointer # o.pointer
    BY <1>2, <1>4, <2>1, <2>2, <2>4 DEF LibInv, Inv, TypeOK
  <2> QED
    BY <2>3, <2>4
<1> QED
  BY <1>3, <1>5, <1>6 DEF LibCore

LEMMA UpdateThreadsKeeps ==
  ASSUME LibInv, Committing, UpdateThreads(Loader)
  PROVE  LibTypeOK' /\ LibCore'
<1>1. /\ phase = "move"
      /\ \/ phase' = "move" /\ index' = index - 1
         \/ phase' = "restore" /\ index' = Len(ops)
      /\ UNCHANGED <<owner, failed, ops, freed, code, ptr, regions>>
  BY DEF UpdateThreads, Onward, Aside, blocks, memory
<1>2. /\ owner # NoThread
      /\ LibTypeOK' /\ InOrder' /\ Outside' /\ RegionsUsed'
      /\ ListHanded' /\ GuardedCalls' /\ SettledCalls'
      /\ at' = at
  BY <1>1, AtIndex, CommittingKept
<1>3. \A i \in DOMAIN ops : Patched(i) /\ Pointed(i)
  BY <1>1 DEF Patched, Pointed
<1>4. AttachSoFar'
  BY <1>1, <1>2, <1>3 DEF AttachSoFar, LibInv, LibCore, Hooked
<1>5. DetachSoFar'
  BY <1>1, <1>2, <1>3, OperationAt DEF DetachSoFar, LibInv, LibCore, Inv
<1> QED
  BY <1>2, <1>4, <1>5 DEF LibCore

LEMMA RestoreKeeps ==
  ASSUME LibInv, Committing, Restore(Loader)
  PROVE  LibTypeOK' /\ LibCore'
<1>1. /\ phase \in {"restore", "undo"} /\ phase' = phase /\ index > 0
      /\ freed' = (freed \/ (ops[index].remove /\ phase = "restore"))
      /\ index' = index - 1
      /\ UNCHANGED <<owner, failed, ops, code, ptr, regions>>
  BY DEF Restore, blocks
<1>2. owner # NoThread
  BY <1>1 DEF LibInv, Inv, Core, Owned
<1>3. /\ LibTypeOK' /\ InOrder' /\ Outside' /\ RegionsUsed'
      /\ ListHanded' /\ GuardedCalls' /\ SettledCalls'
      /\ at' = at
  BY <1>1, <1>2, CommittingKept
<1>4. \A i \in DOMAIN ops : (Patched(i)' <=> Patched(i)) /\ (Pointed(i)' <=> Pointed(i))
  BY <1>1 DEF Patched, Pointed
<1>5. Bare' <=> Bare
  BY <1>1, BareKept
<1>6. AttachSoFar'
  BY <1>1, <1>3, <1>4, <1>5 DEF AttachSoFar, LibInv, LibCore, Hooked
<1>7. DetachSoFar'
  <2>1. index \in DOMAIN ops
    BY <1>1, OperationAt DEF LibInv, Inv, TypeOK
  <2>2. at = "detach" => ops[index].remove
    BY <1>2, <2>1 DEF LibInv, LibCore, InOrder
  <2> QED
    BY <1>1, <1>3, <1>4, <2>2 DEF DetachSoFar, LibInv, LibCore
<1> QED
  BY <1>3, <1>6, <1>7 DEF LibCore

\* Every pointer has its operation when a transaction in which nothing failed
\* comes to its end.
LEMMA AllNamed ==
  ASSUME LibInv, phase = "restore", NEW p \in Pointers
  PROVE  ~failed /\ \E i \in DOMAIN ops : ops[i].pointer = p
<1>1. owner # NoThread /\ ~failed
  BY DEF LibInv, LibCore, InOrder, Inv, Core, Owned
<1>2. next = Len(Order) + 1 /\ Len(Order) \in Nat /\ DOMAIN Order = 1 .. Len(Order)
  BY <1>1, LibLauncherAssumption DEF LibInv, LibCore, InOrder
<1>3. PICK j \in DOMAIN Order : Order[j] = p
  BY LibLauncherAssumption
<1>4. j \in 1 .. next - 1
  BY <1>2
<1> QED
  BY <1>1, <1>3, <1>4 DEF LibInv, LibCore, InOrder

\* The end of the transaction in which the hooks are put in place.
LEMMA HooksIn ==
  ASSUME LibInv, Finish(Loader), at = "attach"
  PROVE  InPlace' \/ Bare'
<1>1. phase \in {"restore", "undo"} /\ UNCHANGED <<code, ptr>>
  BY DEF Finish, memory
<1>2. CASE phase = "undo"
  BY <1>1, <1>2, BareKept DEF LibInv, LibCore, AttachSoFar
<1>3. CASE phase = "restore"
  <2>1. ASSUME NEW p \in Pointers PROVE ptr[p] \in Trampolines /\ Hooked(Home[p])
    <3>1. PICK i \in DOMAIN ops : ops[i].pointer = p
      BY <1>3, AllNamed
    <3>2. Patched(i) /\ Pointed(i)
      BY <1>3 DEF Patched, Pointed
    <3> QED
      BY <3>1, <3>2 DEF LibInv, LibCore, AttachSoFar
  <2> QED
    BY <1>1, <2>1 DEF InPlace, Hooked
<1> QED
  BY <1>1, <1>2, <1>3

\* The end of the one in which they are taken away: the pointers lead home, so
\* that no trampoline is accounted for, and code leads to trampolines in use.
LEMMA HooksOut ==
  ASSUME LibInv, Finish(Loader), at = "detach", ~failed
  PROVE  ptr' = Home /\ regions' = {} /\ \A g \in Targets : ~(Hooked(g)')
<1> USE DetoursAssumption, LibLauncherAssumption
<1>1. /\ phase = "restore" /\ index = 0 /\ UNCHANGED <<code, ptr, tramp>> /\ owner # NoThread
      /\ regions' = IF freed THEN {r \in regions : \E s \in Slots : tramp[<<r, s>>] # Free}
                    ELSE regions
  BY DEF Finish, memory, LibInv, LibCore, InOrder
<1>2. \A p \in Pointers : ptr[p] = Home[p]
  <2> SUFFICES ASSUME NEW p \in Pointers PROVE ptr[p] = Home[p]
    OBVIOUS
  <2>1. PICK i \in DOMAIN ops : ops[i].pointer = p
    BY <1>1, AllNamed
  <2>2. Pointed(i)
    BY <1>1 DEF Pointed
  <2> QED
    BY <2>1, <2>2 DEF LibInv, LibCore, DetachSoFar
<1>3. ptr = Home
  BY <1>2 DEF LibInv, Inv, TypeOK
<1>4. \A k \in Trampolines : tramp[k] = Free
  <2> SUFFICES ASSUME NEW k \in Trampolines, tramp[k] # Free PROVE FALSE
    OBVIOUS
  <2>1. tramp[k].pointer \in Pointers
    BY UseAt DEF LibInv, Inv
  <2>2. Pending = {}
    BY <1>1, OperationAt DEF Pending, LibInv, Inv
  <2>3. ptr[tramp[k].pointer] = k
    BY <2>2 DEF LibInv, Inv, Core, Accounted
  <2> QED
    BY <1>2, <2>1, <2>3
<1>5. \A g \in Targets : code[g] = Original
  <2> SUFFICES ASSUME NEW g \in Targets, code[g] # Original PROVE FALSE
    OBVIOUS
  <2>1. code[g] \in Trampolines
    BY DEF LibInv, Inv, TypeOK, Jump
  <2> QED
    BY <1>4, <2>1 DEF LibInv, Inv, Core, CodeLeadsSomewhere
<1>6. regions' = {}
  <2>1. CASE freed
    <3>1. \A r \in regions, s \in Slots : <<r, s>> \in Trampolines
      BY DEF LibInv, Inv, TypeOK, Trampolines
    <3> QED
      BY <2>1, <1>1, <1>4, <3>1
  <2>2. CASE ~freed
    <3>1. DOMAIN ops = {}
      BY <1>1, <2>2, OperationAt DEF LibInv, LibCore, DetachSoFar, Inv
    <3>2. \A j \in DOMAIN Order : Order[j] \in Pointers
      OBVIOUS
    <3>3. Order = << >>
      BY <1>1, <3>1, <3>2, AllNamed
    <3> QED
      BY <2>2, <3>3, <1>1 DEF LibInv, LibCore, RegionsUsed
  <2> QED
    BY <2>1, <2>2
<1> QED
  BY <1>1, <1>3, <1>5, <1>6 DEF Hooked

LEMMA FinishKeeps ==
  ASSUME LibInv, Committing, Finish(Loader)
  PROVE  LibTypeOK' /\ LibCore'
<1> USE LibLauncherAssumption
<1>1. /\ owner' = NoThread /\ next' = 1 /\ at' = IF at = "attach" THEN "in" ELSE "gone"
      /\ UNCHANGED <<failed, handed, narrow, wide, call>>
      /\ regions' \subseteq regions
      /\ owner = Loader
  BY DEF Committing, Finish
<1>2. at \in {"attach", "detach"} /\ Len(Order) \in Nat
  BY <1>1, DetoursAssumption DEF LibInv, LibCore, InOrder
<1>3. LibTypeOK'
  BY <1>1, <1>2 DEF LibInv, LibTypeOK
<1>4. ListHanded' /\ GuardedCalls' /\ SettledCalls' /\ RegionsUsed'
  BY <1>1, <1>2, CallsKept DEF LibInv, LibCore, RegionsUsed
<1>5. InOrder' /\ AttachSoFar' /\ DetachSoFar'
  BY <1>1 DEF InOrder, AttachSoFar, DetachSoFar
<1>6. Outside'
  BY <1>1, <1>2, HooksIn, HooksOut DEF Outside
<1> QED
  BY <1>3, <1>4, <1>5, <1>6 DEF LibCore

LEMMA ProcessDetachStep ==
  ASSUME LibInv, ProcessDetach
  PROVE  LibTypeOK' /\ LibCore'
<1>1. /\ at = "in" /\ at' = "detach" /\ call' = [c \in Callers |-> Idle]
      /\ UNCHANGED <<next, handed, narrow, wide, regions>>
      /\ owner = NoThread /\ owner' = Loader /\ phase' = "open" /\ ops' = << >>
      /\ DOMAIN ops' = {}
  BY DEF ProcessDetach, Begin
<1>2. owner' # NoThread /\ next = 1
  BY <1>1, LibLauncherAssumption, DetoursAssumption DEF LibInv, LibCore, Outside
<1>3. LibTypeOK'
  <2>1. call' \in [Callers -> Call \cup {Idle}]
    BY <1>1
  <2> QED
    BY <1>1, <2>1 DEF LibInv, LibTypeOK
<1>4. ListHanded' /\ RegionsUsed'
  BY <1>1 DEF LibInv, LibCore, ListHanded, RegionsUsed
<1>5. GuardedCalls' /\ SettledCalls'
  BY <1>1 DEF GuardedCalls, SettledCalls, Idle
<1>6. InOrder' /\ Outside' /\ AttachSoFar' /\ DetachSoFar'
  BY <1>1, <1>2 DEF InOrder, Outside, AttachSoFar, DetachSoFar
<1> QED
  BY <1>3, <1>4, <1>5, <1>6 DEF LibCore

LEMMA SetBlacklistedDllsStep ==
  ASSUME LibInv, SetBlacklistedDlls
  PROVE  LibTypeOK' /\ LibCore'
<1>1. /\ ~handed /\ handed' = TRUE /\ narrow' = Listed /\ wide' = wide \cup Listed
      /\ UNCHANGED <<at, next, call, owner, failed, ops, phase, index, freed, code, ptr, regions>>
  BY DEF SetBlacklistedDlls, vars, transaction, memory, blocks
<1>2. LibTypeOK' /\ ListHanded'
  BY <1>1, LibLauncherAssumption DEF LibInv, LibTypeOK, LibCore, ListHanded
<1>3. GuardedCalls' /\ SettledCalls'
  BY <1>1 DEF LibInv, LibCore, GuardedCalls, SettledCalls, Hooked
<1>4. \A i : (Patched(i)' <=> Patched(i)) /\ (Pointed(i)' <=> Pointed(i))
  BY <1>1 DEF Patched, Pointed
<1>5. InOrder' /\ Outside' /\ AttachSoFar' /\ DetachSoFar' /\ RegionsUsed'
  BY <1>1, <1>4 DEF LibInv, LibCore, InOrder, Outside, AttachSoFar, DetachSoFar, RegionsUsed,
                    Bare, InPlace, Hooked
<1> QED
  BY <1>2, <1>3, <1>5 DEF LibCore

-----------------------------------------------------------------------------
\* The threads that call LoadLibrary.

LEMMA BecomesKeeps ==
  ASSUME LibInv, NEW c \in Callers, NEW r \in Call \cup {Idle}, Becomes(c, r),
         r.stage # "idle" /\ r.begun = "guarded" =>
           /\ at = "in" /\ handed
           /\ r.name \in Listed =>
                r.stage = "refused" \/ (r.stage = "at" /\ Hooked(r.place)),
         r.stage # "idle" /\ r.begun # "early" =>
           /\ at \in {"in", "bare"}
           /\ r.stage \notin {"torn", "overflow"}
           /\ r.stage = "inside" => ~Hooked(r.place)
           /\ r.stage = "through" => ptr[r.place] \in Trampolines
  PROVE  LibTypeOK' /\ LibCore'
<1>1. /\ call' = [call EXCEPT ![c] = r]
      /\ UNCHANGED <<at, next, handed, narrow, wide>>
      /\ UNCHANGED <<owner, failed, ops, phase, index, freed, code, ptr, regions>>
  BY DEF Becomes, lib, vars, transaction, memory, blocks
<1>2. call \in [Callers -> Call \cup {Idle}]
  BY DEF LibInv, LibTypeOK
<1>3. LibTypeOK'
  <2>1. call' \in [Callers -> Call \cup {Idle}]
    BY <1>1, <1>2
  <2> QED
    BY <1>1, <2>1 DEF LibInv, LibTypeOK
<1>4. GuardedCalls'
  <2> SUFFICES ASSUME NEW d \in Callers, call'[d].stage # "idle", call'[d].begun = "guarded"
               PROVE  /\ at = "in" /\ handed
                      /\ call'[d].name \in Listed =>
                           \/ call'[d].stage = "refused"
                           \/ call'[d].stage = "at" /\ Hooked(call'[d].place)
    BY <1>1 DEF GuardedCalls, Hooked
  <2>1. CASE d = c
    BY <1>1, <1>2, <2>1
  <2>2. CASE d # c
    BY <1>1, <1>2, <2>2 DEF LibInv, LibCore, GuardedCalls
  <2> QED
    BY <2>1, <2>2
<1>5. SettledCalls'
  <2> SUFFICES ASSUME NEW d \in Callers, call'[d].stage # "idle", call'[d].begun # "early"
               PROVE  /\ at \in {"in", "bare"}
                      /\ call'[d].stage \notin {"torn", "overflow"}
                      /\ call'[d].stage = "inside" => ~Hooked(call'[d].place)
                      /\ call'[d].stage = "through" => ptr[call'[d].place] \in Trampolines
    BY <1>1 DEF SettledCalls, Hooked, Trampolines
  <2>1. CASE d = c
    BY <1>1, <1>2, <2>1
  <2>2. CASE d # c
    BY <1>1, <1>2, <2>2 DEF LibInv, LibCore, SettledCalls
  <2> QED
    BY <2>1, <2>2
<1>6. \A i : (Patched(i)' <=> Patched(i)) /\ (Pointed(i)' <=> Pointed(i))
  BY <1>1 DEF Patched, Pointed
<1>7. InOrder' /\ Outside' /\ AttachSoFar' /\ DetachSoFar' /\ RegionsUsed' /\ ListHanded'
  BY <1>1, <1>6 DEF LibInv, LibCore, InOrder, Outside, AttachSoFar, DetachSoFar, RegionsUsed,
                    ListHanded, Bare, InPlace, Hooked
<1> QED
  BY <1>3, <1>4, <1>5, <1>7 DEF LibCore

\* What a caller is doing.
LEMMA Calling ==
  ASSUME LibInv, NEW c \in Callers, call[c].stage # "idle"
  PROVE  /\ call[c] \in Call /\ call[c].name \in Names
         /\ call[c].begun \in {"early", "settled", "guarded"} /\ call[c].rounds \in 0 .. Rounds
         /\ call[c].stage \in {"at", "inside"} => call[c].place \in Targets
         /\ call[c].stage = "through" => call[c].place \in Pointers
         /\ call[c].begun = "guarded" => at = "in" /\ handed
         /\ call[c].begun = "guarded" /\ call[c].name \in Listed =>
              \/ call[c].stage = "refused"
              \/ call[c].stage = "at" /\ Hooked(call[c].place)
         /\ call[c].begun # "early" =>
              /\ at \in {"in", "bare"}
              /\ call[c].stage \notin {"torn", "overflow"}
              /\ call[c].stage = "inside" => ~Hooked(call[c].place)
              /\ call[c].stage = "through" => ptr[call[c].place] \in Trampolines
<1>1. call[c] \in Call
  BY DEF LibInv, LibTypeOK, Idle
<1>2. /\ call[c].name \in Names
      /\ call[c].begun \in {"early", "settled", "guarded"} /\ call[c].rounds \in 0 .. Rounds
      /\ call[c].stage \in {"at", "inside"} => call[c].place \in Targets
      /\ call[c].stage = "through" => call[c].place \in Pointers
  BY <1>1, CallAt
<1> QED
  BY <1>1, <1>2 DEF LibInv, LibCore, GuardedCalls, SettledCalls

\* A call that is not guarded, or whose library is not listed, may go anywhere
\* where no commit endangers it.
LEMMA GoesKeeps ==
  ASSUME LibInv, NEW c \in Callers, call[c].stage # "idle",
         NEW s, NEW x, Fits(s, x), Goes(c, s, x),
         s = "refused" \/ ~(call[c].begun = "guarded" /\ call[c].name \in Listed),
         call[c].begun # "early" =>
           /\ s \notin {"torn", "overflow"}
           /\ s = "inside" => ~Hooked(x)
           /\ s = "through" => ptr[x] \in Trampolines
  PROVE  LibTypeOK' /\ LibCore'
<1> DEFINE r == Went(call[c], s, x)
<1>1. /\ call[c] \in Call
      /\ call[c].begun = "guarded" => at = "in" /\ handed
      /\ call[c].begun # "early" => at \in {"in", "bare"}
  BY Calling
<1>2. /\ r \in Call /\ r.stage = s /\ r.place = x
      /\ r.name = call[c].name /\ r.begun = call[c].begun
  BY <1>1, CallMoved
<1>3. Becomes(c, r)
  BY DEF Goes, Went
<1> HIDE DEF r
<1> QED
  BY <1>1, <1>2, <1>3, BecomesKeeps

LEMMA RunOriginalKeeps ==
  ASSUME LibInv, NEW c \in Callers, call[c].stage # "idle",
         ~(call[c].begun = "guarded" /\ call[c].name \in Listed),
         NEW g \in Targets, RunOriginal(c, g)
  PROVE  LibTypeOK' /\ LibCore'
<1>1. CASE Inner[g] = None
  BY <1>1, GoesKeeps DEF RunOriginal, Ends, Fits
<1>2. CASE Inner[g] # None
  <2>1. Inner[g] \in Targets
    BY <1>2, LibLauncherAssumption
  <2> QED
    BY <1>2, <2>1, GoesKeeps DEF RunOriginal, Fits
<1> QED
  BY <1>1, <1>2

LEMMA CallLoadLibraryStep ==
  ASSUME LibInv, NEW c \in Callers, NEW g \in Targets, NEW n \in Names, CallLoadLibrary(c, g, n)
  PROVE  LibTypeOK' /\ LibCore'
<1> DEFINE b == CASE at \in {"out", "attach"} -> "early"
                  [] at = "in" /\ handed /\ Hooked(g) -> "guarded"
                  [] OTHER -> "settled"
           r == [stage |-> "at", place |-> g, name |-> n, rounds |-> 0, begun |-> b]
<1>1. /\ b \in {"early", "settled", "guarded"}
      /\ b = "guarded" => at = "in" /\ handed /\ Hooked(g)
      /\ b # "early" => at \in {"in", "bare"}
  BY DEF CallLoadLibrary
<1>2. Becomes(c, r)
  BY DEF CallLoadLibrary
<1> HIDE DEF b
<1>3. r \in Call /\ r.stage = "at" /\ r.place = g /\ r.begun = b
  BY <1>1, LibLauncherAssumption DEF Call, Called
<1> HIDE DEF r
<1> QED
  BY <1>1, <1>2, <1>3, BecomesKeeps

\* Between transactions a hook that can be entered has its pointer written.
LEMMA HookReady ==
  ASSUME LibInv, at \in {"in", "bare"}, NEW g \in Targets
  PROVE  /\ ~Writing(g)
         /\ Hooked(g) => \A p \in Pointers : ptr[p] \in Trampolines
<1>1. owner = NoThread
  BY DEF LibInv, LibCore, InOrder
<1>2. ~Writing(g)
  BY <1>1 DEF LibInv, Inv, Core, Owned, Writing
<1>3. ASSUME Hooked(g), Bare PROVE \A p \in Pointers : ptr[p] \in Trampolines
  <2>1. code[g] \in Trampolines /\ tramp[code[g]] # Free /\ tramp[code[g]].target = g
    BY <1>3 DEF Hooked, LibInv, Inv, TypeOK, Jump, Core, CodeLeadsSomewhere
  <2>2. tramp[code[g]].pointer \in Pointers /\ Home[tramp[code[g]].pointer] = g
    BY <2>1, UseAt DEF LibInv, Inv, Core, TrampolinesOriginal
  <2> QED
    BY <1>3, <2>2 DEF Bare
<1> QED
  BY <1>2, <1>3 DEF LibInv, LibCore, Outside, InPlace

\* A hook is entered at the pointer it was attached with; a listed name gets no
\* further.
LEMMA EnterFunctionStep ==
  ASSUME LibInv, NEW c \in Callers, EnterFunction(c)
  PROVE  LibTypeOK' /\ LibCore'
<1> DEFINE g == call[c].place
           p == tramp[code[g]].pointer
<1>1. call[c].stage = "at" /\ call[c].stage # "idle"
  BY DEF EnterFunction
<1>2. g \in Targets
  BY <1>1, Calling
<1>3. CASE ~Hooked(g) /\ Goes(c, "inside", g)
  <2>1. ~(call[c].begun = "guarded" /\ call[c].name \in Listed)
    BY <1>1, <1>3, Calling
  <2> QED
    BY <1>1, <1>2, <1>3, <2>1, GoesKeeps DEF Fits
<1>4. CASE Hooked(g) /\ IsBlacklistedDll(p, call[c].name) /\ Ends(c, "refused")
  BY <1>1, <1>4, GoesKeeps DEF Ends, Fits
<1>5. CASE Hooked(g) /\ ~IsBlacklistedDll(p, call[c].name) /\ Goes(c, "through", p)
  <2>1. p \in Pointers
    <3>1. code[g] \in Trampolines /\ tramp[code[g]] # Free
      BY <1>2, <1>5 DEF Hooked, LibInv, Inv, TypeOK, Jump, Core, CodeLeadsSomewhere
    <3> QED
      BY <3>1, UseAt DEF LibInv, Inv
  <2>2. ~(call[c].begun = "guarded" /\ call[c].name \in Listed)
    BY <1>1, <1>5, Calling DEF IsBlacklistedDll, LibInv, LibCore, ListHanded
  <2>3. call[c].begun # "early" => ptr[p] \in Trampolines
    BY <1>1, <1>2, <1>5, <2>1, Calling, HookReady
  <2> HIDE DEF p
  <2> QED
    BY <1>1, <1>5, <2>1, <2>2, <2>3, GoesKeeps DEF Fits
<1> QED
  BY <1>3, <1>4, <1>5 DEF EnterFunction

LEMMA RunOnStep ==
  ASSUME LibInv, NEW c \in Callers, RunOn(c)
  PROVE  LibTypeOK' /\ LibCore'
<1>1. call[c].stage = "inside" /\ call[c].stage # "idle"
  BY DEF RunOn
<1> QED
  BY <1>1, Calling, RunOriginalKeeps DEF RunOn

\* Only a call that began before the commit was over is inside what it writes.
LEMMA TearStep ==
  ASSUME LibInv, NEW c \in Callers, Tear(c)
  PROVE  /\ LibTypeOK' /\ LibCore'
         /\ call[c].begun = "early"
<1>1. call[c].stage \in {"at", "inside"} /\ call[c].stage # "idle" /\ call[c].place \in Targets
  BY Calling DEF Tear
<1>2. call[c].begun = "early"
  BY <1>1, Calling, HookReady DEF Tear
<1>3. LibTypeOK' /\ LibCore'
  BY <1>1, <1>2, GoesKeeps DEF Tear, Ends, Fits
<1> QED
  BY <1>2, <1>3

LEMMA CallThroughStep ==
  ASSUME LibInv, NEW c \in Callers, CallThrough(c)
  PROVE  LibTypeOK' /\ LibCore'
<1> DEFINE p == call[c].place
           x == ptr[p]
<1>1. call[c].stage = "through" /\ call[c].stage # "idle"
  BY DEF CallThrough
<1>2. /\ p \in Pointers /\ ~(call[c].begun = "guarded" /\ call[c].name \in Listed)
      /\ call[c] \in Call /\ call[c].rounds \in 0 .. Rounds
      /\ call[c].begun # "early" => x \in Trampolines
  BY <1>1, Calling
<1>3. CASE x \in Trampolines /\ RunOriginal(c, tramp[x].target)
  <2>1. tramp[x].target \in Targets
    BY <1>2, <1>3, UseAt DEF LibInv, Inv, Core, PointersLeadHome
  <2> QED
    BY <1>1, <1>2, <1>3, <2>1, RunOriginalKeeps
<1>4. CASE x \in Targets /\ CallAgain(c, x)
  <2>1. call[c].begun = "early"
    BY <1>2, <1>4, DetoursAssumption
  <2>2. CASE call[c].rounds < Rounds
    <3> DEFINE r == Deeper(call[c], x)
    <3>1. r \in Call /\ r.stage = "at" /\ r.begun = "early"
      BY <1>2, <1>4, <2>1, <2>2, CallDeeper
    <3>2. Becomes(c, r)
      BY <1>4, <2>2 DEF CallAgain, Deeper
    <3> HIDE DEF r
    <3> QED
      BY <3>1, <3>2, BecomesKeeps
  <2>3. CASE ~(call[c].rounds < Rounds)
    BY <1>1, <1>4, <2>1, <2>3, GoesKeeps DEF CallAgain, Ends, Fits
  <2> QED
    BY <2>2, <2>3
<1> QED
  BY <1>3, <1>4 DEF CallThrough

LEMMA CallReturnsStep ==
  ASSUME LibInv, NEW c \in Callers, CallReturns(c)
  PROVE  LibTypeOK' /\ LibCore'
  BY BecomesKeeps DEF CallReturns, Idle

-----------------------------------------------------------------------------
LEMMA LibInductive == LibInv /\ [LibNext]_libVars => LibInv'
<1> SUFFICES ASSUME LibInv, [LibNext]_libVars PROVE LibInv'
  OBVIOUS
<1>1. Inv'
  BY StepOfDetours, Inductive DEF LibInv
<1>2. CASE DllMain
  <2>1. CASE Committing
    BY <2>1, PatchKeeps, PointKeeps, UpdateThreadsKeeps, RestoreKeeps, FinishKeeps, <1>1
       DEF Committing, Engine, LibInv
  <2> QED
    BY <1>1, <1>2, <2>1, ProcessAttachStep, LoadAndAttachStep, DetachNextStep, CommitHooksStep
       DEF DllMain, LibInv
<1>3. CASE ProcessDetach \/ SetBlacklistedDlls
  BY <1>1, <1>3, ProcessDetachStep, SetBlacklistedDllsStep DEF LibInv
<1>4. ASSUME NEW c \in Callers,
             Caller(c) \/ \E g \in Targets, n \in Names : CallLoadLibrary(c, g, n)
      PROVE  LibInv'
  BY <1>1, <1>4, EnterFunctionStep, RunOnStep, TearStep, CallThroughStep, CallReturnsStep,
     CallLoadLibraryStep
     DEF Caller, LibInv
<1>5. CASE UNCHANGED libVars
  <2>1. /\ UNCHANGED <<owner, failed, ops, phase, index, freed, code, ptr, regions>>
        /\ UNCHANGED <<at, next, handed, narrow, wide, call>>
    BY <1>5 DEF libVars, lib, vars, transaction, memory, blocks
  <2>2. \A i : (Patched(i)' <=> Patched(i)) /\ (Pointed(i)' <=> Pointed(i))
    BY <2>1 DEF Patched, Pointed
  <2>3. LibTypeOK'
    BY <2>1 DEF LibInv, LibTypeOK
  <2>4. LibCore'
    BY <2>1, <2>2 DEF LibInv, LibCore, InOrder, Outside, AttachSoFar, DetachSoFar, RegionsUsed,
                      ListHanded, GuardedCalls, SettledCalls, Bare, InPlace, Hooked, Trampolines
  <2> QED
    BY <1>1, <2>3, <2>4 DEF LibInv
<1> QED
  BY <1>2, <1>3, <1>4, <1>5 DEF LibNext

LEMMA LibInvariant == LibSpec => []LibInv
  BY LibInitially, LibInductive, PTL DEF LibSpec

\* The state keeps its types.
THEOREM HooksTypeCorrect == LibSpec => []LibTypeOK
<1>1. LibInv => LibTypeOK
  BY DEF LibInv
<1> QED
  BY <1>1, LibInvariant, PTL

\* DllMain is a client of Detours such as DetoursProofs assumes: it names a
\* pointer once in a transaction and hooks what is intact, whatever failed
\* before.  All that is proved of Detours holds of the launcher's library.
THEOREM KeepsToDetours == LibSpec => UsesDetours
<1>1. LibInit => Init
  BY DEF LibInit
<1> QED
  BY <1>1, LibInvariant, StepOfDetours, PTL DEF LibSpec, UsesDetours, Spec

\* The hooks are there together or not at all.
THEOREM AllHooksOrNone == LibSpec => []HookedTogether
<1>1. LibInv => HookedTogether
  BY DEF LibInv, LibCore, InOrder, Outside, InPlace, Bare, HookedTogether
<1> QED
  BY <1>1, LibInvariant, PTL

\* A listed library is not loaded once the hooks and the list are in place.
THEOREM BlacklistEnforced == LibSpec => []Enforced
<1>1. LibInv => Enforced
  BY DEF LibInv, LibCore, GuardedCalls, Enforced
<1> QED
  BY <1>1, LibInvariant, PTL

\* The hooks endanger no call that begins when DllMain's commit is over.
THEOREM LaterCallsSafe == LibSpec => []OnlyEarlyCallsCrash
<1>1. LibInv => OnlyEarlyCallsCrash
  BY DEF LibInv, LibCore, SettledCalls, OnlyEarlyCallsCrash
<1> QED
  BY <1>1, LibInvariant, PTL

\* Without a failure the library leaves no hook and no memory behind.
THEOREM LeavesWindowsIntact == LibSpec => []LeavesNoHook
<1>1. LibInv => LeavesNoHook
  BY DEF LibInv, LibCore, InOrder, Outside, LeavesNoHook
<1> QED
  BY <1>1, LibInvariant, PTL

-----------------------------------------------------------------------------
(***************************************************************************)
(* Calls of LoadLibrary end, or wait for the commit.                        *)
(***************************************************************************)

\* A call in a hook finds its pointer written, or commit has just written the
\* code of this function and writes the pointer next.
RoundsInCommit ==
  /\ at \in {"detach", "gone"} => \A c \in Callers : call[c].stage = "idle"
  /\ \A c \in Callers :
       call[c].stage = "through" /\ ptr[call[c].place] \notin Trampolines =>
         at = "attach" /\ phase = "point" /\ ops[index].pointer = call[c].place

\* What a call becomes when it goes on.
LEMMA Going ==
  ASSUME LibInv, NEW c \in Callers, call[c].stage # "idle",
         NEW s, NEW x, Fits(s, x), Goes(c, s, x)
  PROVE  \E r : /\ Becomes(c, r)
                /\ r.stage = s /\ r.place = x /\ r.rounds = call[c].rounds
<1> DEFINE r == Went(call[c], s, x)
<1>1. r.stage = s /\ r.place = x /\ r.rounds = call[c].rounds
  BY Calling, CallMoved
<1>2. Becomes(c, r)
  BY DEF Goes, Went
<1> QED
  BY <1>1, <1>2

\* How a call can go on: it ends, is inside a function, in a hook, in the next
\* original, or in a hook that calls itself.
Step(c, s, r) ==
  \/ s.stage \in {"loaded", "refused"} /\ r.stage = "idle"
  \/ /\ s.stage \in {"at", "inside", "through"}
     /\ r.stage \in {"loaded", "refused", "torn", "overflow"}
     /\ r.rounds = s.rounds
  \/ /\ s.stage = "at" /\ r.stage = "inside"
     /\ s.place \in Targets /\ r.place = s.place /\ r.rounds = s.rounds
  \/ /\ s.stage = "inside" /\ r.stage = "at"
     /\ s.place \in Targets /\ Inner[s.place] # None
     /\ r.place = Inner[s.place] /\ r.rounds = s.rounds
  \/ /\ s.stage = "at" /\ r.stage = "through"
     /\ s.place \in Targets /\ Hooked(s.place)
     /\ r.place = tramp[code[s.place]].pointer
     /\ r.place \in Pointers /\ Home[r.place] = s.place /\ r.rounds = s.rounds
  \/ /\ s.stage = "through" /\ r.stage = "at"
     /\ s.place \in Pointers
     /\ Inner[Home[s.place]] # None
     /\ r.place = Inner[Home[s.place]] /\ r.rounds = s.rounds
  \/ /\ s.stage = "through" /\ r.stage = "at"
     /\ CallThrough(c) /\ ptr[s.place] \notin Trampolines
     /\ s.rounds < Rounds /\ r.rounds = s.rounds + 1

LEMMA RunsOriginal ==
  ASSUME LibInv, NEW c \in Callers, NEW g \in Targets, RunOriginal(c, g),
         \/ call[c].stage = "inside" /\ call[c].place = g
         \/ call[c].stage = "through" /\ call[c].place \in Pointers /\ Home[call[c].place] = g
  PROVE  \E r : Becomes(c, r) /\ Step(c, call[c], r)
<1>1. call[c].stage # "idle"
  OBVIOUS
<1>2. CASE Inner[g] = None
  <2>1. Goes(c, "loaded", None) /\ Fits("loaded", None)
    BY <1>2 DEF RunOriginal, Ends, Fits
  <2>2. PICK r : Becomes(c, r) /\ r.stage = "loaded" /\ r.rounds = call[c].rounds
    BY <1>1, <2>1, Going
  <2> QED
    BY <2>2 DEF Step
<1>3. CASE Inner[g] # None
  <2>1. Goes(c, "at", Inner[g]) /\ Fits("at", Inner[g])
    BY <1>3, LibLauncherAssumption DEF RunOriginal, Fits
  <2>2. PICK r : Becomes(c, r) /\ r.stage = "at" /\ r.place = Inner[g]
                 /\ r.rounds = call[c].rounds
    BY <1>1, <2>1, Going
  <2> QED
    BY <1>3, <2>2 DEF Step
<1> QED
  BY <1>2, <1>3

\* What the steps of a caller make of its call.
LEMMA CallerMoves ==
  ASSUME LibInv, NEW c \in Callers, Caller(c)
  PROVE  \E r : Becomes(c, r) /\ Step(c, call[c], r)
<1>1. CASE EnterFunction(c)
  <2> DEFINE g == call[c].place
             p == tramp[code[g]].pointer
  <2>1. call[c].stage = "at" /\ call[c].stage # "idle" /\ g \in Targets
    BY <1>1, Calling DEF EnterFunction
  <2>2. CASE Goes(c, "inside", g)
    <3>1. PICK r : Becomes(c, r) /\ r.stage = "inside" /\ r.place = g
                   /\ r.rounds = call[c].rounds
      BY <2>1, <2>2, Going DEF Fits
    <3> QED
      BY <2>1, <3>1 DEF Step
  <2>3. CASE Ends(c, "refused")
    <3>1. PICK r : Becomes(c, r) /\ r.stage = "refused" /\ r.rounds = call[c].rounds
      BY <2>1, <2>3, Going DEF Ends, Fits
    <3> QED
      BY <2>1, <3>1 DEF Step
  <2>4. CASE Hooked(g) /\ Goes(c, "through", p)
    <3>1. code[g] \in Trampolines /\ tramp[code[g]] # Free /\ tramp[code[g]].target = g
      BY <2>1, <2>4 DEF Hooked, LibInv, Inv, TypeOK, Jump, Core, CodeLeadsSomewhere
    <3>2. p \in Pointers /\ Home[p] = g
      BY <3>1, UseAt DEF LibInv, Inv, Core, TrampolinesOriginal
    <3>3. PICK r : Becomes(c, r) /\ r.stage = "through" /\ r.place = p
                   /\ r.rounds = call[c].rounds
      BY <2>1, <2>4, <3>2, Going DEF Fits
    <3> QED
      BY <2>1, <2>4, <3>2, <3>3 DEF Step
  <2> QED
    BY <1>1, <2>2, <2>3, <2>4 DEF EnterFunction
<1>2. CASE RunOn(c)
  BY <1>2, Calling, RunsOriginal DEF RunOn
<1>3. CASE Tear(c)
  <2>1. call[c].stage \in {"at", "inside"} /\ call[c].stage # "idle"
    BY <1>3 DEF Tear
  <2>2. PICK r : Becomes(c, r) /\ r.stage = "torn" /\ r.rounds = call[c].rounds
    BY <1>3, <2>1, Going DEF Tear, Ends, Fits
  <2> QED
    BY <2>1, <2>2 DEF Step
<1>4. CASE CallThrough(c)
  <2> DEFINE p == call[c].place
             x == ptr[p]
  <2>1. call[c].stage = "through" /\ call[c].stage # "idle" /\ p \in Pointers
        /\ call[c] \in Call
    BY <1>4, Calling DEF CallThrough
  <2>2. CASE x \in Trampolines /\ RunOriginal(c, tramp[x].target)
    <3>1. tramp[x].target = Home[p] /\ Home[p] \in Targets
      BY <2>1, <2>2, DetoursAssumption
         DEF LibInv, Inv, Core, PointersLeadHome, TrampolinesOriginal
    <3> QED
      BY <2>1, <2>2, <3>1, RunsOriginal
  <2>3. CASE x \in Targets /\ CallAgain(c, x)
    <3>1. x \notin Trampolines
      BY <2>3, DetoursAssumption
    <3>2. CASE call[c].rounds < Rounds
      <4> DEFINE r == Deeper(call[c], x)
      <4>1. Becomes(c, r)
        BY <2>3, <3>2 DEF CallAgain, Deeper
      <4>2. r.stage = "at" /\ r.rounds = call[c].rounds + 1
        BY <2>1, <2>3, <3>2, CallDeeper
      <4> HIDE DEF r
      <4> QED
        BY <1>4, <2>1, <3>1, <3>2, <4>1, <4>2 DEF Step
    <3>3. CASE ~(call[c].rounds < Rounds)
      <4>1. PICK r : Becomes(c, r) /\ r.stage = "overflow" /\ r.rounds = call[c].rounds
        BY <2>1, <2>3, <3>3, Going DEF CallAgain, Ends, Fits
      <4> QED
        BY <2>1, <4>1 DEF Step
    <3> QED
      BY <3>2, <3>3
  <2> QED
    BY <1>4, <2>2, <2>3 DEF CallThrough
<1>5. CASE CallReturns(c)
  BY <1>5 DEF CallReturns, Step, Idle
<1> QED
  BY <1>1, <1>2, <1>3, <1>4, <1>5 DEF Caller

LEMMA RoundsInductive ==
  LibInv /\ RoundsInCommit /\ [LibNext]_libVars => RoundsInCommit'
<1> SUFFICES ASSUME LibInv, RoundsInCommit, [LibNext]_libVars PROVE RoundsInCommit'
  OBVIOUS
<1>1. call \in [Callers -> Call \cup {Idle}]
  BY DEF LibInv, LibTypeOK
<1>2. CASE Committing /\ Point(Loader)
  <2>1. /\ phase = "point" /\ UNCHANGED <<at, call, ops>>
        /\ ptr' = [ptr EXCEPT ![ops[index].pointer] =
                     IF ops[index].remove THEN ops[index].target ELSE ops[index].tramp]
    <3>1. owner # NoThread /\ owner' = owner
      BY <1>2 DEF Point, Onward, Aside, LibInv, Inv, Core, Owned
    <3> QED
      BY <1>2, <3>1 DEF Committing, Point, Onward, Aside
  <2>2. /\ index \in DOMAIN ops /\ ops[index].tramp \in Trampolines
        /\ ops[index].remove <=> at = "detach"
        /\ ops[index].pointer \in Pointers
        /\ at \in {"attach", "detach"}
    BY <2>1, AtIndex DEF LibInv, LibCore, InOrder
  <2>3. ASSUME NEW c \in Callers, call[c].stage = "through", at = "attach"
        PROVE  ptr'[call[c].place] \in Trampolines
    <3>1. call[c].place \in Pointers
      BY <2>3, Calling
    <3> QED
      BY <2>1, <2>2, <2>3, <3>1 DEF RoundsInCommit, LibInv, Inv, TypeOK
  <2> QED
    BY <2>1, <2>2, <2>3 DEF RoundsInCommit, Trampolines
<1>3. CASE (DllMain /\ ~(Committing /\ Point(Loader))) \/ SetBlacklistedDlls \/ UNCHANGED libVars
  <2>1. UNCHANGED <<call, ptr>>
    BY <1>3 DEF DllMain, ProcessAttach, LoadAndAttach, DetachNext, CommitHooks, Committing,
                SetBlacklistedDlls, libVars, vars, memory, Begin, Attach, AttachFails, Detach,
                DetachFails, Fail, Commit, Enter, Engine, Patch, UpdateThreads, Restore, Finish
  <2>2. at' \in {"detach", "gone"} => at \in {"detach", "gone"}
    <3>1. CASE Committing
      BY <3>1 DEF Committing, LibInv, LibCore, InOrder, Inv, Core, Owned, Engine, Patch, Point,
                  UpdateThreads, Restore, Finish
    <3> QED
      BY <1>3, <3>1 DEF DllMain, ProcessAttach, LoadAndAttach, DetachNext, CommitHooks,
                SetBlacklistedDlls, libVars, lib
  <2>3. phase = "point" => UNCHANGED <<at, phase, ops, index>>
    <3>1. phase = "point" => owner # NoThread
      BY DEF LibInv, Inv, Core, Owned
    <3>2. CASE phase # "open" /\ owner # NoThread /\ DllMain /\ ~Committing /\ ~UNCHANGED vars
      BY <3>2 DEF DllMain, ProcessAttach, LoadAndAttach, DetachNext, CommitHooks, Begin, Attach,
                  AttachFails, Detach, DetachFails, MayAsk, Commit
    <3>3. CASE Committing /\ ~Point(Loader)
      BY <3>3 DEF Committing, Engine, Patch, UpdateThreads, Restore, Finish
    <3>4. CASE UNCHANGED vars /\ at' = at
      BY <3>4 DEF vars, transaction
    <3>5. CASE ProcessAttach
      BY <3>1, <3>5 DEF ProcessAttach, Begin, LibInv, LibCore, Outside, InOrder
    <3> QED
      BY <1>3, <3>1, <3>2, <3>3, <3>4, <3>5
         DEF DllMain, LoadAndAttach, DetachNext, CommitHooks, SetBlacklistedDlls, libVars, lib
  <2> QED
    BY <2>1, <2>2, <2>3 DEF RoundsInCommit, Trampolines
<1>4. CASE ProcessDetach
  <2>1. \A c \in Callers : call'[c].stage = "idle"
    BY <1>4 DEF ProcessDetach, Idle
  <2> QED
    BY <2>1 DEF RoundsInCommit
<1>5. ASSUME NEW c \in Callers, NEW r, Becomes(c, r),
             at \notin {"detach", "gone"} \/ call[c].stage # "idle",
             r.stage = "through" /\ ptr[r.place] \notin Trampolines =>
               at = "attach" /\ phase = "point" /\ ops[index].pointer = r.place
      PROVE  RoundsInCommit'
  <2>1. /\ call' = [call EXCEPT ![c] = r]
        /\ UNCHANGED <<at, ptr, phase, ops, index>>
    BY <1>5 DEF Becomes, lib, vars, transaction, memory
  <2>2. at \notin {"detach", "gone"}
    BY <1>5 DEF RoundsInCommit
  <2>3. \A d \in Callers : call'[d] = IF d = c THEN r ELSE call[d]
    BY <1>1, <2>1
  <2> QED
    BY <1>5, <2>1, <2>2, <2>3 DEF RoundsInCommit, Trampolines
<1>6. ASSUME NEW c \in Callers, Caller(c) PROVE RoundsInCommit'
  <2>1. PICK r :
           /\ Becomes(c, r)
           /\ r.stage = "through" =>
                /\ call[c].stage = "at" /\ call[c].place \in Targets /\ Hooked(call[c].place)
                /\ r.place = tramp[code[call[c].place]].pointer
    BY <1>6, CallerMoves DEF Step
  <2>2. call[c].stage # "idle"
    BY <1>6 DEF Caller, EnterFunction, RunOn, Tear, CallThrough, CallReturns
  <2>3. ASSUME r.stage = "through", ptr[r.place] \notin Trampolines
        PROVE  at = "attach" /\ phase = "point" /\ ops[index].pointer = r.place
    <3>1. phase = "point" /\ ~ops[index].remove /\ ops[index].pointer = r.place
      BY <2>1, <2>3, HookLeads DEF LibInv, Hooked, HookLeadsOn
    <3>2. at \in {"attach", "detach"} /\ (ops[index].remove <=> at = "detach")
      BY <3>1, AtIndex DEF LibInv, LibCore, InOrder
    <3> QED
      BY <3>1, <3>2
  <2> QED
    BY <1>5, <2>1, <2>2, <2>3
<1>7. ASSUME NEW c \in Callers, NEW g \in Targets, NEW n \in Names, CallLoadLibrary(c, g, n)
      PROVE  RoundsInCommit'
  BY <1>5, <1>7 DEF CallLoadLibrary
<1> QED
  BY <1>2, <1>3, <1>4, <1>6, <1>7 DEF LibNext

\* How many steps a call is from its end, if depth says how far the originals call
\* one another and no hook calls itself any more.
StepsLeft(depth, r) ==
  CASE r.stage \in {"idle", "torn", "overflow"} -> 0
    [] r.stage \in {"loaded", "refused"} -> 1
    [] r.stage = "inside" -> 2 * depth[r.place] + 2
    [] r.stage = "through" -> 2 * depth[Home[r.place]] + 2
    [] r.stage = "at" -> 2 * depth[r.place] + 3

\* A step of a call leads towards its end, or takes one of the rounds that are
\* left; the latter only while commit has written the code of this very function
\* and its next step is to write the pointer.
LeadsOn(depth, c) ==
  \/ /\ StepsLeft(depth, call'[c]) < StepsLeft(depth, call[c])
     /\ call'[c].stage = "idle" \/ call'[c].rounds = call[c].rounds
  \/ /\ call[c].rounds < Rounds /\ call'[c].rounds = call[c].rounds + 1
     /\ CallThrough(c) /\ call[c].begun = "early"
     /\ at = "attach" /\ phase = "point" /\ ops[index].pointer = call[c].place

\* What a call counts for.
LEMMA Counted ==
  ASSUME LibInv, NEW c \in Callers, NEW depth \in [Targets -> Nat]
  PROVE  /\ call[c].stage \in {"idle", "at", "inside", "through", "loaded", "refused", "torn",
                               "overflow"}
         /\ StepsLeft(depth, call[c]) \in Nat
         /\ call[c].stage # "idle" => call[c].rounds \in 0 .. Rounds
<1>1. CASE call[c].stage = "idle"
  BY <1>1 DEF StepsLeft
<1>2. CASE call[c].stage # "idle"
  <2>1. /\ call[c].stage \in {"at", "inside", "through", "loaded", "refused", "torn", "overflow"}
        /\ call[c].rounds \in 0 .. Rounds
        /\ call[c].stage \in {"at", "inside"} => call[c].place \in Targets
        /\ call[c].stage = "through" => call[c].place \in Pointers
    BY <1>2, Calling, CallAt
  <2>2. call[c].stage = "through" => Home[call[c].place] \in Targets
    BY <2>1, DetoursAssumption
  <2>3. \A g \in Targets : depth[g] \in Nat
    OBVIOUS
  <2> QED
    BY <2>1, <2>2, <2>3 DEF StepsLeft
<1> QED
  BY <1>1, <1>2

\* Whatever DllMain does meanwhile, every step of a thread in LoadLibrary brings
\* its call closer to its end in a well-founded order: the rounds that the stack
\* has room for, then the steps that are left.  A hook calls itself only between
\* the two writes of commit for this very hook (detours.cpp:1749), in a call that
\* began before they were over.  That the originals do not call one another in a
\* circle is what depth says.
THEOREM CallsLeadOn ==
  ASSUME NEW depth \in [Targets -> Nat],
         \A g \in Targets : Inner[g] # None => depth[Inner[g]] < depth[g]
  PROVE  LibSpec =>
           /\ [](\A c \in Callers :
                   /\ StepsLeft(depth, call[c]) \in Nat
                   /\ call[c].stage # "idle" => call[c].rounds \in 0 .. Rounds)
           /\ [][\A c \in Callers : Caller(c) => LeadsOn(depth, c)]_libVars
<1> DEFINE Leads == \A c \in Callers : Caller(c) => LeadsOn(depth, c)
           Count == \A c \in Callers :
                      /\ StepsLeft(depth, call[c]) \in Nat
                      /\ call[c].stage # "idle" => call[c].rounds \in 0 .. Rounds
<1>1. LibInit => RoundsInCommit
  BY DEF LibInit, RoundsInCommit, Idle
<1>2. LibInv /\ RoundsInCommit /\ [LibNext]_libVars => [Leads]_libVars
  <2> SUFFICES ASSUME LibInv, RoundsInCommit, NEW c \in Callers, Caller(c)
               PROVE  LeadsOn(depth, c)
    OBVIOUS
  <2> DEFINE s == call[c]
  <2>1. PICK r : Becomes(c, r) /\ Step(c, s, r)
    BY CallerMoves
  <2>2. call'[c] = r
    BY <2>1 DEF Becomes, LibInv, LibTypeOK
  <2>3. s.stage # "idle"
    BY DEF Caller, EnterFunction, RunOn, Tear, CallThrough, CallReturns
  <2>4. /\ s.stage \in {"at", "inside"} => s.place \in Targets
        /\ s.stage = "through" => s.place \in Pointers /\ Home[s.place] \in Targets
        /\ s.begun # "early" /\ s.stage = "through" => ptr[s.place] \in Trampolines
    BY <2>3, Calling, DetoursAssumption
  <2>5. \A g \in Targets : depth[g] \in Nat
    OBVIOUS
  <2>6. \A g \in Targets : Inner[g] # None => Inner[g] \in Targets /\ depth[Inner[g]] < depth[g]
    BY LibLauncherAssumption
  <2>7. StepsLeft(depth, s) \in Nat
    BY Counted
  <2> HIDE DEF s
  <2>8. CASE s.stage \in {"loaded", "refused"} /\ r.stage = "idle"
    <3>1. StepsLeft(depth, r) = 0 /\ StepsLeft(depth, s) = 1
      BY <2>8 DEF StepsLeft
    <3> QED
      BY <2>2, <2>8, <3>1 DEF s, LeadsOn
  <2>9. CASE /\ s.stage \in {"at", "inside", "through"}
             /\ r.stage \in {"loaded", "refused", "torn", "overflow"}
             /\ r.rounds = s.rounds
    <3>1. StepsLeft(depth, r) \in {0, 1}
      BY <2>9 DEF StepsLeft
    <3>2. StepsLeft(depth, s) >= 2
      BY <2>4, <2>5, <2>9 DEF StepsLeft
    <3>3. StepsLeft(depth, r) < StepsLeft(depth, s)
      BY <2>7, <3>1, <3>2
    <3> QED
      BY <2>2, <2>9, <3>3 DEF s, LeadsOn
  <2>10. CASE /\ s.stage = "at" /\ r.stage = "inside"
              /\ s.place \in Targets /\ r.place = s.place /\ r.rounds = s.rounds
    <3>1. /\ StepsLeft(depth, s) = 2 * depth[s.place] + 3
          /\ StepsLeft(depth, r) = 2 * depth[s.place] + 2
      BY <2>10 DEF StepsLeft
    <3>2. StepsLeft(depth, r) < StepsLeft(depth, s)
      BY <2>5, <2>10, <3>1
    <3> QED
      BY <2>2, <2>10, <3>2 DEF s, LeadsOn
  <2>11. CASE /\ s.stage = "inside" /\ r.stage = "at"
              /\ s.place \in Targets /\ Inner[s.place] # None
              /\ r.place = Inner[s.place] /\ r.rounds = s.rounds
    <3>1. /\ StepsLeft(depth, s) = 2 * depth[s.place] + 2
          /\ StepsLeft(depth, r) = 2 * depth[Inner[s.place]] + 3
      BY <2>11 DEF StepsLeft
    <3>2. StepsLeft(depth, r) < StepsLeft(depth, s)
      BY <2>5, <2>6, <2>11, <3>1
    <3> QED
      BY <2>2, <2>11, <3>2 DEF s, LeadsOn
  <2>12. CASE /\ s.stage = "at" /\ r.stage = "through"
              /\ s.place \in Targets
              /\ r.place \in Pointers /\ Home[r.place] = s.place /\ r.rounds = s.rounds
    <3>1. /\ StepsLeft(depth, s) = 2 * depth[s.place] + 3
          /\ StepsLeft(depth, r) = 2 * depth[s.place] + 2
      BY <2>12 DEF StepsLeft
    <3>2. StepsLeft(depth, r) < StepsLeft(depth, s)
      BY <2>5, <2>12, <3>1
    <3> QED
      BY <2>2, <2>12, <3>2 DEF s, LeadsOn
  <2>13. CASE /\ s.stage = "through" /\ r.stage = "at"
              /\ s.place \in Pointers
              /\ Inner[Home[s.place]] # None
              /\ r.place = Inner[Home[s.place]] /\ r.rounds = s.rounds
    <3>1. /\ StepsLeft(depth, s) = 2 * depth[Home[s.place]] + 2
          /\ StepsLeft(depth, r) = 2 * depth[Inner[Home[s.place]]] + 3
      BY <2>13 DEF StepsLeft
    <3>2. /\ Home[s.place] \in Targets /\ Inner[Home[s.place]] \in Targets
          /\ depth[Inner[Home[s.place]]] < depth[Home[s.place]]
      BY <2>4, <2>6, <2>13
    <3>3. StepsLeft(depth, r) < StepsLeft(depth, s)
      BY <2>5, <3>1, <3>2
    <3> QED
      BY <2>2, <2>13, <3>3 DEF s, LeadsOn
  <2>14. CASE /\ s.stage = "through" /\ CallThrough(c) /\ ptr[s.place] \notin Trampolines
              /\ s.rounds < Rounds /\ r.rounds = s.rounds + 1
    <3>1. s.begun = "early"
      BY <2>4, <2>14
    <3>2. at = "attach" /\ phase = "point" /\ ops[index].pointer = s.place
      BY <2>14 DEF RoundsInCommit, s
    <3> QED
      BY <2>2, <2>14, <3>1, <3>2 DEF s, LeadsOn
  <2> QED
    BY <2>1, <2>8, <2>9, <2>10, <2>11, <2>12, <2>13, <2>14 DEF Step
<1>3. LibInv => Count
  BY Counted
<1> HIDE DEF Leads, Count
<1>4. LibSpec => []Count /\ [][Leads]_libVars
  BY <1>1, <1>2, <1>3, LibInitially, LibInductive, RoundsInductive, PTL DEF LibSpec
<1> QED
  BY <1>4 DEF Leads, Count

-----------------------------------------------------------------------------
(***************************************************************************)
(* DllMain comes to an end: attach, then, at the end of the process, detach, *)
(* each a loop over Order and a commit.                                     *)
(***************************************************************************)
Era(a) ==
  CASE a = "out" -> 5 [] a = "attach" -> 4 [] a = "in" -> 3 [] a = "detach" -> 2
    [] a = "gone" -> 1 [] a = "bare" -> 0

\* The loops of a transaction, of which the client's own is the first.
Course(p) == IF p = "open" THEN 4 ELSE Loop(p)

Turns == IF phase = "open" THEN Len(Order) + 1 - next ELSE index

Onwards ==
  \/ Era(at') < Era(at)
  \/ at' = at /\ Course(phase') < Course(phase)
  \/ at' = at /\ Course(phase') = Course(phase) /\ Turns' < Turns
  \/ /\ at' = at /\ Course(phase') = Course(phase) /\ Turns' = Turns
     /\ Writes(phase') < Writes(phase)

LEMMA Eras ==
  /\ Era("out") = 5 /\ Era("attach") = 4 /\ Era("in") = 3 /\ Era("detach") = 2
  /\ Era("gone") = 1 /\ Era("bare") = 0
  /\ Course("open") = 4
  /\ \A p \in {"apply", "point", "move", "restore", "undo", "idle"} :
       Course(p) = Loop(p) /\ Loop(p) < 4
  BY Loops DEF Era, Course

\* Every step of the commit is one onwards, or ends the transaction.
LEMMA CommittingOnwards ==
  ASSUME LibInv, LibInv', Committing
  PROVE  Onwards
<1>1. /\ owner # NoThread /\ phase \in {"apply", "point", "move", "restore", "undo"}
      /\ at \in {"attach", "detach"}
  <2>1. phase \in {"apply", "point", "move", "restore", "undo"}
    BY DEF Committing, Engine, Patch, Point, UpdateThreads, Restore, Finish
  <2> QED
    BY <2>1 DEF LibInv, LibCore, InOrder, Inv, Core, Owned
<1>2. CASE owner' = NoThread
  BY <1>1, <1>2, Eras DEF Committing, Onwards
<1>3. CASE owner' # NoThread
  <2>1. at' = at /\ next' = next
    BY <1>3 DEF Committing
  <2>2. phase' \in {"apply", "point", "move", "restore", "undo"}
    BY <1>1, <1>3 DEF Committing, Engine, Patch, Point, Onward, UpdateThreads, Restore, Finish
  <2>3. Course(phase) = Loop(phase) /\ Course(phase') = Loop(phase')
    BY <1>1, <2>2, Eras
  <2>4. Turns = index /\ Turns' = index'
    BY <1>1, <2>2 DEF Turns
  <2>5. Closer
    BY EngineCloser, LibLauncherAssumption DEF Committing, LibInv
  <2> QED
    BY <2>1, <2>3, <2>4, <2>5 DEF Closer, Onwards
<1> QED
  BY <1>2, <1>3

\* In the life of a process DllMain takes finitely many steps: each of them leads
\* on in a well-founded order, whatever fails, and no caller sets it back.  With
\* CallsLeadOn this is what CallsEnd rests on beside fairness.
THEOREM DllMainEnds ==
  LibSpec => /\ [](Turns \in Nat)
             /\ [][/\ DllMain \/ ProcessDetach => Onwards
                   /\ Onwards \/ UNCHANGED <<at, next, phase, index>>]_libVars
<1> DEFINE Leads == /\ DllMain \/ ProcessDetach => Onwards
                    /\ Onwards \/ UNCHANGED <<at, next, phase, index>>
<1>1. ASSUME LibInv PROVE Turns \in Nat
  <2>1. next \in 1 .. Len(Order) + 1 /\ index \in Nat /\ Len(Order) \in Nat
    BY <1>1, LibLauncherAssumption DEF LibInv, LibTypeOK, Inv, TypeOK
  <2> QED
    BY <2>1 DEF Turns
<1>2. ASSUME LibInv, LibInv', DllMain \/ ProcessDetach PROVE Onwards
  <2>1. CASE ProcessAttach
    BY <2>1, Eras DEF ProcessAttach, Onwards
  <2>2. CASE LoadAndAttach \/ DetachNext
    <3>1. owner # NoThread /\ phase = "open" /\ at' = at /\ next' = next + 1
      <4>1. at \in {"attach", "detach"} /\ at' = at /\ next' = next + 1 /\ next <= Len(Order)
        BY <2>2 DEF LoadAndAttach, DetachNext
      <4>2. owner # NoThread
        BY <1>2, <4>1 DEF LibInv, LibCore, Outside
      <4>3. next # Len(Order) + 1
        BY <4>1, LibLauncherAssumption
      <4> QED
        BY <1>2, <4>1, <4>2, <4>3 DEF LibInv, LibCore, InOrder
    <3>2. phase' = "open"
      BY <2>2, <3>1 DEF LoadAndAttach, DetachNext, Attach, AttachFails, Detach, DetachFails, Fail,
                        vars, transaction
    <3>3. next \in Nat /\ Len(Order) \in Nat
      BY <1>2, LibLauncherAssumption DEF LibInv, LibTypeOK
    <3>4. Turns = Len(Order) + 1 - next /\ Turns' = Len(Order) + 1 - (next + 1)
      BY <3>1, <3>2 DEF Turns
    <3> QED
      BY <3>1, <3>2, <3>3, <3>4 DEF Onwards
  <2>3. CASE CommitHooks
    BY <2>3, Eras DEF CommitHooks, Commit, Enter, lib, Onwards
  <2>4. CASE Committing
    BY <1>2, <2>4, CommittingOnwards
  <2>5. CASE ProcessDetach
    BY <2>5, Eras DEF ProcessDetach, Onwards
  <2> QED
    BY <1>2, <2>1, <2>2, <2>3, <2>4, <2>5 DEF DllMain
<1>3. ASSUME SetBlacklistedDlls
               \/ \E c \in Callers :
                    \/ Caller(c)
                    \/ \E g \in Targets, n \in Names : CallLoadLibrary(c, g, n)
      PROVE  UNCHANGED <<at, next, phase, index>>
  BY <1>3 DEF SetBlacklistedDlls, Caller, EnterFunction, RunOn, Tear, CallThrough, CallAgain,
              CallReturns, CallLoadLibrary, RunOriginal, Goes, Ends, Becomes, lib, vars,
              transaction
<1>4. LibInv /\ LibInv' /\ [LibNext]_libVars => [Leads]_libVars
  BY <1>2, <1>3 DEF LibNext
<1>5. LibInv => Turns \in Nat
  BY <1>1
<1> HIDE DEF Leads
<1>6. LibSpec => [](Turns \in Nat) /\ [][Leads]_libVars
  BY <1>4, <1>5, LibInvariant, PTL DEF LibSpec
<1> QED
  BY <1>6 DEF Leads
=============================================================================
