---------------------------- MODULE DetoursProofs ----------------------------
(***************************************************************************)
(* Proofs about Detours for any threads, functions, pages, regions and      *)
(* clients that keep to Client.                                             *)
(***************************************************************************)
EXTENDS Detours, TLAPS

USE DEF suspended

\* The operations that are still on the list.
Pending == {i \in DOMAIN ops : phase \in {"restore", "undo"} => i <= index}

\* How far commit is: the code and the pointer of operation i are written.
Patched(i) ==
  \/ phase \in {"move", "restore"}
  \/ phase = "apply" /\ i > index
  \/ phase = "point" /\ i >= index

Pointed(i) ==
  \/ phase \in {"move", "restore"}
  \/ phase \in {"apply", "point"} /\ i > index

\* A transaction has an owner, and its operations are gone when it ends.
Owned ==
  /\ owner = NoThread <=> phase = "idle"
  /\ phase = "idle" => ops = << >>
  /\ asked = "failed" => phase \in {"open", "undo"}
  /\ phase = "open" => (failed <=> asked = "failed")

\* What a pending operation works on: a trampoline of its own.
OperationsLive ==
  /\ \A i \in Pending :
       /\ tramp[ops[i].tramp] # Free
       /\ tramp[ops[i].tramp].pointer = ops[i].pointer
       /\ tramp[ops[i].tramp].target = ops[i].target
  /\ \A i, j \in Pending : ops[i].pointer = ops[j].pointer => i = j

\* Trampolines in use are of their pointer's function and hold its original code.
TrampolinesOriginal ==
  \A k \in Trampolines : tramp[k] # Free =>
    tramp[k].saved = Original /\ tramp[k].target = Home[tramp[k].pointer]

CodeLeadsSomewhere ==
  \A g \in Targets :
    code[g] # Original => tramp[code[g]] # Free /\ tramp[code[g]].target = g

PointersLeadHome ==
  \A p \in Pointers :
    IF ptr[p] \in Trampolines
    THEN tramp[ptr[p]] # Free /\ tramp[ptr[p]].pointer = p
    ELSE ptr[p] = Home[p]

\* What an attach will use is reached from nowhere before its turn, and what a
\* detach gives up is reached from nowhere after it.
ReachedInTurn ==
  \A i \in Pending :
    /\ ops[i].remove =>
         /\ Patched(i) => \A g \in Targets : code[g] # ops[i].tramp
         /\ ptr[ops[i].pointer] = IF Pointed(i) THEN ops[i].target ELSE ops[i].tramp
    /\ ~ops[i].remove =>
         /\ ~Patched(i) => \A g \in Targets : code[g] # ops[i].tramp
         /\ ptr[ops[i].pointer] = IF Pointed(i) THEN ops[i].tramp ELSE ops[i].target

\* A trampoline in use is its pointer's, or an operation's that is pending.
Accounted ==
  \A k \in Trampolines : tramp[k] # Free =>
    \/ ptr[tramp[k].pointer] = k
    \/ \E i \in Pending : ops[i].tramp = k

\* The first operation on a page found it sealed, later ones did not.
PermissionsKept ==
  /\ \A i \in Pending :
       ops[i].perm = IF \E j \in 1 .. i - 1 : Page[ops[j].target] = Page[ops[i].target]
                     THEN "RWX" ELSE "RX"
  /\ \A g \in Pages :
       prot[g] = IF \E i \in Pending : Page[ops[i].target] = g THEN "RWX" ELSE "RX"
  /\ owner = NoThread => writable = {}

\* Until commit begins to write nothing has changed.
NothingYet ==
  phase \in {"open", "undo"} => code = before.code /\ ptr = before.ptr

Core ==
  /\ Owned /\ OperationsLive /\ TrampolinesOriginal /\ CodeLeadsSomewhere
  /\ PointersLeadHome /\ ReachedInTurn /\ Accounted /\ PermissionsKept /\ NothingYet

Inv == TypeOK /\ Core

\* The threads were told of operation i.
Followed(i) == phase = "restore" \/ (phase = "move" /\ i > index)

\* Code that is not original was written last by an attach, or by no operation
\* of this transaction.
CodeByOperations ==
  phase # "idle" =>
    \A g \in Targets : code[g] # Original =>
      \/ \E i \in DOMAIN ops :
           /\ Patched(i) /\ ~ops[i].remove /\ ops[i].target = g
           /\ \A j \in DOMAIN ops : Patched(j) /\ ops[j].target = g => j >= i
      \/ /\ \A i \in DOMAIN ops : Patched(i) => ops[i].target # g
         /\ before.code[g] # Original

\* A suspended thread inside a function: what it was told last of this function
\* is a detach, or nothing.
InFunction(e) ==
  \A g \in Targets : Inside(e, g) /\ e[2] # 0 =>
    \A i \in DOMAIN ops :
      /\ Followed(i) /\ ops[i].target = g
      /\ \A j \in DOMAIN ops : Followed(j) /\ ops[j].target = g => j >= i
      => ops[i].remove

\* It has left the trampolines of detaches, as far as commit looks.
OutOfTrampolines(e) ==
  \A i \in DOMAIN ops :
    Followed(i) /\ ops[i].remove /\ Inside(e, ops[i].tramp) => e[2] >= Scanned

ThreadsFollow ==
  phase # "idle" =>
    \A w \in enlisted \ missed :
      eip[w] = Lost \/ (InFunction(eip[w]) /\ OutOfTrampolines(eip[w]))

\* Trampolines that threads are in are in use and have been published.
TrampolinesEntered ==
  \A w \in Workers, k \in Trampolines : Inside(eip[w], k) =>
    /\ tramp[k] # Free
    /\ \A i \in Pending : ops[i].tramp = k /\ ~ops[i].remove => Pointed(i)

Following == CodeByOperations /\ ThreadsFollow /\ TrampolinesEntered

\* What the operations have written so far, until the transaction ends.
Written ==
  /\ \A i, j \in DOMAIN ops : ops[i].pointer = ops[j].pointer => i = j
  /\ \A i \in DOMAIN ops : Pointed(i) =>
       ptr[ops[i].pointer] = IF ops[i].remove THEN ops[i].target ELSE ops[i].tramp
  /\ \A i \in DOMAIN ops :
       Patched(i) /\ (\A j \in 1 .. i - 1 : Patched(j) => ops[j].target # ops[i].target) =>
         code[ops[i].target] = IF ops[i].remove THEN Original ELSE ops[i].tramp

-----------------------------------------------------------------------------
\* Sequences of operations.

LEMMA PushSeq ==
  ASSUME NEW s \in Seq(Operation), NEW o \in Operation
  PROVE  /\ Append(s, o) \in Seq(Operation)
         /\ Len(Append(s, o)) = Len(s) + 1
         /\ DOMAIN Append(s, o) = 1 .. Len(s) + 1
         /\ \A i \in 1 .. Len(s) : Append(s, o)[i] = s[i]
         /\ Append(s, o)[Len(s) + 1] = o
  OBVIOUS

LEMMA OperationAt ==
  ASSUME TypeOK
  PROVE  /\ Len(ops) \in Nat
         /\ DOMAIN ops = 1 .. Len(ops)
         /\ \A i \in DOMAIN ops :
              /\ ops[i] \in Operation /\ ops[i].remove \in BOOLEAN
              /\ ops[i].pointer \in Pointers /\ ops[i].target \in Targets
              /\ ops[i].tramp \in Trampolines /\ ops[i].perm \in {"RX", "RWX"}
<1>1. /\ Len(ops) \in Nat
      /\ DOMAIN ops = 1 .. Len(ops)
      /\ \A i \in DOMAIN ops : ops[i] \in Operation
  BY DEF TypeOK
<1>2. \A o \in Operation :
        /\ o.remove \in BOOLEAN
        /\ o.pointer \in Pointers /\ o.target \in Targets
        /\ o.tramp \in Trampolines /\ o.perm \in {"RX", "RWX"}
  BY DEF Operation
<1> QED
  BY <1>1, <1>2

\* What is in use of a trampoline in use.
LEMMA UseAt ==
  ASSUME TypeOK, NEW k \in Trampolines, tramp[k] # Free
  PROVE  /\ tramp[k] \in Use
         /\ tramp[k].pointer \in Pointers /\ tramp[k].target \in Targets
         /\ tramp[k].saved \in Jump
  BY DEF TypeOK, Use

-----------------------------------------------------------------------------
LEMMA Initially == Init => Inv
<1> SUFFICES ASSUME Init PROVE Inv
  OBVIOUS
<1> USE DetoursAssumption
<1>1. TypeOK
  <2>1. code \in [Targets -> Jump] /\ ptr \in [Pointers -> Targets \cup Trampolines]
    BY DEF Init, Jump
  <2>2. before \in [code : [Targets -> Jump], ptr : [Pointers -> Targets \cup Trampolines]]
    BY <2>1 DEF Init
  <2>3. ops \in Seq(Operation)
    BY DEF Init
  <2>4. eip \in [Workers -> Places] /\ tramp \in [Trampolines -> Use \cup {Free}]
    BY DEF Init, Places
  <2> QED
    BY <2>1, <2>2, <2>3, <2>4 DEF Init, TypeOK
<1>2. ops = << >> /\ DOMAIN ops = {} /\ Pending = {}
  BY DEF Init, Pending
<1>3. Core
  BY <1>2 DEF Init, Core, Owned, OperationsLive, TrampolinesOriginal, CodeLeadsSomewhere,
              PointersLeadHome, ReachedInTurn, Accounted, PermissionsKept, NothingYet
<1> QED
  BY <1>1, <1>3 DEF Inv

\* Core does not look at the threads or at the regions.
LEMMA CoreKept ==
  ASSUME Core, UNCHANGED <<owner, failed, ops, phase, index, memory, before, asked>>,
         owner # NoThread \/ writable' = writable
  PROVE  Core'
<1>1. Pending' = Pending /\ \A i : Patched(i)' = Patched(i) /\ Pointed(i)' = Pointed(i)
  BY DEF Pending, Patched, Pointed
<1> USE <1>1 DEF Core, memory
<1>2. Owned' /\ NothingYet'
  BY DEF Owned, NothingYet
<1>3. OperationsLive' /\ TrampolinesOriginal' /\ CodeLeadsSomewhere' /\ PointersLeadHome'
  BY DEF OperationsLive, TrampolinesOriginal, CodeLeadsSomewhere, PointersLeadHome
<1>4. ReachedInTurn' /\ Accounted'
  BY DEF ReachedInTurn, Accounted
<1>5. PermissionsKept'
  BY DEF PermissionsKept, Owned
<1> QED
  BY <1>2, <1>3, <1>4, <1>5

LEMMA BeginStep ==
  ASSUME Inv, NEW t \in Threads, Begin(t)
  PROVE  Inv'
<1> USE DetoursAssumption DEF Begin, Inv, memory
<1>1. TypeOK'
  <2>1. before' \in [code : [Targets -> Jump], ptr : [Pointers -> Targets \cup Trampolines]]
    BY DEF TypeOK
  <2>2. ops' \in Seq(Operation)
    OBVIOUS
  <2> QED
    BY <2>1, <2>2 DEF TypeOK
<1>2. /\ ops = << >> /\ DOMAIN ops = {} /\ Pending = {}
      /\ ops' = << >> /\ DOMAIN ops' = {} /\ Pending' = {}
  BY DEF Pending, Core, Owned
<1>3. Owned' /\ NothingYet'
  BY DEF Core, Owned, NothingYet
<1>4. OperationsLive' /\ TrampolinesOriginal' /\ CodeLeadsSomewhere' /\ PointersLeadHome'
  BY <1>2 DEF Core, OperationsLive, TrampolinesOriginal, CodeLeadsSomewhere, PointersLeadHome
<1>5. ReachedInTurn' /\ Accounted'
  BY <1>2 DEF Core, ReachedInTurn, Accounted
<1>6. PermissionsKept'
  BY <1>2 DEF Core, PermissionsKept
<1> QED
  BY <1>1, <1>3, <1>4, <1>5, <1>6 DEF Core

\* Enlisting a thread, and whatever fails before it is on a list.
LEMMA EnlistStep ==
  ASSUME Inv, NEW t \in Threads, NEW w \in Workers, Enlist(t, w)
  PROVE  Inv'
<1>1. TypeOK'
  BY DEF Inv, TypeOK, Enlist, transaction, memory, blocks
<1>2. Core'
  BY CoreKept DEF Inv, Enlist, transaction, blocks
<1> QED
  BY <1>1, <1>2 DEF Inv

LEMMA FailStep ==
  ASSUME Inv, Fail, regions' \subseteq Regions, writable' \subseteq regions',
         owner # NoThread \/ writable' = writable
  PROVE  Inv'
<1> USE DEF Fail, suspended, memory
<1>1. TypeOK'
  BY DEF Inv, TypeOK
<1>2. Pending' = Pending /\ \A i : Patched(i)' = Patched(i) /\ Pointed(i)' = Pointed(i)
  BY DEF Pending, Patched, Pointed
<1> USE <1>2 DEF Core, Inv
<1>3. Owned' /\ NothingYet'
  BY DEF Owned, NothingYet
<1>4. OperationsLive' /\ TrampolinesOriginal' /\ CodeLeadsSomewhere' /\ PointersLeadHome'
  BY DEF OperationsLive, TrampolinesOriginal, CodeLeadsSomewhere, PointersLeadHome
<1>5. ReachedInTurn' /\ Accounted'
  BY DEF ReachedInTurn, Accounted
<1>6. PermissionsKept'
  BY DEF PermissionsKept, Owned
<1> QED
  BY <1>1, <1>3, <1>4, <1>5, <1>6

\* An attach that is refused is not on a list.
LEMMA RefusedStep ==
  ASSUME Inv, NEW t \in Threads, AttachRefused(t)
  PROVE  Inv'
<1> USE DEF AttachRefused, MayAsk, suspended, memory, blocks
<1>1. TypeOK'
  BY DEF Inv, TypeOK
<1>2. Pending' = Pending /\ \A i : Patched(i)' = Patched(i) /\ Pointed(i)' = Pointed(i)
  BY DEF Pending, Patched, Pointed
<1> USE <1>2 DEF Core, Inv
<1>3. Owned' /\ NothingYet'
  BY DEF Owned, NothingYet
<1>4. OperationsLive' /\ TrampolinesOriginal' /\ CodeLeadsSomewhere' /\ PointersLeadHome'
  BY DEF OperationsLive, TrampolinesOriginal, CodeLeadsSomewhere, PointersLeadHome
<1>5. ReachedInTurn' /\ Accounted'
  BY DEF ReachedInTurn, Accounted
<1>6. PermissionsKept'
  BY DEF PermissionsKept
<1> QED
  BY <1>1, <1>3, <1>4, <1>5, <1>6

\* While the transaction is open all operations are pending and none is done.
LEMMA OpenPending ==
  ASSUME Inv, phase = "open"
  PROVE  /\ Pending = 1 .. Len(ops) /\ DOMAIN ops = 1 .. Len(ops) /\ Len(ops) \in Nat
         /\ \A i : ~Patched(i) /\ ~Pointed(i)
  BY OperationAt DEF Inv, Pending, Patched, Pointed

\* A new operation on a page that it unprotects.
LEMMA PushKeepsPermissions ==
  ASSUME TypeOK, PermissionsKept, phase = "open", phase' = phase, owner' # NoThread,
         NEW o \in Operation, o.perm = prot[Page[o.target]], ops' = Append(ops, o),
         prot' = [prot EXCEPT ![Page[o.target]] = "RWX"]
  PROVE  PermissionsKept'
<1> USE DetoursAssumption
<1> DEFINE g == o.target
           n == Len(ops) + 1
<1>1. prot' = [prot EXCEPT ![Page[g]] = "RWX"] /\ owner' # NoThread
  OBVIOUS
<1>2. /\ g \in Targets /\ Page[g] \in Pages /\ prot[Page[g]] \in {"RX", "RWX"}
      /\ o.target = g /\ o.perm = prot[Page[g]]
  BY DEF Operation, TypeOK
<1>3. /\ ops' \in Seq(Operation) /\ Len(ops') = n /\ DOMAIN ops' = 1 .. n
      /\ \A i \in 1 .. Len(ops) : ops'[i] = ops[i]
      /\ ops'[n] = o
  BY PushSeq DEF TypeOK
<1>4. /\ n \in Nat /\ n = Len(ops) + 1 /\ Pending = 1 .. Len(ops) /\ Pending' = 1 .. n
      /\ \A i \in 1 .. n : i = n \/ i \in 1 .. Len(ops)
  BY <1>3, OperationAt DEF Pending
<1> HIDE DEF g, n
<1>5. \A i \in Pending' :
        ops'[i].perm = IF \E j \in 1 .. i - 1 : Page[ops'[j].target] = Page[ops'[i].target]
                       THEN "RWX" ELSE "RX"
  <2>1. ASSUME NEW i \in 1 .. Len(ops)
        PROVE  /\ ops'[i] = ops[i]
               /\ \A j \in 1 .. i - 1 : ops'[j] = ops[j]
    BY <1>3, <1>4
  <2>2. \A j \in 1 .. n - 1 : j \in 1 .. Len(ops) /\ ops'[j] = ops[j]
    BY <1>3, <1>4
  <2>3. n - 1 = Len(ops)
    BY <1>4
  <2>4. ASSUME NEW i \in 1 .. Len(ops)
        PROVE  ops'[i].perm = IF \E j \in 1 .. i - 1 : Page[ops'[j].target] = Page[ops'[i].target]
                              THEN "RWX" ELSE "RX"
    BY <2>1, <1>4 DEF PermissionsKept
  <2>5. ops'[n].perm = IF \E j \in 1 .. n - 1 : Page[ops'[j].target] = Page[ops'[n].target]
                       THEN "RWX" ELSE "RX"
    BY <2>2, <2>3, <1>2, <1>3, <1>4, <1>2 DEF PermissionsKept
  <2> QED
    BY <2>4, <2>5, <1>4
<1>6. \A x \in Pages :
        prot'[x] = IF \E i \in Pending' : Page[ops'[i].target] = x THEN "RWX" ELSE "RX"
  <2>1. TAKE x \in Pages
  <2>2. CASE x = Page[g]
    <3>1. prot'[x] = "RWX"
      BY <2>2, <1>1 DEF TypeOK
    <3>2. n \in Pending' /\ Page[ops'[n].target] = x
      BY <2>2, <1>3, <1>4, <1>2
    <3> QED
      BY <3>1, <3>2
  <2>3. CASE x # Page[g]
    <3>1. prot'[x] = prot[x]
      BY <2>3, <1>1 DEF TypeOK
    <3>2. (\E i \in Pending' : Page[ops'[i].target] = x)
            <=> (\E i \in Pending : Page[ops[i].target] = x)
      BY <2>3, <1>3, <1>4, <1>2
    <3> QED
      BY <3>1, <3>2 DEF PermissionsKept
  <2> QED
    BY <2>2, <2>3
<1>7. owner' # NoThread
  BY <1>1
<1> QED
  BY <1>5, <1>6, <1>7 DEF PermissionsKept

LEMMA AttachStep ==
  ASSUME Inv, NEW t \in Threads, NEW p \in Pointers, ~Named(p), Untouched(p), Attach(t, p)
  PROVE  Inv'
<1> USE DetoursAssumption
<1> DEFINE g == ptr[p]
           n == Len(ops) + 1
<1>1. PICK k \in Trampolines :
        /\ Allocate(k)
        /\ tramp' = [tramp EXCEPT ![k] = [pointer |-> p, target |-> g, saved |-> code[g]]]
        /\ Push([remove |-> FALSE, pointer |-> p, target |-> g, tramp |-> k,
                 perm |-> prot[Page[g]]])
  BY DEF Attach
<1> DEFINE o == [remove |-> FALSE, pointer |-> p, target |-> g, tramp |-> k,
                 perm |-> prot[Page[g]]]
           u == [pointer |-> p, target |-> g, saved |-> code[g]]
<1>2. /\ owner = t /\ phase = "open" /\ ~failed
      /\ prot' = [prot EXCEPT ![Page[g]] = "RWX"]
      /\ UNCHANGED <<owner, failed, phase, index, freed, before, asked, suspended,
                     code, ptr, eip>>
  BY DEF Attach, MayAsk
<1>3. g \in Targets /\ code[g] = Original /\ Page[g] \in Pages /\ prot[Page[g]] \in {"RX", "RWX"}
  BY DEF Untouched, Inv, TypeOK
<1>4. tramp[k] = Free
  BY <1>1 DEF Allocate, Vacant
<1>5. regions' \subseteq Regions /\ writable' \subseteq regions'
  BY <1>1 DEF Allocate, Vacant, Inv, TypeOK, blocks, Trampolines
<1>6. o \in Operation /\ u \in Use /\ u # Free
  BY <1>3 DEF Operation, Use, Jump
<1>7. ops' = Append(ops, o)
  BY <1>1 DEF Push
<1>8. /\ ops' \in Seq(Operation) /\ Len(ops') = n /\ DOMAIN ops' = 1 .. n
      /\ \A i \in 1 .. Len(ops) : ops'[i] = ops[i]
      /\ ops'[n] = o
  BY <1>6, <1>7, PushSeq DEF Inv, TypeOK
<1>9. /\ tramp' \in [Trampolines -> Use \cup {Free}]
      /\ tramp'[k] = u
      /\ \A j \in Trampolines : j # k => tramp'[j] = tramp[j]
  BY <1>1, <1>6 DEF Inv, TypeOK
<1>10. /\ n \in Nat /\ n = Len(ops) + 1 /\ Pending = 1 .. Len(ops) /\ Pending' = 1 .. n
       /\ \A i : ~Patched(i) /\ ~Pointed(i) /\ ~Patched(i)' /\ ~Pointed(i)'
       /\ \A i \in 1 .. n : i = n \/ i \in 1 .. Len(ops)
  BY <1>2, <1>8, OpenPending DEF Pending, Patched, Pointed
<1>11. \A i \in 1 .. Len(ops) :
         /\ ops[i].tramp # k /\ ops[i].pointer # p
         /\ ops[i].tramp \in Trampolines /\ ops[i].target \in Targets
         /\ ops[i].pointer \in Pointers
  BY <1>4, <1>10, OperationAt DEF Inv, Core, OperationsLive, Named, Pending
<1>12. (\A x \in Targets : code[x] # k) /\ (\A q \in Pointers : ptr[q] # k)
  BY <1>4 DEF Inv, Core, CodeLeadsSomewhere, PointersLeadHome, TypeOK
<1>13. g = Home[p]
  BY <1>3 DEF Inv, Core, PointersLeadHome
<1>14. /\ o.remove = FALSE /\ o.pointer = p /\ o.target = g /\ o.tramp = k
       /\ o.perm = prot[Page[g]]
       /\ u.pointer = p /\ u.target = g /\ u.saved = Original /\ g = ptr[p]
  BY <1>3
<1> HIDE DEF g, n, o, u
<1>20. TypeOK'
  BY <1>2, <1>3, <1>5, <1>8, <1>9 DEF Inv, TypeOK
<1>21. Owned' /\ NothingYet'
  BY <1>2 DEF Inv, Core, Owned, NothingYet
<1>22. OperationsLive'
  <2>1. \A i \in 1 .. Len(ops) :
          /\ ops'[i] = ops[i] /\ tramp'[ops[i].tramp] = tramp[ops[i].tramp]
          /\ tramp[ops[i].tramp] # Free
          /\ tramp[ops[i].tramp].pointer = ops[i].pointer
          /\ tramp[ops[i].tramp].target = ops[i].target
    BY <1>8, <1>9, <1>10, <1>11 DEF Inv, Core, OperationsLive
  <2>2. \A i \in Pending' :
          /\ tramp'[ops'[i].tramp] # Free
          /\ tramp'[ops'[i].tramp].pointer = ops'[i].pointer
          /\ tramp'[ops'[i].tramp].target = ops'[i].target
    BY <2>1, <1>6, <1>8, <1>9, <1>10, <1>14
  <2>3. \A i, j \in 1 .. Len(ops) : ops[i].pointer = ops[j].pointer => i = j
    BY <1>10 DEF Inv, Core, OperationsLive
  <2>4. \A i, j \in Pending' : ops'[i].pointer = ops'[j].pointer => i = j
    BY <2>3, <1>8, <1>10, <1>11, <1>14
  <2> QED
    BY <2>2, <2>4 DEF OperationsLive
<1>23. TrampolinesOriginal'
  BY <1>9, <1>13, <1>14 DEF Inv, Core, TrampolinesOriginal
<1>24. CodeLeadsSomewhere' /\ PointersLeadHome'
  BY <1>2, <1>9, <1>12 DEF Inv, Core, CodeLeadsSomewhere, PointersLeadHome, TypeOK, Jump
<1>25. ReachedInTurn'
  BY <1>2, <1>3, <1>8, <1>10, <1>11, <1>12, <1>14 DEF Inv, Core, ReachedInTurn
<1>26. Accounted'
  <2>1. k = ops'[n].tramp /\ n \in Pending'
    BY <1>8, <1>10, <1>14
  <2>2. \A i \in Pending : i \in Pending' /\ ops'[i] = ops[i]
    BY <1>8, <1>10
  <2> QED
    BY <2>1, <2>2, <1>2, <1>9 DEF Inv, Core, Accounted
<1>27. PermissionsKept'
  BY <1>2, <1>6, <1>7, <1>14, PushKeepsPermissions DEF Inv, Core
<1> QED
  BY <1>20, <1>21, <1>22, <1>23, <1>24, <1>25, <1>26, <1>27 DEF Inv, Core

LEMMA DetachStep ==
  ASSUME Inv, NEW t \in Threads, NEW p \in Pointers, ~Named(p), Detach(t, p)
  PROVE  Inv'
<1> USE DetoursAssumption
<1> DEFINE k == ptr[p]
           g == tramp[k].target
           n == Len(ops) + 1
           o == [remove |-> TRUE, pointer |-> p, target |-> g, tramp |-> k,
                 perm |-> prot[Page[g]]]
<1>1. /\ Push(o)
      /\ prot' = [prot EXCEPT ![Page[g]] = "RWX"]
      /\ k \in Trampolines /\ tramp[k] # Free /\ tramp[k].pointer = p
      /\ owner = t /\ phase = "open" /\ ~failed
      /\ UNCHANGED <<owner, failed, phase, index, freed, before, asked, suspended, code, ptr,
                     tramp, blocks, eip>>
  BY DEF Detach, Attached, MayAsk
<1>2. g \in Targets /\ Page[g] \in Pages /\ prot[Page[g]] \in {"RX", "RWX"}
  BY <1>1, UseAt DEF Inv, TypeOK
<1>3. o \in Operation
  BY <1>1, <1>2 DEF Operation
<1>4. /\ ops' \in Seq(Operation) /\ Len(ops') = n /\ DOMAIN ops' = 1 .. n
      /\ \A i \in 1 .. Len(ops) : ops'[i] = ops[i]
      /\ ops'[n] = o
  BY <1>1, <1>3, PushSeq DEF Inv, TypeOK, Push
<1>5. /\ n \in Nat /\ n = Len(ops) + 1 /\ Pending = 1 .. Len(ops) /\ Pending' = 1 .. n
      /\ \A i : ~Patched(i) /\ ~Pointed(i) /\ ~Patched(i)' /\ ~Pointed(i)'
      /\ \A i \in 1 .. n : i = n \/ i \in 1 .. Len(ops)
  BY <1>1, <1>4, OpenPending DEF Pending, Patched, Pointed
<1>6. \A i \in 1 .. Len(ops) :
        /\ ops[i].pointer # p
        /\ ops[i].tramp \in Trampolines /\ ops[i].target \in Targets
        /\ ops[i].pointer \in Pointers
  BY <1>5, OperationAt DEF Inv, Named
<1>7. /\ o.remove = TRUE /\ o.pointer = p /\ o.target = g /\ o.tramp = k
      /\ o.perm = prot[Page[g]]
  OBVIOUS
<1>8. k = ptr[p] /\ g = tramp[k].target
  OBVIOUS
<1> HIDE DEF g, k, n, o
<1>20. TypeOK'
  BY <1>1, <1>2, <1>4 DEF Inv, TypeOK, blocks
<1>21. Owned' /\ NothingYet'
  BY <1>1 DEF Inv, Core, Owned, NothingYet
<1>22. OperationsLive'
  BY SMTT(30), <1>1, <1>4, <1>5, <1>6, <1>7, <1>8 DEF Inv, Core, OperationsLive
<1>23. TrampolinesOriginal' /\ CodeLeadsSomewhere' /\ PointersLeadHome'
  BY <1>1 DEF Inv, Core, TrampolinesOriginal, CodeLeadsSomewhere, PointersLeadHome
<1>24. ReachedInTurn'
  BY <1>1, <1>4, <1>5, <1>6, <1>7, <1>8 DEF Inv, Core, ReachedInTurn
<1>25. Accounted'
  <2>1. \A i \in Pending : i \in Pending' /\ ops'[i] = ops[i]
    BY <1>4, <1>5
  <2> QED
    BY <2>1, <1>1 DEF Inv, Core, Accounted
<1>26. PermissionsKept'
  BY <1>1, <1>3, <1>7, PushKeepsPermissions DEF Inv, Core, Push
<1> QED
  BY <1>20, <1>21, <1>22, <1>23, <1>24, <1>25, <1>26 DEF Inv, Core

-----------------------------------------------------------------------------
LEMMA TrampolinesApart ==
  ASSUME Inv, NEW i \in Pending, NEW j \in Pending, i # j
  PROVE  ops[i].tramp # ops[j].tramp
  BY DEF Inv, Core, OperationsLive

LEMMA PendingAt ==
  ASSUME Inv, NEW i \in Pending
  PROVE  /\ i \in 1 .. Len(ops) /\ i \in DOMAIN ops /\ Len(ops) \in Nat
         /\ ops[i].remove \in BOOLEAN /\ ops[i].perm \in {"RX", "RWX"}
         /\ ops[i].pointer \in Pointers /\ ops[i].target \in Targets
         /\ ops[i].tramp \in Trampolines
         /\ tramp[ops[i].tramp] # Free
         /\ tramp[ops[i].tramp].pointer = ops[i].pointer
         /\ tramp[ops[i].tramp].target = ops[i].target
         /\ tramp[ops[i].tramp].saved = Original
         /\ Home[ops[i].pointer] = ops[i].target
  BY OperationAt DEF Inv, Core, OperationsLive, TrampolinesOriginal, Pending

LEMMA EnterStep ==
  ASSUME Inv, NEW t \in Threads, owner = t, phase = "open",
         NEW q \in {"undo", "apply", "restore"}, Enter(q),
         q # "undo" => ~failed, q = "apply" => ops # << >>, q = "restore" => ops = << >>
  PROVE  Inv'
<1> USE DEF Enter, Aside, memory, blocks
<1>1. /\ Pending = 1 .. Len(ops) /\ DOMAIN ops = 1 .. Len(ops) /\ Len(ops) \in Nat
      /\ \A i : ~Patched(i) /\ ~Pointed(i)
  BY OpenPending
<1>2. Pending' = Pending
  BY <1>1 DEF Pending
<1>3. \A i \in Pending : ~Patched(i)' /\ ~Pointed(i)'
  BY <1>1 DEF Patched, Pointed
<1>4. TypeOK'
  BY <1>1 DEF Inv, TypeOK
<1> USE <1>1, <1>2, <1>3 DEF Inv, Core
<1>5. Owned' /\ NothingYet'
  BY DetoursAssumption DEF Owned, NothingYet
<1>6. OperationsLive' /\ TrampolinesOriginal' /\ CodeLeadsSomewhere' /\ PointersLeadHome'
  BY DEF OperationsLive, TrampolinesOriginal, CodeLeadsSomewhere, PointersLeadHome
<1>7. ReachedInTurn' /\ Accounted'
  BY DEF ReachedInTurn, Accounted
<1>8. PermissionsKept'
  BY SMTT(30) DEF PermissionsKept
<1> QED
  BY <1>4, <1>5, <1>6, <1>7, <1>8

LEMMA PatchStep ==
  ASSUME Inv, NEW t \in Threads, Patch(t)
  PROVE  Inv'
<1> USE DetoursAssumption
<1> DEFINE o == ops[index]
           v == IF o.remove THEN tramp[o.tramp].saved ELSE o.tramp
<1>1. /\ owner = t /\ phase = "apply" /\ phase' = "point"
      /\ code' = [code EXCEPT ![o.target] = v]
      /\ UNCHANGED <<owner, failed, ops, freed, before, asked, suspended, index, ptr, tramp,
                     prot, regions, writable, eip>>
  BY DEF Patch, Aside, blocks
<1>2. Pending = DOMAIN ops /\ Pending' = Pending /\ index \in Pending
  BY <1>1, OperationAt DEF Pending, Inv, TypeOK
<1>3. \A i \in Pending : /\ Patched(i) <=> i > index
                         /\ Patched(i)' <=> i >= index
                         /\ Pointed(i)' <=> Pointed(i)
  BY <1>1 DEF Patched, Pointed
<1>4. /\ o.target \in Targets /\ o.tramp \in Trampolines /\ o.remove \in BOOLEAN
      /\ tramp[o.tramp] # Free /\ tramp[o.tramp].target = o.target
      /\ tramp[o.tramp].saved = Original
  BY <1>2, PendingAt
<1>5. /\ v = IF o.remove THEN Original ELSE o.tramp
      /\ v \in Jump
  BY <1>4 DEF Jump
<1>6. /\ code' \in [Targets -> Jump] /\ code'[o.target] = v
      /\ \A x \in Targets : x # o.target => code'[x] = code[x]
  BY <1>1, <1>4, <1>5 DEF Inv, TypeOK
<1> HIDE DEF v
<1>7. TypeOK'
  BY <1>1, <1>6 DEF Inv, TypeOK
<1>8. Owned' /\ NothingYet'
  BY <1>1 DEF Inv, Core, Owned, NothingYet
<1>9. OperationsLive' /\ TrampolinesOriginal' /\ PointersLeadHome' /\ Accounted'
  BY <1>1, <1>2 DEF Inv, Core, OperationsLive, TrampolinesOriginal, PointersLeadHome, Accounted
<1>10. CodeLeadsSomewhere'
  BY <1>1, <1>4, <1>5, <1>6 DEF Inv, Core, CodeLeadsSomewhere
<1>11. ReachedInTurn'
  <2>1. ASSUME NEW i \in Pending
        PROVE  /\ ops[i].remove => (Patched(i)' => \A x \in Targets : code'[x] # ops[i].tramp)
               /\ ~ops[i].remove => (~Patched(i)' => \A x \in Targets : code'[x] # ops[i].tramp)
    <3>1. i \in 1 .. Len(ops) /\ index \in 1 .. Len(ops) /\ Len(ops) \in Nat /\ ops[i].tramp \in Trampolines
      BY <1>2, PendingAt
    <3>2. CASE i = index
      <4>1. ASSUME o.remove, NEW x \in Targets PROVE code'[x] # o.tramp
        BY <4>1, <1>4, <1>5, <1>6 DEF Inv, Core, CodeLeadsSomewhere
      <4> QED
        BY <4>1, <3>1, <3>2, <1>3
    <3>3. CASE i # index
      <4>1. v # ops[i].tramp
        BY <3>1, <3>3, <1>2, <1>5, TrampolinesApart
      <4>2. Patched(i)' <=> Patched(i)
        BY <3>1, <3>3, <1>3
      <4> QED
        BY <4>1, <4>2, <1>6 DEF Inv, Core, ReachedInTurn
    <3> QED
      BY <3>2, <3>3
  <2> QED
    BY <2>1, <1>1, <1>2, <1>3 DEF Inv, Core, ReachedInTurn
<1>12. PermissionsKept'
  BY <1>1, <1>2 DEF Inv, Core, PermissionsKept
<1> QED
  BY <1>7, <1>8, <1>9, <1>10, <1>11, <1>12 DEF Inv, Core

LEMMA PointStep ==
  ASSUME Inv, NEW t \in Threads, Point(t)
  PROVE  Inv'
<1> USE DetoursAssumption
<1> DEFINE o == ops[index]
           v == IF o.remove THEN o.target ELSE o.tramp
<1>1. /\ owner = t /\ phase = "point"
      /\ ptr' = [ptr EXCEPT ![o.pointer] = v]
      /\ UNCHANGED <<owner, failed, ops, freed, before, asked, suspended, code, tramp,
                     prot, regions, writable, eip>>
      /\ \/ index > 1 /\ phase' = "apply" /\ index' = index - 1
         \/ index = 1 /\ phase' = "move" /\ index' = Len(ops)
  BY DEF Point, Onward, Aside, blocks
<1>2. /\ Pending = DOMAIN ops /\ Pending' = Pending /\ index \in Pending
      /\ Len(ops) \in Nat /\ DOMAIN ops = 1 .. Len(ops) /\ index' \in 1 .. Len(ops)
  <2>1. Len(ops) \in Nat /\ DOMAIN ops = 1 .. Len(ops) /\ index \in 1 .. Len(ops)
    BY <1>1, OperationAt DEF Inv, TypeOK
  <2>2. Pending = DOMAIN ops /\ Pending' = DOMAIN ops
    BY <1>1 DEF Pending
  <2>3. index' \in 1 .. Len(ops)
    BY <1>1, <2>1
  <2> QED
    BY <2>1, <2>2, <2>3
<1>3. \A i \in Pending : /\ Pointed(i) <=> i > index
                         /\ Pointed(i)' <=> i >= index
                         /\ Patched(i)' <=> Patched(i)
  BY <1>1, <1>2 DEF Patched, Pointed
<1>4. /\ o.target \in Targets /\ o.tramp \in Trampolines /\ o.remove \in BOOLEAN
      /\ o.pointer \in Pointers
      /\ tramp[o.tramp] # Free /\ tramp[o.tramp].target = o.target
      /\ tramp[o.tramp].pointer = o.pointer /\ Home[o.pointer] = o.target
  BY <1>2, PendingAt
<1>5. /\ ptr' \in [Pointers -> Targets \cup Trampolines] /\ ptr'[o.pointer] = v
      /\ \A x \in Pointers : x # o.pointer => ptr'[x] = ptr[x]
  BY <1>1, <1>4 DEF Inv, TypeOK
<1>6. \A i \in Pending : i # index => ops[i].pointer # o.pointer
  BY <1>2 DEF Inv, Core, OperationsLive
<1>7. TypeOK'
  BY <1>1, <1>2, <1>5 DEF Inv, TypeOK
<1>8. Owned' /\ NothingYet'
  BY <1>1 DEF Inv, Core, Owned, NothingYet
<1>9. OperationsLive' /\ TrampolinesOriginal' /\ CodeLeadsSomewhere'
  BY <1>1, <1>2 DEF Inv, Core, OperationsLive, TrampolinesOriginal, CodeLeadsSomewhere
<1>10. PointersLeadHome'
  BY <1>1, <1>4, <1>5 DEF Inv, Core, PointersLeadHome
<1>11. ReachedInTurn'
  <2>1. ASSUME NEW i \in Pending
        PROVE  /\ ops[i].remove =>
                    ptr'[ops[i].pointer] = IF Pointed(i)' THEN ops[i].target ELSE ops[i].tramp
               /\ ~ops[i].remove =>
                    ptr'[ops[i].pointer] = IF Pointed(i)' THEN ops[i].tramp ELSE ops[i].target
    <3>1. i \in 1 .. Len(ops) /\ index \in 1 .. Len(ops) /\ ops[i].pointer \in Pointers
      BY <1>2, PendingAt
    <3>2. CASE i = index
      BY <3>1, <3>2, <1>3, <1>5
    <3>3. CASE i # index
      <4>1. Pointed(i)' <=> Pointed(i)
        BY <3>1, <3>3, <1>3
      <4>2. ptr'[ops[i].pointer] = ptr[ops[i].pointer]
        BY <3>1, <3>3, <1>5, <1>6
      <4> QED
        BY <4>1, <4>2 DEF Inv, Core, ReachedInTurn
    <3> QED
      BY <3>2, <3>3
  <2> QED
    BY <2>1, <1>1, <1>2, <1>3 DEF Inv, Core, ReachedInTurn
<1>12. Accounted'
  <2>1. ptr[o.pointer] = IF o.remove THEN o.tramp ELSE o.target
    BY <1>2, <1>3 DEF Inv, Core, ReachedInTurn
  <2>2. ASSUME NEW k \in Trampolines, tramp[k] # Free, ptr[tramp[k].pointer] = k,
               \A i \in Pending : ops[i].tramp # k
        PROVE  ptr'[tramp[k].pointer] = k
    <3>1. tramp[k].pointer # o.pointer
      BY <2>1, <2>2, <1>2, <1>4
    <3> QED
      BY <3>1, <2>2, <1>5, UseAt DEF Inv
  <2> QED
    BY <2>2, <1>1, <1>2 DEF Inv, Core, Accounted
<1>13. PermissionsKept'
  BY <1>1, <1>2 DEF Inv, Core, PermissionsKept
<1> QED
  BY <1>7, <1>8, <1>9, <1>10, <1>11, <1>12, <1>13 DEF Inv, Core

LEMMA FollowPlace ==
  ASSUME NEW o \in Operation, NEW e \in Places
  PROVE  Follow(o, e) \in Places
<1> USE DetoursAssumption
<1>1. ASSUME NEW x, Inside(e, x)
      PROVE  e[2] \in 0 .. Moved - 1
  BY <1>1 DEF Inside, Places
<1>2. o.target \in Targets /\ o.tramp \in Trampolines
  BY DEF Operation
<1>3. CASE o.remove /\ Inside(e, o.tramp) /\ e[2] < Scanned
  <2>1. <<o.target, e[2]>> \in Places
    BY <1>1, <1>2, <1>3 DEF Places
  <2> QED
    BY <1>3, <2>1 DEF Follow
<1>4. CASE ~o.remove /\ Inside(e, o.target)
  <2>1. <<o.tramp, e[2]>> \in Places
    BY <1>1, <1>2, <1>4 DEF Places
  <2> QED
    BY <1>4, <2>1 DEF Follow
<1>5. CASE /\ ~(o.remove /\ Inside(e, o.tramp) /\ e[2] < Scanned)
           /\ ~(~o.remove /\ Inside(e, o.target))
  BY <1>5 DEF Follow
<1> QED
  BY <1>3, <1>4, <1>5

LEMMA UpdateThreadsStep ==
  ASSUME Inv, NEW t \in Threads, UpdateThreads(t)
  PROVE  Inv'
<1>1. /\ owner = t /\ phase = "move" /\ index \in 1 .. Len(ops)
      /\ eip' = [w \in Workers |->
                  IF w \in enlisted \ missed' THEN Follow(ops[index], eip[w]) ELSE eip[w]]
      /\ \/ index > 1 /\ phase' = "move" /\ index' = index - 1
         \/ index = 1 /\ phase' = "restore" /\ index' = Len(ops)
      /\ missed' \subseteq enlisted
      /\ UNCHANGED <<owner, failed, ops, freed, before, asked, enlisted, stuck, code, ptr,
                     tramp, prot, regions, writable>>
  BY DEF UpdateThreads, Onward, Aside, memory, blocks, Inv, TypeOK
<1>2. Len(ops) \in Nat /\ DOMAIN ops = 1 .. Len(ops) /\ ops[index] \in Operation
  BY <1>1, OperationAt DEF Inv
<1>3. eip' \in [Workers -> Places]
  BY <1>1, <1>2, FollowPlace DEF Inv, TypeOK
<1>4. TypeOK'
  BY <1>1, <1>2, <1>3 DEF Inv, TypeOK
<1>5. Pending' = Pending
  BY <1>1, <1>2 DEF Pending
<1>6. \A i : Patched(i) /\ Patched(i)' /\ Pointed(i) /\ Pointed(i)'
  BY <1>1 DEF Patched, Pointed
<1> USE <1>1, <1>5, <1>6 DEF Inv, Core
<1>7. Owned' /\ NothingYet'
  BY DEF Owned, NothingYet
<1>8. OperationsLive' /\ TrampolinesOriginal' /\ CodeLeadsSomewhere' /\ PointersLeadHome'
  BY DEF OperationsLive, TrampolinesOriginal, CodeLeadsSomewhere, PointersLeadHome
<1>9. ReachedInTurn' /\ Accounted'
  BY DEF ReachedInTurn, Accounted
<1>10. PermissionsKept'
  BY DEF PermissionsKept
<1> QED
  BY <1>4, <1>7, <1>8, <1>9, <1>10

LEMMA RestoreStep ==
  ASSUME Inv, NEW t \in Threads, Restore(t)
  PROVE  Inv'
<1> USE DetoursAssumption
<1> DEFINE o == ops[index]
           k == o.tramp
<1>1. /\ owner = t /\ phase \in {"restore", "undo"} /\ index > 0
      /\ prot' = [prot EXCEPT ![Page[o.target]] = o.perm]
      /\ index' = index - 1
      /\ UNCHANGED <<owner, failed, ops, phase, before, asked, suspended, code, ptr,
                     regions, writable>>
      /\ \/ /\ GivesBack(o)
            /\ tramp' = [tramp EXCEPT ![k] = Free]
            /\ eip' = [w \in Workers |-> IF Inside(eip[w], k) THEN Lost ELSE eip[w]]
         \/ ~GivesBack(o) /\ UNCHANGED <<tramp, eip>>
      /\ freed' \in BOOLEAN
  BY DEF Restore, blocks, Inv, TypeOK
<1>2. /\ Len(ops) \in Nat /\ DOMAIN ops = 1 .. Len(ops) /\ index \in 1 .. Len(ops)
      /\ Pending = 1 .. index /\ Pending' = 1 .. index - 1
  <2>1. Len(ops) \in Nat /\ DOMAIN ops = 1 .. Len(ops)
    BY OperationAt DEF Inv
  <2>2. index \in 1 .. Len(ops)
    BY <2>1, <1>1 DEF Inv, TypeOK
  <2> QED
    BY <2>1, <2>2, <1>1 DEF Pending
<1>3. /\ index \in Pending /\ \A i \in Pending' : i \in Pending /\ i # index
      /\ \A i \in Pending : i \in Pending' \/ i = index
  BY <1>2
<1>4. /\ o.target \in Targets /\ k \in Trampolines /\ o.remove \in BOOLEAN
      /\ o.pointer \in Pointers /\ o.perm \in {"RX", "RWX"}
      /\ tramp[k].pointer = o.pointer /\ Home[o.pointer] = o.target
  BY <1>3, PendingAt
<1>5. \A i \in Pending' : ops[i].tramp \in Trampolines /\ ops[i].tramp # k
  BY <1>3, TrampolinesApart, PendingAt
<1>6. /\ tramp' \in [Trampolines -> Use \cup {Free}]
      /\ \A j \in Trampolines : j # k => tramp'[j] = tramp[j]
      /\ GivesBack(o) => tramp'[k] = Free
      /\ ~GivesBack(o) => tramp' = tramp
  <2>1. tramp \in [Trampolines -> Use \cup {Free}]
    BY DEF Inv, TypeOK
  <2>2. CASE GivesBack(o)
    <3>1. tramp' = [tramp EXCEPT ![k] = Free]
      BY <1>1, <2>2
    <3> HIDE DEF k
    <3> QED
      BY <2>1, <2>2, <3>1, <1>4
  <2>3. CASE ~GivesBack(o)
    <3>1. tramp' = tramp
      BY <1>1, <2>3
    <3> QED
      BY <2>1, <2>3, <3>1
  <2> QED
    BY <2>2, <2>3
<1>7. /\ \A i : Patched(i)' <=> Patched(i)
      /\ \A i : Pointed(i)' <=> Pointed(i)
      /\ \A i : Patched(i) <=> phase = "restore"
      /\ \A i : Pointed(i) <=> phase = "restore"
  BY <1>1 DEF Patched, Pointed
<1>8. GivesBack(o) => (\A x \in Targets : code[x] # k) /\ (\A q \in Pointers : ptr[q] # k)
  <2>1. GivesBack(o) => (\A x \in Targets : code[x] # k) /\ ptr[o.pointer] = o.target
    BY <1>1, <1>3, <1>4, <1>7 DEF GivesBack, Inv, Core, ReachedInTurn
  <2> QED
    BY <2>1, <1>4 DEF Inv, Core, PointersLeadHome
<1>9. ~GivesBack(o) => ptr[o.pointer] = k
  BY <1>1, <1>3, <1>4, <1>7 DEF GivesBack, Inv, Core, ReachedInTurn
<1> HIDE DEF k
<1>10. TypeOK'
  <2>1. eip' \in [Workers -> Places]
    BY <1>1 DEF Inv, TypeOK, Places
  <2>2. prot' \in [Pages -> {"RX", "RWX"}] /\ index' \in Nat /\ index' \in 0 .. Len(ops)
    BY <1>1, <1>2, <1>4 DEF Inv, TypeOK
  <2> QED
    BY <2>1, <2>2, <1>1, <1>6 DEF Inv, TypeOK
<1>11. Owned' /\ NothingYet'
  BY <1>1 DEF Inv, Core, Owned, NothingYet
<1>12. OperationsLive' /\ TrampolinesOriginal'
  BY <1>1, <1>3, <1>5, <1>6 DEF Inv, Core, OperationsLive, TrampolinesOriginal
<1>13. CodeLeadsSomewhere' /\ PointersLeadHome'
  BY <1>1, <1>6, <1>8 DEF Inv, Core, CodeLeadsSomewhere, PointersLeadHome, TypeOK, Jump
<1>14. ReachedInTurn'
  BY <1>1, <1>3, <1>7 DEF Inv, Core, ReachedInTurn
<1>15. Accounted'
  <2>1. ASSUME NEW j \in Trampolines, tramp'[j] # Free, j # k
        PROVE  \/ ptr[tramp'[j].pointer] = j
               \/ \E i \in Pending' : ops[i].tramp = j
    <3>1. k = o.tramp
      BY DEF k
    <3> QED
      BY <3>1, <2>1, <1>3, <1>6 DEF Inv, Core, Accounted
  <2>2. tramp'[k] # Free => ptr[tramp'[k].pointer] = k
    BY <1>4, <1>6, <1>9
  <2> QED
    BY <2>1, <2>2, <1>1 DEF Accounted
<1>16. PermissionsKept'
  <2>1. \A i \in Pending' :
          ops[i].perm = IF \E j \in 1 .. i - 1 : Page[ops[j].target] = Page[ops[i].target]
                        THEN "RWX" ELSE "RX"
    BY <1>3 DEF Inv, Core, PermissionsKept
  <2>2. \A x \in Pages :
          prot'[x] = IF \E i \in Pending' : Page[ops[i].target] = x THEN "RWX" ELSE "RX"
    <3>1. TAKE x \in Pages
    <3>2. CASE x = Page[o.target]
      BY <3>2, <1>1, <1>2, <1>3, <1>4 DEF Inv, Core, PermissionsKept, TypeOK
    <3>3. CASE x # Page[o.target]
      BY <3>3, <1>1, <1>3, <1>4 DEF Inv, Core, PermissionsKept, TypeOK
    <3> QED
      BY <3>2, <3>3
  <2>3. owner' # NoThread
    BY <1>1
  <2> QED
    BY <2>1, <2>2, <2>3, <1>1 DEF PermissionsKept
<1> QED
  BY <1>10, <1>11, <1>12, <1>13, <1>14, <1>15, <1>16 DEF Inv, Core

LEMMA FinishStep ==
  ASSUME Inv, NEW t \in Threads, Finish(t)
  PROVE  Inv'
<1> USE DetoursAssumption
<1>1. /\ owner = t /\ phase \in {"restore", "undo"} /\ index = 0
      /\ owner' = NoThread /\ phase' = "idle" /\ ops' = << >>
      /\ enlisted' = {} /\ missed' = {} /\ stuck' \subseteq Workers
      /\ writable' = {} /\ regions' \subseteq Regions /\ freed' = FALSE
      /\ before' = [code |-> code, ptr |-> ptr] /\ asked' = "queued"
      /\ UNCHANGED <<failed, index, code, ptr, tramp, prot, eip>>
  BY DEF Finish, memory, Inv, TypeOK
<1>2. Pending = {} /\ Pending' = {} /\ ops' \in Seq(Operation) /\ Len(ops') = 0
  BY <1>1, OperationAt DEF Pending, Inv
<1>3. TypeOK'
  BY <1>1, <1>2 DEF Inv, TypeOK
<1> USE <1>1, <1>2 DEF Inv, Core
<1>4. Owned' /\ NothingYet'
  BY DEF Owned, NothingYet
<1>5. OperationsLive' /\ TrampolinesOriginal' /\ CodeLeadsSomewhere' /\ PointersLeadHome'
  BY DEF OperationsLive, TrampolinesOriginal, CodeLeadsSomewhere, PointersLeadHome
<1>6. ReachedInTurn' /\ Accounted'
  BY DEF ReachedInTurn, Accounted
<1>7. PermissionsKept'
  BY DEF PermissionsKept
<1> QED
  BY <1>3, <1>4, <1>5, <1>6, <1>7

\* A thread stays in its function or its trampoline, leaves it, or is lost.
LEMMA NextPlaceKnown ==
  ASSUME NEW e \in Places, e # Out
  PROVE  /\ NextPlace(e) \in Places
         /\ NextPlace(e) \in {Out, Lost} \/ NextPlace(e) = <<e[1], e[2] + 1>>
<1> USE DetoursAssumption
<1>1. CASE ~Sound(e)
  BY <1>1 DEF NextPlace, Places
<1>2. CASE Sound(e) /\ \E g \in Targets : Inside(e, g) /\ code[g] # Original
  BY <1>2 DEF NextPlace, Places
<1>3. CASE Sound(e) /\ ~\E g \in Targets : Inside(e, g) /\ code[g] # Original
  <2>1. e \in (Targets \cup Trampolines) \X (0 .. Moved - 1)
    BY <1>3 DEF Places, Sound
  <2>2. e[1] \in Targets \cup Trampolines /\ e[2] \in 0 .. Moved - 1
    BY <2>1
  <2>3. NextPlace(e) = IF e[2] + 1 < Moved THEN <<e[1], e[2] + 1>> ELSE Out
    BY <1>3 DEF NextPlace
  <2> QED
    BY <2>2, <2>3 DEF Places
<1> QED
  BY <1>1, <1>2, <1>3

LEMMA RunStep ==
  ASSUME Inv, NEW w \in Workers, Run(w)
  PROVE  Inv'
<1> USE DetoursAssumption
<1>1. eip' \in [Workers -> Places]
  <2>1. ASSUME NEW x \in Targets \cup Trampolines, eip' = [eip EXCEPT ![w] = <<x, 0>>]
        PROVE  eip' \in [Workers -> Places]
    BY <2>1 DEF Inv, TypeOK, Places
  <2>2. ASSUME eip[w] # Out, eip' = [eip EXCEPT ![w] = NextPlace(eip[w])]
        PROVE  eip' \in [Workers -> Places]
    <3>1. NextPlace(eip[w]) \in Places
      BY <2>2, NextPlaceKnown DEF Inv, TypeOK
    <3> QED
      BY <3>1, <2>2 DEF Inv, TypeOK
  <2>3. ASSUME eip' = [eip EXCEPT ![w] = Lost] PROVE eip' \in [Workers -> Places]
    BY <2>3 DEF Inv, TypeOK, Places
  <2> QED
    BY <2>1, <2>2, <2>3 DEF Run
<1>2. TypeOK'
  BY <1>1 DEF Inv, TypeOK, Run, transaction, memory, blocks
<1>3. Core'
  BY CoreKept DEF Inv, Run, transaction, blocks
<1> QED
  BY <1>2, <1>3 DEF Inv

-----------------------------------------------------------------------------
LEMMA Inductive == Inv /\ [Next]_vars => Inv'
<1> SUFFICES ASSUME Inv, [Next]_vars PROVE Inv'
  OBVIOUS
<1>1. ASSUME NEW t \in Threads, Client(t) PROVE Inv'
  <2>1. CASE Begin(t)
    BY <2>1, BeginStep
  <2>2. CASE Commit(t)
    <3>1. Enter(IF failed THEN "undo" ELSE IF ops = << >> THEN "restore" ELSE "apply")
          /\ owner = t /\ phase = "open"
      BY <2>2 DEF Commit
    <3> QED
      BY <3>1, EnterStep
  <2>3. CASE Abort(t)
    BY <2>3, EnterStep DEF Abort
  <2>4. ASSUME NEW p \in Pointers, ~Named(p), Untouched(p), Attach(t, p) PROVE Inv'
    BY <2>4, AttachStep
  <2>5. ASSUME NEW p \in Pointers, AttachFails(t, p) PROVE Inv'
    <3>1. regions' \subseteq Regions /\ writable' \subseteq regions' /\ owner # NoThread
      BY <2>5, DetoursAssumption
         DEF AttachFails, MayAsk, Allocate, Vacant, blocks, Inv, TypeOK, Trampolines
    <3> QED
      BY <2>5, <3>1, FailStep DEF AttachFails
  <2>6. ASSUME NEW p \in Pointers, ~Named(p), Detach(t, p) PROVE Inv'
    BY <2>6, DetachStep
  <2>7. ASSUME DetachFails(t) \/ EnlistFails(t) PROVE Inv'
    <3>1. regions' \subseteq Regions /\ writable' \subseteq regions' /\ writable' = writable
      BY <2>7 DEF DetachFails, EnlistFails, blocks, Inv, TypeOK
    <3> QED
      BY <2>7, <3>1, FailStep DEF DetachFails, EnlistFails
  <2>8. ASSUME NEW w \in Workers, Enlist(t, w) PROVE Inv'
    BY <2>8, EnlistStep
  <2>9. CASE AttachRefused(t)
    BY <2>9, RefusedStep
  <2> QED
    BY <1>1, <2>1, <2>2, <2>3, <2>4, <2>5, <2>6, <2>7, <2>8, <2>9 DEF Client
<1>2. ASSUME NEW t \in Threads, Engine(t) PROVE Inv'
  BY <1>2, PatchStep, PointStep, UpdateThreadsStep, RestoreStep, FinishStep DEF Engine
<1>3. ASSUME NEW w \in Workers, Run(w) PROVE Inv'
  BY <1>3, RunStep
<1>4. CASE UNCHANGED vars
  <2>1. TypeOK'
    BY <1>4 DEF Inv, TypeOK, vars, transaction, memory, blocks
  <2>2. Core'
    BY <1>4, CoreKept DEF Inv, vars, transaction, blocks
  <2> QED
    BY <2>1, <2>2 DEF Inv
<1> QED
  BY <1>1, <1>2, <1>3, <1>4 DEF Next

LEMMA Invariant == Spec => []Inv
  BY Initially, Inductive, PTL DEF Spec

\* The library's lists, memory and threads keep to their types, however many
\* threads share it and whatever fails.
THEOREM TypeCorrect == Spec => []TypeOK
<1>1. Inv => TypeOK
  BY DEF Inv
<1> QED
  BY <1>1, Invariant, PTL

\* No page and no trampoline stays writable after a transaction.
THEOREM PagesSealed == Spec => []Sealed
<1>1. Inv => Sealed
  <2> SUFFICES ASSUME Inv, owner = NoThread
               PROVE  writable = {} /\ \A g \in Pages : prot[g] = "RX"
    BY DEF Sealed
  <2>1. Pending = {}
    BY DEF Inv, Core, Owned, Pending
  <2> QED
    BY <2>1 DEF Inv, Core, PermissionsKept
<1> QED
  BY <1>1, Invariant, PTL

\* Functions and their originals can be called at every moment.
THEOREM AlwaysCallable == Spec => []Callable
<1>1. Inv => Callable
  <2> SUFFICES ASSUME Inv PROVE Callable
    OBVIOUS
  <2>1. \A g \in Targets :
          code[g] # Original => tramp[code[g]] # Free /\ tramp[code[g]].target = g
    BY DEF Inv, Core, CodeLeadsSomewhere
  <2>2. ASSUME NEW p \in Pointers, ptr[p] \in Trampolines
        PROVE  /\ tramp[ptr[p]] # Free
               /\ tramp[ptr[p]].target = Home[p]
               /\ tramp[ptr[p]].saved = Original
    BY <2>2 DEF Inv, Core, PointersLeadHome, TrampolinesOriginal
  <2> QED
    BY <2>1, <2>2 DEF Callable
<1> QED
  BY <1>1, Invariant, PTL

\* No commit and no abort leaks a trampoline.
THEOREM TrampolinesAccounted == Spec => []NoTrampolineLost
<1>1. Inv => NoTrampolineLost
  <2> SUFFICES ASSUME Inv, owner = NoThread, NEW k \in Trampolines, tramp[k] # Free
               PROVE  ptr[tramp[k].pointer] = k
    BY DEF NoTrampolineLost
  <2>1. Pending = {}
    BY DEF Inv, Core, Owned, Pending
  <2> QED
    BY <2>1 DEF Inv, Core, Accounted
<1> QED
  BY <1>1, Invariant, PTL

-----------------------------------------------------------------------------
\* What commit has written.  Inv is known here.

LEMMA WrittenKept ==
  ASSUME Written, UNCHANGED <<ops, phase, code, ptr>>,
         index' = index \/ phase \in {"restore", "undo"}
  PROVE  Written'
<1>1. \A i : Patched(i)' = Patched(i) /\ Pointed(i)' = Pointed(i)
  BY DEF Patched, Pointed
<1> QED
  BY <1>1 DEF Written

\* Before commit begins, and after an abort, nothing is written.
LEMMA WrittenEnter ==
  ASSUME Inv, Written, phase = "open", NEW q \in {"undo", "apply", "restore"}, Enter(q),
         q = "restore" => ops = << >>
  PROVE  Written'
<1>1. /\ DOMAIN ops = 1 .. Len(ops) /\ Len(ops) \in Nat
      /\ ops' = ops /\ phase' = q /\ index' = Len(ops)
  BY OpenPending DEF Enter, Aside
<1>2. \A i \in DOMAIN ops : ~Patched(i)' /\ ~Pointed(i)'
  BY <1>1 DEF Patched, Pointed
<1> QED
  BY <1>1, <1>2 DEF Written

LEMMA WrittenPush ==
  ASSUME Inv, Written, phase = "open", phase' = "open", NEW o \in Operation,
         ops' = Append(ops, o), ~Named(o.pointer)
  PROVE  Written'
<1>1. /\ Len(ops) \in Nat /\ DOMAIN ops = 1 .. Len(ops) /\ DOMAIN ops' = 1 .. Len(ops) + 1
      /\ \A i \in 1 .. Len(ops) : ops'[i] = ops[i]
      /\ ops'[Len(ops) + 1] = o
  BY OperationAt, PushSeq DEF Inv, TypeOK
<1>2. \A i \in DOMAIN ops' : i = Len(ops) + 1 \/ i \in DOMAIN ops
  BY <1>1
<1>3. \A i : ~Patched(i)' /\ ~Pointed(i)'
  BY DEF Patched, Pointed
<1>4. \A i, j \in DOMAIN ops' : ops'[i].pointer = ops'[j].pointer => i = j
  BY <1>1, <1>2 DEF Written, Named
<1> QED
  BY <1>3, <1>4 DEF Written

LEMMA WrittenPatch ==
  ASSUME Inv, Written, NEW t \in Threads, Patch(t)
  PROVE  Written'
<1> DEFINE o == ops[index]
<1>1. /\ phase = "apply" /\ phase' = "point"
      /\ code' = [code EXCEPT ![o.target] = IF o.remove THEN tramp[o.tramp].saved ELSE o.tramp]
      /\ UNCHANGED <<ops, index, ptr>>
  BY DEF Patch, Aside
<1>2. /\ Len(ops) \in Nat /\ DOMAIN ops = 1 .. Len(ops) /\ index \in 1 .. Len(ops)
      /\ index \in Pending
  BY <1>1, OperationAt DEF Inv, TypeOK, Pending
<1>3. \A i \in DOMAIN ops : /\ Patched(i)' <=> Patched(i) \/ i = index
                            /\ Pointed(i)' <=> Pointed(i)
  BY <1>1, <1>2 DEF Patched, Pointed
<1>4. /\ o.target \in Targets /\ o.remove => tramp[o.tramp].saved = Original
      /\ code'[o.target] = IF o.remove THEN Original ELSE o.tramp
      /\ \A x \in Targets : x # o.target => code'[x] = code[x]
  BY <1>1, <1>2, PendingAt DEF Inv, TypeOK
<1>5. ASSUME NEW i \in DOMAIN ops, Patched(i)',
             \A j \in 1 .. i - 1 : Patched(j)' => ops[j].target # ops[i].target
      PROVE  code'[ops[i].target] = IF ops[i].remove THEN Original ELSE ops[i].tramp
  <2>1. CASE i = index
    BY <2>1, <1>4
  <2>2. CASE i # index
    <3>1. Patched(i) /\ i > index
      BY <2>2, <1>1, <1>3, <1>5 DEF Patched
    <3>2. ops[index].target # ops[i].target
      BY <3>1, <1>2, <1>3, <1>5
    <3>3. \A j \in 1 .. i - 1 : Patched(j) => ops[j].target # ops[i].target
      BY <1>2, <1>3, <1>5
    <3>4. ops[i].target \in Targets
      BY OperationAt DEF Inv
    <3> QED
      BY <3>1, <3>2, <3>3, <3>4, <1>4 DEF Written
  <2> QED
    BY <2>1, <2>2
<1> QED
  BY <1>1, <1>3, <1>5 DEF Written

LEMMA WrittenPoint ==
  ASSUME Inv, Written, NEW t \in Threads, Point(t)
  PROVE  Written'
<1> DEFINE o == ops[index]
<1>1. /\ phase = "point" /\ UNCHANGED <<ops, code>>
      /\ ptr' = [ptr EXCEPT ![o.pointer] = IF o.remove THEN o.target ELSE o.tramp]
      /\ \/ index > 1 /\ phase' = "apply" /\ index' = index - 1
         \/ index = 1 /\ phase' = "move" /\ index' = Len(ops)
  BY DEF Point, Onward, Aside
<1>2. /\ Len(ops) \in Nat /\ DOMAIN ops = 1 .. Len(ops) /\ index \in 1 .. Len(ops)
  BY <1>1, OperationAt DEF Inv, TypeOK
<1>3. \A i \in DOMAIN ops : /\ Patched(i)' <=> Patched(i)
                            /\ Pointed(i)' <=> Pointed(i) \/ i = index
  BY <1>1, <1>2 DEF Patched, Pointed
<1>4. \A i \in DOMAIN ops : ops[i].pointer \in Pointers
  BY OperationAt DEF Inv
<1>5. ASSUME NEW i \in DOMAIN ops, Pointed(i)'
      PROVE  ptr'[ops[i].pointer] = IF ops[i].remove THEN ops[i].target ELSE ops[i].tramp
  <2>1. CASE i = index
    BY <2>1, <1>1, <1>4 DEF Inv, TypeOK
  <2>2. CASE i # index
    <3>1. Pointed(i) /\ ops[i].pointer # o.pointer
      BY <2>2, <1>2, <1>3, <1>5 DEF Written
    <3> QED
      BY <3>1, <1>1, <1>4 DEF Inv, TypeOK, Written
  <2> QED
    BY <2>1, <2>2
<1>6. \A i \in DOMAIN ops : \A j \in 1 .. i - 1 : j \in DOMAIN ops
  BY <1>2
<1>7. \A i \in DOMAIN ops :
        Patched(i)' /\ (\A j \in 1 .. i - 1 : Patched(j)' => ops[j].target # ops[i].target) =>
          code[ops[i].target] = IF ops[i].remove THEN Original ELSE ops[i].tramp
  BY <1>3, <1>6 DEF Written
<1> QED
  BY <1>1, <1>5, <1>7 DEF Written

LEMMA WrittenInductive == Inv /\ Written /\ [Next]_vars => Written'
<1> SUFFICES ASSUME Inv, Written, [Next]_vars PROVE Written'
  OBVIOUS
<1>1. ASSUME NEW t \in Threads, Client(t) PROVE Written'
  <2>1. CASE Begin(t)
    BY <2>1 DEF Begin, Written
  <2>2. CASE Commit(t) \/ Abort(t)
    <3>1. PICK q \in {"undo", "apply", "restore"} : Enter(q) /\ (q = "restore" => ops = << >>)
      BY <2>2 DEF Commit, Abort
    <3> QED
      BY <2>2, <3>1, WrittenEnter DEF Commit, Abort
  <2>3. ASSUME NEW p \in Pointers, ~Named(p), Untouched(p), Attach(t, p) PROVE Written'
    <3>1. PICK k \in Trampolines :
            Push([remove |-> FALSE, pointer |-> p, target |-> ptr[p], tramp |-> k,
                  perm |-> prot[Page[ptr[p]]]])
      BY <2>3 DEF Attach
    <3> DEFINE o == [remove |-> FALSE, pointer |-> p, target |-> ptr[p], tramp |-> k,
                     perm |-> prot[Page[ptr[p]]]]
    <3>2. o \in Operation /\ o.pointer = p
      BY <2>3, DetoursAssumption DEF Operation, Untouched, Inv, TypeOK
    <3>3. ops' = Append(ops, o) /\ phase = "open" /\ phase' = "open"
      BY <2>3, <3>1 DEF Push, Attach, MayAsk
    <3> HIDE DEF o
    <3> QED
      BY <2>3, <3>2, <3>3, WrittenPush
  <2>4. ASSUME NEW p \in Pointers, ~Named(p), Detach(t, p) PROVE Written'
    <3> DEFINE k == ptr[p]
               o == [remove |-> TRUE, pointer |-> p, target |-> tramp[k].target,
                     tramp |-> k, perm |-> prot[Page[tramp[k].target]]]
    <3>1. /\ k \in Trampolines /\ tramp[k] # Free /\ ops' = Append(ops, o)
          /\ phase = "open" /\ phase' = "open"
      BY <2>4 DEF Detach, Attached, MayAsk, Push
    <3>2. o \in Operation /\ o.pointer = p
      BY <3>1, UseAt, DetoursAssumption DEF Operation, Inv, TypeOK
    <3> HIDE DEF o, k
    <3> QED
      BY <2>4, <3>1, <3>2, WrittenPush
  <2>5. ASSUME NEW p \in Pointers, AttachFails(t, p) PROVE Written'
    BY <2>5, WrittenKept DEF AttachFails, Fail, memory
  <2>6. CASE DetachFails(t) \/ EnlistFails(t) \/ AttachRefused(t)
    BY <2>6, WrittenKept DEF DetachFails, EnlistFails, AttachRefused, Fail, memory
  <2>7. ASSUME NEW w \in Workers, Enlist(t, w) PROVE Written'
    BY <2>7, WrittenKept DEF Enlist, transaction, memory
  <2> QED
    BY <1>1, <2>1, <2>2, <2>3, <2>4, <2>5, <2>6, <2>7 DEF Client
<1>2. ASSUME NEW t \in Threads, UpdateThreads(t) PROVE Written'
  <2>1. /\ phase = "move" /\ phase' \in {"move", "restore"} /\ UNCHANGED <<ops, code, ptr>>
    BY <1>2 DEF UpdateThreads, Onward, Aside, memory
  <2>2. \A i : Patched(i)' = Patched(i) /\ Pointed(i)' = Pointed(i)
    BY <2>1 DEF Patched, Pointed
  <2> QED
    BY <2>1, <2>2 DEF Written
<1>3. ASSUME NEW t \in Threads, Restore(t) PROVE Written'
  BY <1>3, WrittenKept DEF Restore
<1>4. ASSUME NEW t \in Threads, Finish(t) PROVE Written'
  BY <1>4 DEF Finish, Written
<1>5. ASSUME NEW w \in Workers, Run(w) PROVE Written'
  BY <1>5, WrittenKept DEF Run, transaction, memory
<1>6. CASE UNCHANGED vars
  BY <1>6, WrittenKept DEF vars, transaction, memory
<1> QED
  BY <1>1, <1>2, <1>3, <1>4, <1>5, <1>6, WrittenPatch, WrittenPoint DEF Next, Engine

LEMMA WrittenInvariant == Spec => [](Inv /\ Written)
<1>1. Init => Inv /\ Written
  BY Initially DEF Init, Written
<1>2. Inv /\ Written /\ [Next]_vars => Inv' /\ Written'
  BY Inductive, WrittenInductive
<1> QED
  BY <1>1, <1>2, PTL DEF Spec

\* A transaction ends by no other step than Finish.
LEMMA EndsByFinish ==
  ASSUME Inv, Next, owner # NoThread, owner' = NoThread
  PROVE  \E t \in Threads : Finish(t)
<1>1. ASSUME NEW t \in Threads, Client(t) PROVE owner' # NoThread
  BY <1>1, DetoursAssumption
     DEF Client, Begin, Commit, Abort, Enter, Aside, Attach, AttachFails, AttachRefused, Detach,
         DetachFails, Enlist, EnlistFails, Fail, transaction
<1>2. ASSUME NEW t \in Threads, Patch(t) \/ Point(t) \/ UpdateThreads(t) \/ Restore(t)
      PROVE  owner' # NoThread
  BY <1>2 DEF Patch, Point, UpdateThreads, Restore, Onward, Aside
<1>3. ASSUME NEW w \in Workers, Run(w) PROVE owner' # NoThread
  BY <1>3 DEF Run, transaction
<1> QED
  BY <1>1, <1>2, <1>3 DEF Next, Engine

\* A transaction is carried out in full or changes nothing, and changes nothing
\* if an error was pending when it was committed, whatever other threads do to the
\* pending error and to the list of threads meanwhile.
THEOREM AbortedWhole == Spec => AllOrNothing
<1>1. Inv /\ Written /\ [Next]_vars =>
        [owner # NoThread /\ owner' = NoThread =>
           \/ AsFound(code', ptr')
           \/ asked # "failed" /\ CarriedOut(code', ptr')]_vars
  <2> SUFFICES ASSUME Inv, Written, Next, owner # NoThread, owner' = NoThread,
                      ~AsFound(code, ptr)
               PROVE  asked # "failed" /\ CarriedOut(code, ptr)
    BY EndsByFinish DEF Finish, memory, AsFound, CarriedOut, LastOnItsFunction
  <2>1. PICK t \in Threads : Finish(t)
    BY EndsByFinish
  <2>2. phase = "restore"
    BY <2>1 DEF Finish, Inv, Core, NothingYet, AsFound
  <2>3. asked # "failed"
    BY <2>2 DEF Inv, Core, Owned
  <2>4. \A i : Patched(i) /\ Pointed(i)
    BY <2>2 DEF Patched, Pointed
  <2> QED
    BY <2>3, <2>4 DEF Written, CarriedOut, LastOnItsFunction
<1> QED
  BY <1>1, WrittenInvariant, PTL DEF Spec, AllOrNothing

-----------------------------------------------------------------------------
\* The threads.  Inv and Inv' are known here.

LEMMA InsidePlaces ==
  ASSUME NEW e \in Places, NEW x, Inside(e, x)
  PROVE  /\ x \in Targets \cup Trampolines
         /\ e[2] \in 0 .. Moved - 1
         /\ e # Out /\ e # Lost /\ e = <<x, e[2]>>
  BY DEF Inside, Places

LEMMA PlacedInside ==
  ASSUME NEW x \in Targets \cup Trampolines, NEW n \in Nat
  PROVE  <<x, n>> # Lost /\ <<x, n>> # Out /\ \A y : Inside(<<x, n>>, y) <=> y = x
<1>1. <<x, n>> \in (Targets \cup Trampolines) \X Nat
  OBVIOUS
<1> QED
  BY <1>1, DetoursAssumption DEF Inside

\* Until the second loop begins no thread has been told of anything.
LEMMA NoneFollowed ==
  ASSUME phase \notin {"move", "restore"}
  PROVE  /\ \A i : ~Followed(i)
         /\ \A e : OutOfTrampolines(e) /\ InFunction(e)
  BY DEF Followed, OutOfTrampolines, InFunction

LEMMA FollowingInitially == Init => Following
  BY DEF Init, Following, CodeByOperations, ThreadsFollow, TrampolinesEntered, Inside

LEMMA FollowingKept ==
  ASSUME Following, UNCHANGED <<ops, enlisted, missed, phase, index, before, code, ptr, tramp, eip>>
  PROVE  Following'
<1>1. /\ Pending' = Pending
      /\ \A i : Patched(i)' = Patched(i) /\ Pointed(i)' = Pointed(i) /\ Followed(i)' = Followed(i)
  BY DEF Pending, Patched, Pointed, Followed
<1>2. CodeByOperations' /\ TrampolinesEntered'
  BY <1>1 DEF Following, CodeByOperations, TrampolinesEntered
<1>3. ThreadsFollow'
  BY <1>1 DEF Following, ThreadsFollow, InFunction, OutOfTrampolines
<1> QED
  BY <1>2, <1>3 DEF Following

LEMMA BeginFollowing ==
  ASSUME Inv, Inv', Following, NEW t \in Threads, Begin(t)
  PROVE  Following'
<1> USE DEF Begin, memory
<1>1. ops' = << >> /\ DOMAIN ops' = {} /\ Pending' = {}
  BY DEF Pending
<1>2. CodeByOperations'
  BY <1>1 DEF CodeByOperations
<1>3. ThreadsFollow'
  BY DEF ThreadsFollow
<1>4. TrampolinesEntered'
  BY <1>1 DEF Following, TrampolinesEntered
<1> QED
  BY <1>2, <1>3, <1>4 DEF Following

LEMMA EnlistFollowing ==
  ASSUME Inv, Inv', Following, NEW t \in Threads, NEW w \in Workers, w \notin enlisted,
         Enlist(t, w)
  PROVE  Following'
<1>1. /\ phase' = phase
      /\ enlisted' \ missed' = enlisted \ missed
         \/ (phase \notin {"move", "restore"} /\ enlisted' \ missed' = (enlisted \cup {w}) \ missed)
      /\ UNCHANGED <<ops, index, before, code, ptr, tramp, eip>>
  BY DEF Enlist, transaction, memory
<1>2. /\ Pending' = Pending
      /\ \A i : Patched(i)' = Patched(i) /\ Pointed(i)' = Pointed(i) /\ Followed(i)' = Followed(i)
  BY <1>1 DEF Pending, Patched, Pointed, Followed
<1>3. CodeByOperations' /\ TrampolinesEntered'
  BY <1>1, <1>2 DEF Following, CodeByOperations, TrampolinesEntered
<1>4. \A e : /\ InFunction(e)' <=> InFunction(e)
             /\ OutOfTrampolines(e)' <=> OutOfTrampolines(e)
  BY <1>1, <1>2 DEF InFunction, OutOfTrampolines
<1>5. ThreadsFollow'
  <2> SUFFICES ASSUME phase # "idle", NEW v \in enlisted' \ missed', NEW e, e = eip[v]
               PROVE  e = Lost \/ (InFunction(e) /\ OutOfTrampolines(e))
    BY <1>1, <1>4 DEF ThreadsFollow
  <2> QED
    BY <1>1, NoneFollowed DEF Following, ThreadsFollow
<1> QED
  BY <1>3, <1>5 DEF Following

\* A new operation, of an attach with a trampoline that was free or of a detach.
LEMMA PushFollowing ==
  ASSUME Inv, Inv', Following, phase = "open",
         NEW o \in Operation, ops' = Append(ops, o),
         NEW k \in Trampolines,
         o.tramp = k,
         tramp' = tramp \/ (tramp[k] = Free /\ \A j \in Trampolines : j # k => tramp'[j] = tramp[j]),
         ~o.remove => tramp[k] = Free,
         UNCHANGED <<phase, index, enlisted, missed, before, code, ptr, eip>>
  PROVE  Following'
<1>1. /\ Len(ops) \in Nat /\ Pending = 1 .. Len(ops) /\ Pending' = 1 .. Len(ops) + 1
      /\ \A i \in 1 .. Len(ops) : ops'[i] = ops[i]
      /\ ops'[Len(ops) + 1] = o
      /\ \A i : ~Patched(i) /\ ~Pointed(i) /\ ~Patched(i)' /\ ~Pointed(i)' /\ ~Followed(i)'
  BY OpenPending, PushSeq DEF Pending, Patched, Pointed, Followed, Inv, TypeOK
<1>2. CodeByOperations'
  BY <1>1 DEF CodeByOperations, Inv, Core, NothingYet
<1>3. ThreadsFollow'
  BY <1>1, NoneFollowed DEF Following, ThreadsFollow, InFunction, OutOfTrampolines
<1>4. TrampolinesEntered'
  <2> SUFFICES ASSUME NEW w \in Workers, NEW j \in Trampolines, Inside(eip[w], j)
               PROVE  /\ tramp'[j] # Free
                      /\ \A i \in Pending' : ops'[i].tramp = j => ops'[i].remove
    BY <1>1 DEF TrampolinesEntered
  <2>1. tramp[j] # Free /\ \A i \in Pending : ops[i].tramp = j => ops[i].remove
    BY <1>1 DEF Following, TrampolinesEntered
  <2>2. tramp'[j] # Free
    BY <2>1
  <2>3. ASSUME NEW i \in Pending', ops'[i].tramp = j PROVE ops'[i].remove
    BY <2>1, <2>3, <1>1
  <2> QED
    BY <2>2, <2>3
<1> QED
  BY <1>2, <1>3, <1>4 DEF Following

\* Where no operation has been told of, where threads are does not matter.
LEMMA EnterFollowing ==
  ASSUME Inv, Inv', Following, phase = "open",
         NEW q \in {"undo", "apply", "restore"}, Enter(q), q = "restore" => ops = << >>
  PROVE  Following'
<1> USE DEF Enter, Aside, memory
<1>1. /\ Pending = 1 .. Len(ops) /\ DOMAIN ops = 1 .. Len(ops) /\ Len(ops) \in Nat
      /\ \A i : ~Patched(i) /\ ~Pointed(i) /\ ~Followed(i)
  BY OpenPending DEF Followed
<1>2. Pending' = Pending
  BY <1>1 DEF Pending
<1>3. \A i \in DOMAIN ops : ~Patched(i)' /\ ~Pointed(i)' /\ ~Followed(i)'
  BY <1>1 DEF Patched, Pointed, Followed
<1>4. CodeByOperations'
  BY <1>3 DEF CodeByOperations, Inv, Core, NothingYet
<1>5. ThreadsFollow'
  BY <1>1, <1>3 DEF Following, ThreadsFollow, InFunction, OutOfTrampolines
<1>6. TrampolinesEntered'
  BY <1>1, <1>2, <1>3 DEF Following, TrampolinesEntered
<1> QED
  BY <1>4, <1>5, <1>6 DEF Following

LEMMA PatchFollowing ==
  ASSUME Inv, Inv', Following, NEW t \in Threads, Patch(t)
  PROVE  Following'
<1> DEFINE o == ops[index]
<1>1. /\ phase = "apply" /\ phase' = "point"
      /\ code' = [code EXCEPT ![o.target] = IF o.remove THEN tramp[o.tramp].saved ELSE o.tramp]
      /\ UNCHANGED <<ops, enlisted, missed, before, index, ptr, tramp, eip>>
  BY DEF Patch, Aside
<1>2. /\ Len(ops) \in Nat /\ DOMAIN ops = 1 .. Len(ops) /\ index \in 1 .. Len(ops)
      /\ index \in Pending /\ Pending' = Pending
  BY <1>1, OperationAt DEF Pending, Inv, TypeOK
<1>3. /\ \A i : Pointed(i)' <=> Pointed(i)
      /\ \A i : ~Followed(i) /\ ~Followed(i)'
      /\ \A i : Patched(i) <=> i > index
      /\ \A i : Patched(i)' <=> i >= index
  BY <1>1 DEF Patched, Pointed, Followed
<1>4. /\ o.target \in Targets /\ o.remove \in BOOLEAN
      /\ o.remove => tramp[o.tramp].saved = Original
  BY <1>2, PendingAt
<1>5. /\ o.remove => code'[o.target] = Original
      /\ \A x \in Targets : x # o.target => code'[x] = code[x]
  BY <1>1, <1>4 DEF Inv, TypeOK
<1>6. CodeByOperations'
  <2> SUFFICES ASSUME NEW g \in Targets, code'[g] # Original
      PROVE  \/ \E i \in DOMAIN ops :
                  /\ i >= index /\ ~ops[i].remove /\ ops[i].target = g
                  /\ \A j \in DOMAIN ops : j >= index /\ ops[j].target = g => j >= i
             \/ /\ \A i \in DOMAIN ops : i >= index => ops[i].target # g
                /\ before.code[g] # Original
    BY <1>1, <1>3 DEF CodeByOperations
  <2>1. CASE g = o.target
    BY <2>1, <1>2, <1>5
  <2>2. CASE g # o.target
    <3>1. code[g] # Original
      BY <2>2, <1>5
    <3>2. \/ \E i \in DOMAIN ops :
               /\ i > index /\ ~ops[i].remove /\ ops[i].target = g
               /\ \A j \in DOMAIN ops : j > index /\ ops[j].target = g => j >= i
          \/ /\ \A i \in DOMAIN ops : i > index => ops[i].target # g
             /\ before.code[g] # Original
      BY <3>1, <1>1, <1>3 DEF Following, CodeByOperations
    <3>3. \A j \in DOMAIN ops : j >= index /\ ops[j].target = g => j > index
      BY <2>2, <1>2
    <3>4. \A i \in DOMAIN ops : i > index => i >= index
      BY <1>2
    <3> QED
      BY <3>2, <3>3, <3>4
  <2> QED
    BY <2>1, <2>2
<1>7. ThreadsFollow'
  BY <1>1, <1>3 DEF Following, ThreadsFollow, InFunction, OutOfTrampolines
<1>8. TrampolinesEntered'
  BY <1>1, <1>2, <1>3 DEF Following, TrampolinesEntered
<1> QED
  BY <1>1, <1>6, <1>7, <1>8 DEF Following

LEMMA PointFollowing ==
  ASSUME Inv, Inv', Following, NEW t \in Threads, Point(t)
  PROVE  Following'
<1>1. /\ phase = "point"
      /\ UNCHANGED <<ops, enlisted, missed, before, code, tramp, eip>>
      /\ \/ index > 1 /\ phase' = "apply" /\ index' = index - 1
         \/ index = 1 /\ phase' = "move" /\ index' = Len(ops)
  BY DEF Point, Onward, Aside
<1>2. /\ Len(ops) \in Nat /\ DOMAIN ops = 1 .. Len(ops) /\ index \in 1 .. Len(ops)
  BY <1>1, OperationAt DEF Inv, TypeOK
<1>3. Pending' = Pending /\ Pending = DOMAIN ops
  BY <1>1 DEF Pending
<1>4. \A i \in DOMAIN ops : /\ Pointed(i) => Pointed(i)'
                            /\ Patched(i)' <=> Patched(i)
                            /\ ~Followed(i) /\ ~Followed(i)'
  BY <1>1, <1>2 DEF Patched, Pointed, Followed
<1>5. CodeByOperations'
  BY <1>1, <1>4 DEF Following, CodeByOperations
<1>6. ThreadsFollow'
  BY <1>1, <1>4 DEF Following, ThreadsFollow, InFunction, OutOfTrampolines
<1>7. TrampolinesEntered'
  BY <1>1, <1>3, <1>4 DEF Following, TrampolinesEntered
<1> QED
  BY <1>1, <1>5, <1>6, <1>7 DEF Following

\* One thread is told of one operation more.
LEMMA FollowKeeps ==
  ASSUME Inv, phase = "move", NEW e \in Places, e # Lost, InFunction(e), OutOfTrampolines(e),
         NEW d, d = Follow(ops[index], e),
         \A i \in DOMAIN ops : Followed(i)' <=> Followed(i) \/ i = index,
         UNCHANGED <<ops, before>>
  PROVE  d # Lost /\ InFunction(d)' /\ OutOfTrampolines(d)'
<1> USE DetoursAssumption
<1> DEFINE o == ops[index]
<1>1. /\ Len(ops) \in Nat /\ DOMAIN ops = 1 .. Len(ops) /\ index \in 1 .. Len(ops)
      /\ Pending = DOMAIN ops /\ index \in Pending
      /\ \A i \in DOMAIN ops : Followed(i) <=> i > index
      /\ \A i \in DOMAIN ops : Followed(i)' <=> i >= index
  <2>1. Len(ops) \in Nat /\ DOMAIN ops = 1 .. Len(ops) /\ index \in 1 .. Len(ops)
    BY OperationAt DEF Inv, TypeOK
  <2>2. Pending = DOMAIN ops
    BY DEF Pending
  <2>3. \A i \in DOMAIN ops : Followed(i) <=> i > index
    BY DEF Followed
  <2>4. \A i \in DOMAIN ops : i >= index <=> i > index \/ i = index
    BY <2>1
  <2> QED
    BY <2>1, <2>2, <2>3, <2>4
<1>2. o.target \in Targets /\ o.tramp \in Trampolines /\ o.remove \in BOOLEAN
  BY <1>1, PendingAt
<1>3. \A i \in DOMAIN ops : ops[i].tramp \in Trampolines
                            /\ (i # index => ops[i].tramp # o.tramp)
  BY <1>1, PendingAt, TrampolinesApart
<1>4. \A g \in Targets : g \notin Trampolines
  OBVIOUS
<1>5. CASE o.remove /\ Inside(e, o.tramp) /\ e[2] < Scanned
  <2>1. d = <<o.target, e[2]>> /\ e[2] \in Nat
    BY <1>5, InsidePlaces DEF Follow
  <2>2. d # Lost /\ \A y : Inside(d, y) <=> y = o.target
    BY <2>1, <1>2, PlacedInside
  <2>3. OutOfTrampolines(d)'
    BY <2>2, <1>2, <1>3, <1>4 DEF OutOfTrampolines
  <2>4. InFunction(d)'
    <3> SUFFICES ASSUME NEW g \in Targets, g = o.target
        PROVE  \A i \in DOMAIN ops :
                 /\ i >= index /\ ops[i].target = g
                 /\ \A j \in DOMAIN ops : j >= index /\ ops[j].target = g => j >= i
                 => ops[i].remove
      BY <2>2, <1>1 DEF InFunction
    <3> QED
      BY <1>1, <1>5
  <2> QED
    BY <2>2, <2>3, <2>4
<1>6. CASE ~o.remove /\ Inside(e, o.target)
  <2>1. d = <<o.tramp, e[2]>> /\ e[2] \in Nat
    BY <1>6, InsidePlaces DEF Follow
  <2>2. d # Lost /\ \A y : Inside(d, y) <=> y = o.tramp
    BY <2>1, <1>2, PlacedInside
  <2>3. OutOfTrampolines(d)'
    BY <2>2, <1>3, <1>6 DEF OutOfTrampolines
  <2>4. InFunction(d)'
    BY <2>2, <1>2, <1>4 DEF InFunction
  <2> QED
    BY <2>2, <2>3, <2>4
<1>7. CASE /\ ~(o.remove /\ Inside(e, o.tramp) /\ e[2] < Scanned)
           /\ ~(~o.remove /\ Inside(e, o.target))
  <2>1. d = e
    BY <1>7 DEF Follow
  <2>2. OutOfTrampolines(d)'
    <3>1. Inside(e, o.tramp) /\ o.remove => e[2] >= Scanned
      BY <1>7, InsidePlaces
    <3> QED
      BY <3>1, <2>1, <1>1 DEF OutOfTrampolines
  <2>3. InFunction(d)'
    <3> SUFFICES ASSUME NEW g \in Targets, Inside(e, g), e[2] # 0
        PROVE  \A i \in DOMAIN ops :
                 /\ i >= index /\ ops[i].target = g
                 /\ \A j \in DOMAIN ops : j >= index /\ ops[j].target = g => j >= i
                 => ops[i].remove
      BY <2>1, <1>1 DEF InFunction
    <3>1. \A i \in DOMAIN ops :
            /\ i > index /\ ops[i].target = g
            /\ \A j \in DOMAIN ops : j > index /\ ops[j].target = g => j >= i
            => ops[i].remove
      BY <1>1 DEF InFunction
    <3>2. CASE g = o.target
      BY <3>2, <1>1, <1>2, <1>7
    <3>3. CASE g # o.target
      <4>1. /\ \A j \in DOMAIN ops : j >= index /\ ops[j].target = g => j > index
            /\ \A j \in DOMAIN ops : j > index => j >= index
        BY <3>3, <1>1
      <4> QED
        BY <4>1, <3>1
    <3> QED
      BY <3>2, <3>3
  <2> QED
    BY <2>1, <2>2, <2>3
<1> QED
  BY <1>5, <1>6, <1>7

LEMMA UpdateThreadsFollowing ==
  ASSUME Inv, Inv', Following, NEW t \in Threads, UpdateThreads(t)
  PROVE  Following'
<1> USE DetoursAssumption
<1> DEFINE o == ops[index]
<1>1. /\ phase = "move"
      /\ eip' = [w \in Workers |->
                  IF w \in enlisted \ missed' THEN Follow(o, eip[w]) ELSE eip[w]]
      /\ \/ index > 1 /\ phase' = "move" /\ index' = index - 1
         \/ index = 1 /\ phase' = "restore" /\ index' = Len(ops)
      /\ missed \subseteq missed'
      /\ UNCHANGED <<ops, enlisted, before, code, ptr, tramp>>
  BY DEF UpdateThreads, Onward, Aside, memory
<1>2. /\ Len(ops) \in Nat /\ DOMAIN ops = 1 .. Len(ops) /\ index \in 1 .. Len(ops)
      /\ Pending = DOMAIN ops /\ index \in Pending
  BY <1>1, OperationAt DEF Inv, TypeOK, Pending
<1>3. Pending' = Pending
  BY <1>1, <1>2 DEF Pending
<1>4. /\ \A i : Patched(i) /\ Patched(i)' /\ Pointed(i) /\ Pointed(i)'
      /\ \A i \in DOMAIN ops : Followed(i)' <=> Followed(i) \/ i = index
  BY <1>1, <1>2 DEF Patched, Pointed, Followed
<1>5. CodeByOperations'
  BY <1>1, <1>4 DEF Following, CodeByOperations
<1>6. enlisted \subseteq Workers /\ eip \in [Workers -> Places]
  BY DEF Inv, TypeOK
<1>7. ThreadsFollow'
  <2> SUFFICES ASSUME NEW w \in enlisted \ missed', NEW d, d = eip'[w]
               PROVE  d = Lost \/ (InFunction(d)' /\ OutOfTrampolines(d)')
    BY <1>1 DEF ThreadsFollow, InFunction, OutOfTrampolines
  <2>1. d = Follow(o, eip[w]) /\ eip[w] \in Places
    BY <1>1, <1>6
  <2>2. CASE eip[w] = Lost
    BY <2>1, <2>2 DEF Follow, Inside
  <2>3. CASE eip[w] # Lost
    <3>1. InFunction(eip[w]) /\ OutOfTrampolines(eip[w])
      BY <2>3, <1>1 DEF Following, ThreadsFollow
    <3>2. PICK e : e = eip[w]
      OBVIOUS
    <3> QED
      BY <3>1, <3>2, <2>1, <2>3, <1>1, <1>4, FollowKeeps
  <2> QED
    BY <2>2, <2>3
<1>8. TrampolinesEntered'
  <2> SUFFICES ASSUME NEW w \in Workers, NEW k \in Trampolines, Inside(eip'[w], k)
               PROVE  tramp[k] # Free
    BY <1>1, <1>4 DEF TrampolinesEntered
  <2>1. o.target \in Targets /\ o.tramp \in Trampolines /\ tramp[o.tramp] # Free
    BY <1>2, PendingAt
  <2>2. eip'[w] = eip[w] \/ eip'[w] = Follow(o, eip[w])
    BY <1>1
  <2>3. eip[w] \in Places
    BY <1>6
  <2>4. eip'[w] = eip[w] \/ k = o.target \/ k = o.tramp
    <3>1. CASE o.remove /\ Inside(eip[w], o.tramp) /\ eip[w][2] < Scanned
      BY <3>1, <2>1, <2>2, <2>3, InsidePlaces, PlacedInside DEF Follow
    <3>2. CASE ~o.remove /\ Inside(eip[w], o.target)
      BY <3>2, <2>1, <2>2, <2>3, InsidePlaces, PlacedInside DEF Follow
    <3>3. CASE /\ ~(o.remove /\ Inside(eip[w], o.tramp) /\ eip[w][2] < Scanned)
               /\ ~(~o.remove /\ Inside(eip[w], o.target))
      BY <3>3, <2>2 DEF Follow
    <3> QED
      BY <3>1, <3>2, <3>3
  <2> QED
    BY <2>1, <2>4 DEF Following, TrampolinesEntered
<1> QED
  BY <1>1, <1>5, <1>7, <1>8 DEF Following

\* What Restore does to the threads.
LEMMA RestoreThreads ==
  ASSUME Inv, Following, NEW t \in Threads, Restore(t), NEW w \in Workers
  PROVE  \/ eip'[w] = eip[w] /\ ~(GivesBack(ops[index]) /\ Inside(eip[w], ops[index].tramp))
         \/ /\ eip'[w] = Lost /\ GivesBack(ops[index]) /\ Inside(eip[w], ops[index].tramp)
            /\ phase = "restore" /\ ops[index].remove
            /\ w \in enlisted \ missed => eip[w] = Lost \/ eip[w][2] >= Scanned
<1> DEFINE o == ops[index]
           k == o.tramp
<1>1. /\ phase \in {"restore", "undo"} /\ index > 0
      /\ \/ GivesBack(o) /\ eip' = [v \in Workers |-> IF Inside(eip[v], k) THEN Lost ELSE eip[v]]
         \/ ~GivesBack(o) /\ eip' = eip
  BY DEF Restore
<1>2. /\ Len(ops) \in Nat /\ DOMAIN ops = 1 .. Len(ops) /\ index \in 1 .. Len(ops)
      /\ index \in Pending /\ k \in Trampolines /\ o.remove \in BOOLEAN
  <2>1. index \in Pending
    BY <1>1, OperationAt DEF Inv, TypeOK, Pending
  <2> QED
    BY <2>1, PendingAt, OperationAt DEF Inv, Pending
<1>3. CASE GivesBack(o) /\ Inside(eip[w], k)
  <2>1. phase = "undo" => ~o.remove /\ ~Pointed(index)
    BY <1>2, <1>3 DEF GivesBack, Pointed
  <2>2. phase = "restore" /\ o.remove
    BY <2>1, <1>1, <1>2, <1>3 DEF Following, TrampolinesEntered, GivesBack
  <2>3. Followed(index)
    BY <2>2 DEF Followed
  <2>4. w \in enlisted \ missed => eip[w] = Lost \/ eip[w][2] >= Scanned
    BY <2>2, <2>3, <1>2, <1>3 DEF Following, ThreadsFollow, OutOfTrampolines
  <2> QED
    BY <2>2, <2>4, <1>1, <1>3
<1>4. CASE ~(GivesBack(o) /\ Inside(eip[w], k))
  BY <1>1, <1>4
<1> QED
  BY <1>3, <1>4

LEMMA RestoreFollowing ==
  ASSUME Inv, Inv', Following, NEW t \in Threads, Restore(t)
  PROVE  Following'
<1> USE DetoursAssumption
<1> DEFINE o == ops[index]
           k == o.tramp
<1>1. /\ phase \in {"restore", "undo"} /\ index > 0 /\ index' = index - 1
      /\ UNCHANGED <<ops, enlisted, missed, phase, before, code, ptr>>
      /\ \/ GivesBack(o) /\ tramp' = [tramp EXCEPT ![k] = Free]
         \/ ~GivesBack(o) /\ tramp' = tramp
  BY DEF Restore
<1>2. Len(ops) \in Nat /\ DOMAIN ops = 1 .. Len(ops) /\ index \in 1 .. Len(ops)
  BY <1>1, OperationAt DEF Inv, TypeOK
<1>3. \A i \in Pending' : i \in Pending
  BY <1>1, <1>2 DEF Pending
<1>4. /\ \A i : Patched(i)' <=> Patched(i)
      /\ \A i : Pointed(i)' <=> Pointed(i)
      /\ \A i : Followed(i)' <=> Followed(i)
  BY <1>1 DEF Patched, Pointed, Followed
<1>5. CodeByOperations'
  BY <1>1, <1>4 DEF Following, CodeByOperations
<1>6. ThreadsFollow'
  <2> SUFFICES ASSUME NEW w \in enlisted \ missed, NEW d, d = eip'[w]
               PROVE  d = Lost \/ (InFunction(d)' /\ OutOfTrampolines(d)')
    BY <1>1 DEF ThreadsFollow, InFunction, OutOfTrampolines
  <2>1. d = Lost \/ d = eip[w]
    BY RestoreThreads DEF Inv, TypeOK
  <2>2. d = Lost \/ (InFunction(d) /\ OutOfTrampolines(d))
    BY <2>1, <1>1 DEF Following, ThreadsFollow
  <2> QED
    BY <2>2, <1>1, <1>4 DEF InFunction, OutOfTrampolines
<1>7. TrampolinesEntered'
  <2> SUFFICES ASSUME NEW w \in Workers, NEW j \in Trampolines, Inside(eip'[w], j)
               PROVE  /\ tramp'[j] # Free
                      /\ \A i \in Pending' : ops[i].tramp = j /\ ~ops[i].remove => Pointed(i)
    BY <1>1, <1>4 DEF TrampolinesEntered
  <2>1. eip'[w] = eip[w] /\ ~(GivesBack(o) /\ Inside(eip[w], k))
    BY RestoreThreads DEF Inside
  <2>2. /\ tramp[j] # Free
        /\ \A i \in Pending : ops[i].tramp = j /\ ~ops[i].remove => Pointed(i)
    BY <2>1 DEF Following, TrampolinesEntered
  <2>3. tramp'[j] # Free
    BY <2>1, <2>2, <1>1 DEF Inv, TypeOK
  <2> QED
    BY <2>2, <2>3, <1>3
<1> QED
  BY <1>1, <1>5, <1>6, <1>7 DEF Following

LEMMA FinishFollowing ==
  ASSUME Inv, Inv', Following, NEW t \in Threads, Finish(t)
  PROVE  Following'
<1>1. /\ phase' = "idle" /\ ops' = << >> /\ enlisted' = {}
      /\ UNCHANGED <<tramp, eip>>
  BY DEF Finish, memory
<1>2. Pending' = {}
  BY <1>1 DEF Pending
<1> QED
  BY <1>1, <1>2 DEF Following, CodeByOperations, ThreadsFollow, TrampolinesEntered

LEMMA RunFollowing ==
  ASSUME Inv, Inv', Following, NEW w \in Workers, Run(w)
  PROVE  Following'
<1> USE DetoursAssumption
<1>1. /\ w \notin enlisted /\ eip[w] # Lost
      /\ UNCHANGED <<ops, enlisted, missed, phase, index, before, code, ptr, tramp>>
      /\ \A v \in Workers : v # w => eip'[v] = eip[v]
  BY DEF Run, transaction, memory, Inv, TypeOK
<1>2. /\ Pending' = Pending
      /\ \A i : Patched(i)' = Patched(i) /\ Pointed(i)' = Pointed(i) /\ Followed(i)' = Followed(i)
  BY <1>1 DEF Pending, Patched, Pointed, Followed
<1>3. CodeByOperations'
  BY <1>1, <1>2 DEF Following, CodeByOperations
<1>4. ThreadsFollow'
  <2>1. \A v \in enlisted : eip'[v] = eip[v]
    BY <1>1 DEF Inv, TypeOK
  <2> QED
    BY <2>1, <1>1, <1>2 DEF Following, ThreadsFollow, InFunction, OutOfTrampolines
<1>5. TrampolinesEntered'
  <2> SUFFICES ASSUME NEW k \in Trampolines, Inside(eip'[w], k)
               PROVE  /\ tramp[k] # Free
                      /\ \A i \in Pending : ops[i].tramp = k /\ ~ops[i].remove => Pointed(i)
    BY <1>1, <1>2 DEF Following, TrampolinesEntered
  <2>1. CASE Inside(eip[w], k)
    BY <2>1 DEF Following, TrampolinesEntered
  <2>2. CASE \E p \in Pointers : ptr[p] = k
    <3>1. PICK p \in Pointers : ptr[p] = k
      BY <2>2
    <3>2. tramp[k] # Free /\ tramp[k].pointer = p
      BY <3>1 DEF Inv, Core, PointersLeadHome
    <3>3. ASSUME NEW i \in Pending, ops[i].tramp = k, ~ops[i].remove
          PROVE  Pointed(i)
      <4>1. ops[i].pointer = p /\ ops[i].target \in Targets
        BY <3>2, <3>3, PendingAt
      <4> QED
        BY <4>1, <3>1, <3>3 DEF Inv, Core, ReachedInTurn
    <3> QED
      BY <3>2, <3>3
  <2>3. Inside(eip[w], k) \/ \E p \in Pointers : ptr[p] = k
    <3>1. ASSUME NEW g \in Targets, eip' = [eip EXCEPT ![w] = <<g, 0>>]
          PROVE  FALSE
      <4>1. eip'[w] = <<g, 0>>
        BY <3>1 DEF Inv, TypeOK
      <4> QED
        BY <4>1, PlacedInside
    <3>2. ASSUME NEW p \in Pointers, ptr[p] \in Trampolines,
                 eip' = [eip EXCEPT ![w] = <<ptr[p], 0>>]
          PROVE  ptr[p] = k
      <4>1. eip'[w] = <<ptr[p], 0>>
        BY <3>2 DEF Inv, TypeOK
      <4> QED
        BY <4>1, <3>2, PlacedInside
    <3>3. ASSUME eip[w] # Out, eip' = [eip EXCEPT ![w] = NextPlace(eip[w])]
          PROVE  Inside(eip[w], k)
      <4>1. eip[w] \in (Targets \cup Trampolines) \X (0 .. Moved - 1) /\ eip[w] # Lost
        BY <3>3, <1>1 DEF Inv, TypeOK, Places
      <4>2. eip[w][1] \in Targets \cup Trampolines /\ eip[w][2] + 1 \in Nat
        BY <4>1
      <4>3. eip'[w] = <<eip[w][1], eip[w][2] + 1>>
        BY <3>3, NextPlaceKnown DEF Inv, TypeOK, Inside
      <4>4. eip[w][1] = k
        BY <4>2, <4>3, PlacedInside
      <4> QED
        BY <4>1, <4>4, <3>3 DEF Inside
    <3>4. ASSUME eip' = [eip EXCEPT ![w] = Lost] PROVE FALSE
      BY <3>4 DEF Inv, TypeOK, Inside
    <3> QED
      BY <3>1, <3>2, <3>3, <3>4 DEF Run
  <2> QED
    BY <2>1, <2>2, <2>3
<1> QED
  BY <1>1, <1>3, <1>4, <1>5 DEF Following

LEMMA FollowingInductive == Inv /\ Inv' /\ Following /\ [Next]_vars => Following'
<1> SUFFICES ASSUME Inv, Inv', Following, [Next]_vars PROVE Following'
  OBVIOUS
<1>1. ASSUME NEW t \in Threads, Client(t) PROVE Following'
  <2>1. CASE Begin(t)
    BY <2>1, BeginFollowing
  <2>2. CASE Commit(t)
    <3>1. Enter(IF failed THEN "undo" ELSE IF ops = << >> THEN "restore" ELSE "apply")
          /\ phase = "open"
      BY <2>2 DEF Commit
    <3> QED
      BY <3>1, EnterFollowing
  <2>3. CASE Abort(t)
    BY <2>3, EnterFollowing DEF Abort
  <2>4. ASSUME NEW p \in Pointers, Untouched(p), Attach(t, p) PROVE Following'
    <3>1. PICK k \in Trampolines :
            /\ tramp[k] = Free
            /\ tramp' = [tramp EXCEPT ![k] =
                           [pointer |-> p, target |-> ptr[p], saved |-> code[ptr[p]]]]
            /\ ops' = Append(ops, [remove |-> FALSE, pointer |-> p, target |-> ptr[p],
                                   tramp |-> k, perm |-> prot[Page[ptr[p]]]])
      BY <2>4 DEF Attach, Allocate, Vacant, Push
    <3>2. /\ phase = "open"
          /\ UNCHANGED <<phase, index, enlisted, missed, before, code, ptr, eip>>
      BY <2>4 DEF Attach, MayAsk
    <3> DEFINE o == [remove |-> FALSE, pointer |-> p, target |-> ptr[p],
                     tramp |-> k, perm |-> prot[Page[ptr[p]]]]
    <3>3. o \in Operation
      BY <2>4, DetoursAssumption DEF Operation, Untouched, Inv, TypeOK
    <3>4. \A j \in Trampolines : j # k => tramp'[j] = tramp[j]
      BY <3>1 DEF Inv, TypeOK
    <3>5. ops' = Append(ops, o) /\ o.tramp = k /\ ~o.remove
      BY <3>1
    <3> HIDE DEF o
    <3> QED
      BY <3>1, <3>2, <3>3, <3>4, <3>5, PushFollowing
  <2>5. ASSUME NEW p \in Pointers, AttachFails(t, p) PROVE Following'
    BY <2>5, FollowingKept DEF AttachFails, Fail, memory
  <2>6. ASSUME NEW p \in Pointers, Detach(t, p) PROVE Following'
    <3> DEFINE k == ptr[p]
               o == [remove |-> TRUE, pointer |-> p, target |-> tramp[k].target,
                     tramp |-> k, perm |-> prot[Page[tramp[k].target]]]
    <3>1. /\ k \in Trampolines /\ tramp[k] # Free /\ ops' = Append(ops, o)
          /\ phase = "open"
          /\ UNCHANGED <<phase, index, enlisted, missed, before, code, ptr, tramp, eip>>
      BY <2>6 DEF Detach, Attached, MayAsk, Push
    <3>2. tramp[k].target \in Targets
      BY <3>1, UseAt DEF Inv
    <3>3. o \in Operation
      BY <3>1, <3>2, DetoursAssumption DEF Operation, Inv, TypeOK
    <3>4. o.tramp = k /\ o.remove
      OBVIOUS
    <3> HIDE DEF o, k
    <3> QED
      BY <3>1, <3>3, <3>4, PushFollowing
  <2>7. ASSUME DetachFails(t) \/ EnlistFails(t) PROVE Following'
    BY <2>7, FollowingKept DEF DetachFails, EnlistFails, Fail, memory
  <2>8. ASSUME NEW w \in Workers, w \notin enlisted, Enlist(t, w) PROVE Following'
    BY <2>8, EnlistFollowing
  <2>9. CASE AttachRefused(t)
    BY <2>9, FollowingKept DEF AttachRefused, memory
  <2> QED
    BY <1>1, <2>1, <2>2, <2>3, <2>4, <2>5, <2>6, <2>7, <2>8, <2>9 DEF Client
<1>2. ASSUME NEW t \in Threads, Engine(t) PROVE Following'
  BY <1>2, PatchFollowing, PointFollowing, UpdateThreadsFollowing, RestoreFollowing,
     FinishFollowing DEF Engine
<1>3. ASSUME NEW w \in Workers, Run(w) PROVE Following'
  BY <1>3, RunFollowing
<1>4. CASE UNCHANGED vars
  BY <1>4, FollowingKept DEF vars, transaction, memory
<1> QED
  BY <1>1, <1>2, <1>3, <1>4 DEF Next

\* At the end of a transaction suspended threads stand where code is intact, or
\* where it was not when the transaction began.
LEMMA FinishSound ==
  ASSUME Inv, Following, NEW t \in Threads, Finish(t), NEW w \in enlisted \ missed
  PROVE  eip[w] = Lost \/ Sound(eip[w]) \/ Astray(w)
<1>1. /\ phase \in {"restore", "undo"}
      /\ \A i : Patched(i) <=> phase = "restore"
      /\ \A i : Followed(i) <=> phase = "restore"
  BY DEF Finish, Patched, Followed
<1>2. SUFFICES ASSUME eip[w] # Lost, NEW g \in Targets, Inside(eip[w], g), eip[w][2] # 0,
                      code[g] # Original
               PROVE  before.code[g] # Original
  BY DEF Sound, Astray
<1>3. \A i \in DOMAIN ops :
        /\ Followed(i) /\ ops[i].target = g
        /\ \A j \in DOMAIN ops : Followed(j) /\ ops[j].target = g => j >= i
        => ops[i].remove
  BY <1>1, <1>2 DEF Following, ThreadsFollow, InFunction
<1>4. \/ \E i \in DOMAIN ops :
           /\ Patched(i) /\ ~ops[i].remove /\ ops[i].target = g
           /\ \A j \in DOMAIN ops : Patched(j) /\ ops[j].target = g => j >= i
      \/ /\ \A i \in DOMAIN ops : Patched(i) => ops[i].target # g
         /\ before.code[g] # Original
  BY <1>1, <1>2 DEF Following, CodeByOperations
<1> QED
  BY <1>1, <1>3, <1>4

\* A suspended thread resumes where its code is, or was deeper in a trampoline
\* than commit looks.
THEOREM ThreadsFollowCode == Spec => EnlistedFollow
<1> USE DetoursAssumption
<1>1. Spec => []Following
  <2>1. Spec => [](Inv /\ Following)
    <3>1. Init => Inv /\ Following
      BY Initially, FollowingInitially
    <3>2. Inv /\ Following /\ [Next]_vars => Inv' /\ Following'
      BY Inductive, FollowingInductive
    <3> QED
      BY <3>1, <3>2, PTL DEF Spec
  <2> QED
    BY <2>1, PTL
<1>2. Inv /\ Following /\ [Next]_vars =>
        [\A w \in enlisted \ missed :
           /\ eip'[w] = Lost => eip[w] = Lost \/ eip[w][2] >= Scanned
           /\ owner # NoThread /\ owner' = NoThread =>
                eip[w] = Lost \/ Sound(eip[w]) \/ Astray(w)]_vars
  <2> SUFFICES ASSUME Inv, Following, Next, NEW w \in enlisted \ missed
               PROVE  /\ eip'[w] = Lost => eip[w] = Lost \/ eip[w][2] >= Scanned
                      /\ owner # NoThread /\ owner' = NoThread =>
                           eip[w] = Lost \/ Sound(eip[w]) \/ Astray(w)
    OBVIOUS
  <2>1. w \in Workers /\ eip[w] \in Places
    BY DEF Inv, TypeOK
  <2>2. ASSUME NEW t \in Threads, Client(t) PROVE eip' = eip
    BY <2>2
       DEF Client, Begin, Commit, Abort, Enter, Attach, AttachFails, AttachRefused, Detach,
           DetachFails, Enlist, EnlistFails, Fail, memory
  <2>3. ASSUME NEW t \in Threads, Patch(t) \/ Point(t) PROVE eip' = eip
    BY <2>3 DEF Patch, Point
  <2>4. ASSUME NEW t \in Threads, UpdateThreads(t)
        PROVE  eip'[w] = Lost => eip[w] = Lost
    <3>1. eip'[w] = Follow(ops[index], eip[w]) \/ eip'[w] = eip[w]
      BY <2>1, <2>4 DEF UpdateThreads
    <3>2. ops[index].target \in Targets /\ ops[index].tramp \in Trampolines
      BY <2>4, OperationAt DEF UpdateThreads, Inv, TypeOK
    <3> QED
      BY <3>1, <3>2, <2>1, InsidePlaces, PlacedInside DEF Follow
  <2>5. ASSUME NEW t \in Threads, Restore(t)
        PROVE  eip'[w] = Lost => eip[w] = Lost \/ eip[w][2] >= Scanned
    BY <2>1, <2>5, RestoreThreads
  <2>6. ASSUME NEW t \in Threads, Finish(t)
        PROVE  eip' = eip
    BY <2>6 DEF Finish
  <2>7. ASSUME NEW v \in Workers, Run(v) PROVE eip'[w] = eip[w]
    BY <2>1, <2>7 DEF Run, Inv, TypeOK
  <2>8. eip'[w] = Lost => eip[w] = Lost \/ eip[w][2] >= Scanned
    BY <2>2, <2>3, <2>4, <2>5, <2>6, <2>7 DEF Next, Engine
  <2>9. ASSUME owner # NoThread, owner' = NoThread
        PROVE  eip[w] = Lost \/ Sound(eip[w]) \/ Astray(w)
    BY <2>9, EndsByFinish, FinishSound
  <2> QED
    BY <2>8, <2>9
<1> QED
  BY <1>1, <1>2, Invariant, PTL DEF Spec, EnlistedFollow

-----------------------------------------------------------------------------
(***************************************************************************)
(* Commit and abort come to an end.  Their loops go down the list, and are  *)
(* followed by one another in this order.                                   *)
(***************************************************************************)
Loop(p) ==
  CASE p \in {"apply", "point"} -> 3 [] p = "move" -> 2
    [] p \in {"restore", "undo"} -> 1 [] p \in {"idle", "open"} -> 0

\* The writes left for the operation in hand.
Writes(p) == IF p = "apply" THEN 1 ELSE 0

Closer ==
  \/ Loop(phase') < Loop(phase)
  \/ Loop(phase') = Loop(phase) /\ index' < index
  \/ Loop(phase') = Loop(phase) /\ index' = index /\ Writes(phase') < Writes(phase)

LEMMA Loops ==
  /\ Loop("apply") = 3 /\ Loop("point") = 3 /\ Loop("move") = 2
  /\ Loop("restore") = 1 /\ Loop("undo") = 1 /\ Loop("idle") = 0 /\ Loop("open") = 0
  /\ Writes("apply") = 1 /\ Writes("point") = 0
  BY DEF Loop, Writes

LEMMA EngineCloser ==
  ASSUME Inv, NEW t \in Threads, Engine(t)
  PROVE  Closer
<1>1. index \in Nat
  BY DEF Inv, TypeOK
<1>2. CASE Patch(t)
  BY <1>2, Loops DEF Patch, Closer
<1>3. CASE Point(t)
  BY <1>1, <1>3, Loops DEF Point, Onward, Closer
<1>4. CASE UpdateThreads(t)
  BY <1>1, <1>4, Loops DEF UpdateThreads, Onward, Closer
<1>5. CASE Restore(t)
  BY <1>1, <1>5, Loops DEF Restore, Closer
<1>6. CASE Finish(t)
  BY <1>6, Loops DEF Finish, Closer
<1> QED
  BY <1>2, <1>3, <1>4, <1>5, <1>6 DEF Engine

\* DetourTransactionCommitEx and DetourTransactionAbort take finitely many steps:
\* each brings them closer to their end in a well-founded order, which no other
\* thread and no client can prolong, since nothing is queued any more.
THEOREM TransactionsEnd ==
  Spec => /\ [](index \in Nat)
          /\ [][/\ \A t \in Threads : Engine(t) => Closer
                /\ phase \notin {"idle", "open"} =>
                     Closer \/ UNCHANGED <<owner, phase, index, ops>>]_vars
<1> DEFINE Steps == /\ \A t \in Threads : Engine(t) => Closer
                    /\ phase \notin {"idle", "open"} =>
                         Closer \/ UNCHANGED <<owner, phase, index, ops>>
<1>1. ASSUME Inv, NEW t \in Threads, Client(t), phase \notin {"idle", "open"}
      PROVE  UNCHANGED <<owner, phase, index, ops>>
  BY <1>1, DetoursAssumption
     DEF Client, Begin, Commit, Abort, Attach, AttachFails, AttachRefused, Detach, DetachFails,
         Enlist, EnlistFails, Fail, MayAsk, transaction, Inv, Core, Owned
<1>2. Inv /\ [Next]_vars => [Steps]_vars
  <2> SUFFICES ASSUME Inv, Next PROVE Steps
    OBVIOUS
  <2>1. \A t \in Threads : Engine(t) => Closer
    BY EngineCloser
  <2>2. ASSUME NEW w \in Workers, Run(w) PROVE UNCHANGED <<owner, phase, index, ops>>
    BY <2>2 DEF Run, transaction
  <2> QED
    BY <1>1, EngineCloser, <2>1, <2>2 DEF Next
<1>3. Inv => index \in Nat
  BY DEF Inv, TypeOK
<1> HIDE DEF Steps
<1>4. Spec => [](index \in Nat) /\ [][Steps]_vars
  BY <1>2, <1>3, Invariant, PTL DEF Spec
<1> QED
  BY <1>4 DEF Steps

\* A hook calls its original through its pointer.  The pointer leads there
\* whenever the hook can be reached, except between the two writes by which
\* commit sets this very hook (detours.cpp:1749), not during any other write, of
\* an abort or a detach either.
HookLeadsOn ==
  \A g \in Targets : code[g] # Original =>
    \/ ptr[tramp[code[g]].pointer] \in Trampolines
    \/ /\ phase = "point" /\ ~ops[index].remove
       /\ ops[index].tramp = code[g] /\ ops[index].target = g
       /\ ops[index].pointer = tramp[code[g]].pointer

LEMMA HookLeads == Inv => HookLeadsOn
<1> SUFFICES ASSUME Inv, NEW g \in Targets, code[g] # Original,
                    ptr[tramp[code[g]].pointer] \notin Trampolines
             PROVE  /\ phase = "point" /\ ~ops[index].remove
                    /\ ops[index].tramp = code[g] /\ ops[index].target = g
                    /\ ops[index].pointer = tramp[code[g]].pointer
  BY DEF HookLeadsOn
<1> DEFINE k == code[g]
<1>1. k \in Trampolines /\ tramp[k] # Free /\ tramp[k].target = g
  BY DEF Inv, TypeOK, Jump, Core, CodeLeadsSomewhere
<1>2. PICK i \in Pending : ops[i].tramp = k
  BY <1>1 DEF Inv, Core, Accounted
<1>3. /\ ops[i].pointer = tramp[k].pointer /\ ops[i].target = g
      /\ i \in Nat
  BY <1>1, <1>2, OperationAt DEF Inv, Core, OperationsLive, Pending
<1>4. ASSUME ops[i].remove PROVE FALSE
  <2>1. /\ Patched(i) => code[g] # k
        /\ ptr[ops[i].pointer] = IF Pointed(i) THEN ops[i].target ELSE k
    BY <1>2, <1>4 DEF Inv, Core, ReachedInTurn
  <2>2. Pointed(i) => Patched(i)
    BY <1>3 DEF Pointed, Patched, Inv, TypeOK
  <2> QED
    BY <1>1, <1>3, <2>1, <2>2
<1>5. Patched(i) /\ ~Pointed(i)
  BY <1>1, <1>2, <1>3, <1>4 DEF Inv, Core, ReachedInTurn
<1>6. phase = "point" /\ i = index
  BY <1>3, <1>5 DEF Patched, Pointed, Inv, TypeOK
<1> QED
  BY <1>2, <1>3, <1>4, <1>6

THEOREM HooksLeadOn == Spec => []HookLeadsOn
  BY HookLeads, Invariant, PTL
=============================================================================
