--------------------------- MODULE ThrdWin32Proofs ---------------------------
(***************************************************************************)
(* Theorems about threads and their thread-specific storage, for any       *)
(* threads, numbers of slots and of indexes, and bounds.                   *)
(***************************************************************************)
EXTENDS ThrdWin32, FiniteSetTheorems, TLAPS

(***************************************************************************)
(* Types of the storage.  A thread that has found a slot stays below the   *)
(* end of the table, so that its two stores go into the table.             *)
(***************************************************************************)
StorageTypes ==
  /\ TypeOK
  /\ \A t \in Threads : pc[t] \in {"store_key", "store_dtor"} => i[t] < SlotNum

LEMMA StorageTypesInit == Init => StorageTypes
<1> SUFFICES ASSUME Init PROVE StorageTypes
  OBVIOUS
<1>1. tbl \in [Slots -> [key : Keys \union {Invalid}, dtor : Dtors \union {NULL}]]
  <2>1. 0 \in Keys
    BY TssAssumption DEF Keys
  <2> QED
    BY <2>1 DEF Init
<1>2. /\ live \in [Keys -> Dtors \union {NULL}]
      /\ tls \in [Threads -> [Keys -> Dtors \union {NULL}]]
      /\ calls \in [Threads -> Seq(Dtors \X (Dtors \union {NULL}))]
  BY DEF Init
<1> QED
  BY <1>1, <1>2, TssAssumption DEF Init, StorageTypes, TypeOK, NULL

LEMMA StorageTypesNext == StorageTypes /\ [Next]_vars => StorageTypes'
<1> SUFFICES ASSUME StorageTypes, [Next]_vars PROVE StorageTypes'
  OBVIOUS
<1> USE TssAssumption DEF StorageTypes, TypeOK, Goto, sys
<1>1. ASSUME NEW t \in Threads, NEW k \in Keys \union {Invalid}, NEW b \in BOOLEAN,
             TssCreate(t, k, b)
      PROVE  StorageTypes'
  <2>1. creates + 1 \in Dtors /\ creates' \in 0..MaxCreates
    BY <1>1 DEF TssCreate, Dtors
  <2>2. live' \in [Keys -> Dtors \union {NULL}]
    BY <1>1, <2>1 DEF TssCreate, TlsAlloc
  <2>3. tls' \in [Threads -> [Keys -> Dtors \union {NULL}]]
    <3>1. CASE UNCHANGED tls
      BY <3>1
    <3>2. CASE tls' = [u \in Threads |-> [tls[u] EXCEPT ![k] = NULL]]
      <4>1. \A u \in Threads : [tls[u] EXCEPT ![k] = NULL]
                                 \in [Keys -> Dtors \union {NULL}]
        OBVIOUS
      <4> QED
        BY <3>2, <4>1
    <3> QED
      BY <1>1, <3>1, <3>2 DEF TssCreate, TlsAlloc
  <2>4. /\ dtor' \in [Threads -> Dtors \union {NULL}] /\ hasDtor' \subseteq Dtors
        /\ key' \in [Threads -> Keys \union {Invalid}]
        /\ i' \in [Threads -> 0..SlotNum]
    BY <1>1, <2>1 DEF TssCreate
  <2> QED
    BY <1>1, <2>1, <2>2, <2>3, <2>4 DEF TssCreate
<1>2. ASSUME NEW t \in Threads, ScanSlot(t) PROVE StorageTypes'
  <2>1. /\ i[t] < SlotNum
        /\ \/ pc' = [pc EXCEPT ![t] = "store_key"] /\ i' = i
           \/ pc' = [pc EXCEPT ![t] = "scan"] /\ i' = [i EXCEPT ![t] = @ + 1]
        /\ UNCHANGED <<tbl, live, usable, tls, creates, hasDtor, key, dtor, calls>>
    BY <1>2 DEF ScanSlot
  <2>2. i' \in [Threads -> 0..SlotNum]
    <3>1. i[t] + 1 \in 0..SlotNum
      BY <2>1
    <3> QED
      BY <2>1, <3>1
  <2>3. TypeOK'
    BY <2>1, <2>2
  <2>4. \A u \in Threads : pc'[u] \in {"store_key", "store_dtor"} => i'[u] < SlotNum
    BY <2>1
  <2> QED
    BY <2>3, <2>4
<1>3. ASSUME NEW t \in Threads, TableFull(t) PROVE StorageTypes'
  <2>1. live' \in [Keys -> Dtors \union {NULL}]
    BY <1>3 DEF TableFull
  <2> QED
    BY <1>3, <2>1 DEF TableFull
<1>4. ASSUME NEW t \in Threads, StoreKey(t) PROVE StorageTypes'
  BY <1>4 DEF StoreKey
<1>5. ASSUME NEW t \in Threads, StoreDtor(t) PROVE StorageTypes'
  BY <1>5 DEF StoreDtor
<1>6. ASSUME NEW t \in Threads, TssCreateReturn(t) PROVE StorageTypes'
  <2>1. usable' \subseteq Keys
    BY <1>6 DEF TssCreateReturn
  <2> QED
    BY <1>6, <2>1 DEF TssCreateReturn
<1>7. ASSUME NEW t \in Threads, NEW k \in Keys, TssDelete(t, k) PROVE StorageTypes'
  BY <1>7 DEF TssDelete
<1>8. ASSUME NEW t \in Threads, NEW k \in Keys, NEW v \in Dtors \union {NULL},
             TssSet(t, k, v)
      PROVE  StorageTypes'
  <2>1. tls' \in [Threads -> [Keys -> Dtors \union {NULL}]]
    BY <1>8 DEF TssSet
  <2> QED
    BY <1>8, <2>1 DEF TssSet
<1>9. ASSUME NEW t \in Threads, ThrdExit(t) PROVE StorageTypes'
  BY <1>9 DEF ThrdExit
<1>10. ASSUME NEW t \in Threads, Invoke(t) PROVE StorageTypes'
  <2>1. calls' \in [Threads -> Seq(Dtors \X (Dtors \union {NULL}))]
    <3> DEFINE e == tbl[i[t]]
    <3>1. CASE e.dtor # NULL /\ TssGet(t, e.key) # NULL
      <4>1. i[t] \in Slots
        BY <1>10 DEF Invoke, Slots
      <4>2. <<e.dtor, TssGet(t, e.key)>> \in Dtors \X (Dtors \union {NULL})
        BY <3>1, <4>1 DEF TssGet
      <4>3. Append(calls[t], <<e.dtor, TssGet(t, e.key)>>)
              \in Seq(Dtors \X (Dtors \union {NULL}))
        BY <4>2
      <4> QED
        BY <1>10, <3>1, <4>3 DEF Invoke
    <3>2. CASE ~ (e.dtor # NULL /\ TssGet(t, e.key) # NULL)
      BY <1>10, <3>2 DEF Invoke
    <3> QED
      BY <3>1, <3>2
  <2> QED
    BY <1>10, <2>1 DEF Invoke
<1>11. ASSUME NEW t \in Threads, InvokeDone(t) PROVE StorageTypes'
  BY <1>11 DEF InvokeDone
<1>12. CASE UNCHANGED vars
  BY <1>12 DEF vars
<1>13. \A k \in Keys : live[k] \in Dtors \union {NULL}
  OBVIOUS
<1> QED
  BY <1>1, <1>2, <1>3, <1>4, <1>5, <1>6, <1>7, <1>8, <1>9, <1>10, <1>11, <1>12,
     <1>13 DEF Next, Ended

-----------------------------------------------------------------------------
(* The storage's steps in the life of threads are steps of TssWin32. *)
TSteps == TInit /\ [][TNext]_allvars

LEMMA StepsOfTss == TSteps => Spec
<1>1. TInit => Init
  BY DEF TInit
<1>2. [TNext]_allvars => [Next]_vars
  <2> SUFFICES ASSUME TNext PROVE Next \/ UNCHANGED vars
    BY DEF allvars
  <2>1. ASSUME NEW u \in Children,
               ThrdCreate(u) \/ ThrdJoin(u) \/ ThrdDetach(u) \/ ThreadStep(u)
        PROVE  Next \/ UNCHANGED vars
    BY <2>1 DEF Children, ThrdCreate, ThrdJoin, ThrdDetach, ThreadStep,
                ThrdRoutine, FuncEnds, Leave, Next
  <2>2. CASE MainStep
    BY <2>2 DEF MainStep, BeginThread, StoreHandle, BeginFails, JoinReturns
  <2>3. ASSUME NEW t \in Threads, UseStorage(t) PROVE Next \/ UNCHANGED vars
    BY <2>3 DEF UseStorage, Next
  <2>4. ASSUME NEW t \in Threads, TssStep(t) PROVE Next \/ UNCHANGED vars
    BY <2>4 DEF TssStep, Next
  <2> QED
    BY <2>1, <2>2, <2>3, <2>4 DEF TNext, Over, allvars
<1> QED
  BY <1>1, <1>2, PTL DEF TSteps, Spec

LEMMA StepsOfThreads == TSpec => TSteps
BY PTL DEF TSpec, TSteps

(* The types of the storage's variables, in the life of threads. *)
THEOREM StorageKeepsTypes == TSpec => []TypeOK
<1>1. Spec => []StorageTypes
  BY StorageTypesInit, StorageTypesNext, PTL DEF Spec
<1>2. StorageTypes => TypeOK
  BY DEF StorageTypes
<1> QED
  BY <1>1, <1>2, StepsOfTss, StepsOfThreads, PTL

-----------------------------------------------------------------------------
(***************************************************************************)
(* The life of the threads: the block in thrd_create still belongs to a    *)
(* thread that does not run, a thread that is over has been through the    *)
(* walk, and a code that was handed out is the one of a thread that is     *)
(* over.                                                                   *)
(***************************************************************************)
LifeTypes ==
  /\ life \in [Threads -> {"none", "starting", "func", "over"}]
  /\ block \in [Threads -> {"none", "allocated", "freed"}]
  /\ code \in [Threads -> ExitCodes \union {NULL}]
  /\ DOMAIN joined = Threads /\ joined = [u \in Threads |-> joined[u]]
  /\ who \in Threads
  /\ at # "running" => who \in Children

CreateInv ==
  at = "create" => life[who] = "none" /\ block[who] = "allocated"

OverInv ==
  \A u \in Children :
    /\ pc[u] = "invoke" => life[u] = "func"
    /\ life[u] = "over" => pc[u] = "ended"
    /\ joined[u] # NULL => life[u] = "over" /\ joined[u] = code[u]

LifeInv == LifeTypes /\ CreateInv /\ BlockHandover /\ OverInv

LEMMA LifeInitInv == TInit => LifeInv
BY ThrdAssumption
   DEF TInit, Init, LifeInv, LifeTypes, CreateInv, BlockHandover, OverInv,
       Children, ExitCodes, NULL

LEMMA LifeNextInv == StorageTypes /\ LifeInv /\ [TNext]_allvars => LifeInv'
<1> SUFFICES ASSUME StorageTypes, LifeInv, [TNext]_allvars PROVE LifeInv'
  OBVIOUS
<1> USE ThrdAssumption DEF LifeInv, LifeTypes, CreateInv, BlockHandover, OverInv,
                           Children, ExitCodes
<1>1. ASSUME NEW u \in Children, ThrdCreate(u) PROVE LifeInv'
  BY <1>1 DEF ThrdCreate, Call, Idle, vars
<1>2. ASSUME NEW u \in Children, ThrdJoin(u) PROVE LifeInv'
  BY <1>2 DEF ThrdJoin, Call, Idle, vars
<1>3. ASSUME NEW u \in Children, ThrdDetach(u) PROVE LifeInv'
  BY <1>3 DEF ThrdDetach, Idle, vars
<1>4. ASSUME NEW u \in Children, ThrdRoutine(u) PROVE LifeInv'
  BY <1>4 DEF ThrdRoutine, vars
<1>5. ASSUME NEW u \in Children, NEW c \in ExitCodes, FuncEnds(u, c) PROVE LifeInv'
  <2>1. pc[u] = "running" /\ pc' = [pc EXCEPT ![u] = "invoke"]
    BY <1>5 DEF FuncEnds, ThrdExit, Goto
  <2>2. life[u] = "func" /\ joined[u] = NULL
    BY <1>5, <2>1 DEF FuncEnds
  <2> QED
    BY <1>5, <2>1, <2>2 DEF FuncEnds, StorageTypes, TypeOK
<1>6. ASSUME NEW u \in Children, Leave(u) PROVE LifeInv'
  <2>1. /\ pc[u] = "invoke"
        /\ pc' = [pc EXCEPT ![u] = "invoke"] \/ pc' = [pc EXCEPT ![u] = "ended"]
        /\ life' = IF pc'[u] = "ended" THEN [life EXCEPT ![u] = "over"] ELSE life
        /\ UNCHANGED <<block, handle, code, at, who, joined, leaked>>
    BY <1>6 DEF Leave, Invoke, InvokeDone, Goto
  <2>2. life[u] = "func" /\ joined[u] = NULL
    BY <2>1
  <2> QED
    BY <2>1, <2>2 DEF StorageTypes, TypeOK
<1>7. CASE BeginThread
  BY <1>7 DEF BeginThread, vars
<1>8. CASE StoreHandle
  BY <1>8 DEF StoreHandle, ReturnTo, vars
<1>9. CASE BeginFails
  BY <1>9 DEF BeginFails, ReturnTo, vars
<1>10. CASE JoinReturns
  <2>1. who \in Children /\ joined' = [joined EXCEPT ![who] = code[who]]
    BY <1>10 DEF JoinReturns, ReturnTo, WaitEnds, ExitCode
  <2>2. life[who] = "over" /\ at' = "running" /\ who' = Main
        /\ UNCHANGED <<pc, life, block, code>>
    BY <1>10 DEF JoinReturns, ReturnTo, WaitEnds, vars
  <2>3. LifeTypes' /\ CreateInv' /\ BlockHandover'
    BY <2>1, <2>2
  <2>4. OverInv'
    BY <2>1, <2>2
  <2> QED
    BY <2>3, <2>4
<1>11. ASSUME NEW t \in Threads, UseStorage(t) \/ TssStep(t) PROVE LifeInv'
  <2>1. UNCHANGED tvars /\ pc[t] # "ended" /\ pc'[t] # "invoke"
        /\ \A u \in Threads : u # t => pc'[u] = pc[u]
    BY <1>11 DEF UseStorage, TssStep, TssCreate, TssDelete, TssSet, ScanSlot,
       TableFull, StoreKey, StoreDtor, TssCreateReturn, Goto, StorageTypes, TypeOK
  <2> QED
    BY <2>1 DEF tvars
<1>12. CASE UNCHANGED allvars
  BY <1>12 DEF allvars, tvars, vars
<1> QED
  BY <1>1, <1>2, <1>3, <1>4, <1>5, <1>6, <1>7, <1>8, <1>9, <1>10, <1>11, <1>12
     DEF TNext, ThreadStep, MainStep, Over

(* Storage and threads together keep their invariants. *)
THEOREM ThreadsCorrect == TSpec => [](StorageTypes /\ LifeInv)
<1>1. TSteps => []StorageTypes
  BY StorageTypesInit, StorageTypesNext, StepsOfTss, PTL DEF Spec
<1> QED
  BY <1>1, LifeInitInv, LifeNextInv, StepsOfThreads, PTL DEF TSteps

(***************************************************************************)
(* thrd_create and impl_thrd_routine hand the parameter block over: it is  *)
(* there when it is copied and freed once, by the new thread.              *)
(***************************************************************************)
THEOREM BlockChangesHands == TSpec => []BlockHandover
BY ThreadsCorrect, PTL DEF LifeInv

(***************************************************************************)
(* thrd_join gives the code of a thread that is over and whose destructors *)
(* have run.                                                               *)
(***************************************************************************)
THEOREM JoinIsRight == TSpec => []JoinTellsResult
<1>1. LifeInv => JoinTellsResult
  BY DEF LifeInv, OverInv, JoinTellsResult
<1> QED
  BY <1>1, ThreadsCorrect, PTL

-----------------------------------------------------------------------------
(***************************************************************************)
(* The destructors, for a program that deletes no key with a destructor.   *)
(* Creations are Main's, so at most one is under way.                      *)
(***************************************************************************)
Creating == pc[Main] \in {"scan", "store_key", "store_dtor", "created"}

(***************************************************************************)
(* An index is allocated while its key is in use or being created; the     *)
(* key being created is nobody's yet, and no thread has a value under it.  *)
(***************************************************************************)
KeyInv ==
  /\ \A t \in Children : pc[t] \in {"running", "invoke", "ended"}
  /\ \A k \in Keys : live[k] # NULL <=> (k \in usable \/ (Creating /\ k = key[Main]))
  /\ Creating => key[Main] \notin usable
  /\ Creating => \A t \in Threads : TssGet(t, key[Main]) = NULL
  /\ \A k \in Keys : live[k] <= creates
  /\ \A d \in hasDtor : d <= creates

(* Slot s holds the destructor of the creation that key k belongs to. *)
SlotOf(s, k) == tbl[s].key = k /\ tbl[s].dtor = live[k]

(***************************************************************************)
(* A slot with a destructor belongs to a key that still has the creation   *)
(* the destructor was given to, or to a creation that got no index; no two *)
(* slots have the same destructor; every key in use that was given a       *)
(* destructor has its slot.                                                *)
(***************************************************************************)
SlotInv ==
  /\ \A s \in Slots : tbl[s].dtor # NULL =>
       /\ tbl[s].dtor \in hasDtor
       /\ tbl[s].key \in Keys => live[tbl[s].key] = tbl[s].dtor
  /\ \A s, r \in Slots : tbl[s].dtor = tbl[r].dtor /\ tbl[s].dtor # NULL => s = r
  /\ \A k \in Registered : \E s \in Slots : SlotOf(s, k)

(* How far Main is in registering a destructor. *)
RegisterInv ==
  /\ pc[Main] \in {"scan", "store_key", "store_dtor"} =>
       /\ dtor[Main] \in hasDtor
       /\ \A s \in Slots : tbl[s].dtor # dtor[Main]
       /\ key[Main] \in Keys => live[key[Main]] = dtor[Main]
  /\ pc[Main] \in {"store_key", "store_dtor"} => tbl[i[Main]].dtor = NULL
  /\ pc[Main] = "store_dtor" => tbl[i[Main]].key = key[Main]
  /\ pc[Main] = "created" /\ key[Main] \in Keys /\ live[key[Main]] \in hasDtor =>
       \E s \in Slots : SlotOf(s, key[Main])

(* The walk of thread t makes a call at slot s, and which one. *)
Owed(t, s)   == tbl[s].dtor # NULL /\ TssGet(t, tbl[s].key) # NULL
CallAt(t, s) == <<tbl[s].dtor, TssGet(t, tbl[s].key)>>

(* The calls of a walk so far are those of the slots passed, each once. *)
WalkOK(t) ==
  /\ pc[t] \notin {"invoke", "ended"} => calls[t] = <<>>
  /\ pc[t] = "ended" => i[t] = SlotNum
  /\ pc[t] \in {"invoke", "ended"} =>
       /\ \A s \in Slots : s < i[t] /\ Owed(t, s) =>
            \E j \in 1..Len(calls[t]) : calls[t][j] = CallAt(t, s)
       /\ \A j \in 1..Len(calls[t]) :
            \E s \in Slots : s < i[t] /\ Owed(t, s) /\ calls[t][j] = CallAt(t, s)
       /\ \A j, l \in 1..Len(calls[t]) : calls[t][j] = calls[t][l] => j = l

WalkInv == \A t \in Threads : WalkOK(t)

DtorInv == KeyInv /\ SlotInv /\ RegisterInv /\ WalkInv

LEMMA DtorInitInv == Init => DtorInv
<1> SUFFICES ASSUME Init PROVE DtorInv
  OBVIOUS
<1>1. KeyInv
  BY ThrdAssumption, TssAssumption DEF Init, KeyInv, Creating, NULL, Children
<1>2. SlotInv /\ RegisterInv
  BY ThrdAssumption, TssAssumption DEF Init, SlotInv, RegisterInv, Registered
<1>3. WalkInv
  BY DEF Init, WalkInv, WalkOK
<1> QED
  BY <1>1, <1>2, <1>3 DEF DtorInv

(* 0xFFFFFFFF is no index. *)
LEMMA InvalidIsNoKey == Invalid \notin Keys
BY TssAssumption DEF Invalid, Keys

(* Only Main is ever inside tss_create. *)
LEMMA CreatorIsMain ==
  ASSUME KeyInv, NEW t \in Threads,
         pc[t] \in {"scan", "store_key", "store_dtor", "created"}
  PROVE  t = Main
BY DEF KeyInv, Children

(* A walk goes on as before when the slots mean the same to its thread. *)
LEMMA WalkKept ==
  ASSUME WalkInv, calls' = calls,
         \A t \in Threads :
           \/ /\ pc[t] \notin {"invoke", "ended"} /\ pc'[t] \notin {"invoke", "ended"}
           \/ /\ pc'[t] = pc[t] /\ i'[t] = i[t]
              /\ \A s \in Slots :
                   /\ Owed(t, s)' <=> Owed(t, s)
                   /\ Owed(t, s) => CallAt(t, s)' = CallAt(t, s)
  PROVE  WalkInv'
<1> SUFFICES ASSUME NEW t \in Threads PROVE WalkOK(t)'
  BY DEF WalkInv
<1>1. CASE pc[t] \notin {"invoke", "ended"} /\ pc'[t] \notin {"invoke", "ended"}
  BY <1>1 DEF WalkInv, WalkOK
<1>2. CASE /\ pc'[t] = pc[t] /\ i'[t] = i[t]
           /\ \A s \in Slots :
                /\ Owed(t, s)' <=> Owed(t, s)
                /\ Owed(t, s) => CallAt(t, s)' = CallAt(t, s)
  BY <1>2 DEF WalkInv, WalkOK
<1> QED
  BY <1>1, <1>2

(* tss_create begins: a new index has no values and no slots. *)
LEMMA CreateKeeps ==
  ASSUME StorageTypes, DtorInv, NEW k \in Keys \union {Invalid}, NEW b \in BOOLEAN,
         TssCreate(Main, k, b)
  PROVE  DtorInv'
<1> USE ThrdAssumption, TssAssumption, InvalidIsNoKey DEF DtorInv
<1>1. /\ pc[Main] = "running" /\ pc' = [pc EXCEPT ![Main] = IF b THEN "scan" ELSE "created"]
      /\ creates' = creates + 1
      /\ hasDtor' = IF b THEN hasDtor \union {creates + 1} ELSE hasDtor
      /\ UNCHANGED <<tbl, usable, calls>>
  BY DEF TssCreate, Goto
<1>2. /\ key'[Main] = k
      /\ dtor'[Main] = IF b THEN creates + 1 ELSE NULL
      /\ \A t \in Threads : t # Main => pc'[t] = pc[t] /\ i'[t] = i[t]
      /\ pc'[Main] = IF b THEN "scan" ELSE "created"
  BY <1>1 DEF TssCreate, StorageTypes, TypeOK
<1>3. /\ creates \in Nat /\ ~ Creating /\ Creating'
      /\ \A j \in Keys : live[j] \in Nat /\ live[j] <= creates
      /\ \A d \in hasDtor : d \in Nat /\ d <= creates
      /\ \A s \in Slots : tbl[s].dtor \in Nat
  BY <1>1, <1>2 DEF Creating, KeyInv, StorageTypes, TypeOK, Dtors, NULL
<1>4. \A j \in Keys : j # k => live'[j] = live[j]
  BY DEF TssCreate, TlsAlloc, StorageTypes, TypeOK
<1>5. k \in Keys => live[k] = NULL /\ live'[k] = creates + 1
  BY DEF TssCreate, TlsAlloc, StorageTypes, TypeOK
<1>6. \A t \in Threads : \A j \in Keys :
        tls'[t][j] = IF j = k THEN NULL ELSE tls[t][j]
  BY DEF TssCreate, TlsAlloc, StorageTypes, TypeOK
<1>7. \A s \in Slots : tbl[s].dtor # NULL => tbl[s].key # k \/ k = Invalid
  BY <1>5 DEF SlotInv
<1>8. KeyInv'
  <2>1. \A j \in Keys : live'[j] # NULL <=> (j \in usable \/ j = k)
    BY <1>3, <1>4, <1>5 DEF KeyInv, NULL
  <2>2. k \notin usable
    BY <1>3, <1>5 DEF KeyInv, StorageTypes, TypeOK
  <2>3. \A t \in Threads : TssGet(t, k)' = NULL
    BY <1>6 DEF TssGet
  <2>4. /\ \A j \in Keys : live'[j] <= creates'
        /\ \A d \in hasDtor' : d <= creates'
    BY <1>1, <1>3, <1>4, <1>5
  <2> QED
    BY <1>1, <1>2, <1>3, <2>1, <2>2, <2>3, <2>4 DEF KeyInv, Children
<1>9. SlotInv'
  <2>1. \A s \in Slots : tbl[s].dtor # NULL =>
          /\ tbl[s].dtor \in hasDtor'
          /\ tbl[s].key \in Keys => live'[tbl[s].key] = tbl[s].dtor
    BY <1>1, <1>4, <1>7 DEF SlotInv
  <2>2. \A j \in Registered' : j \in Registered /\ live'[j] = live[j]
    <3> SUFFICES ASSUME NEW j \in usable, live'[j] \in hasDtor'
                 PROVE  live[j] \in hasDtor /\ live'[j] = live[j]
      BY <1>1 DEF Registered
    <3>1. j \in Keys /\ live[j] # NULL
      BY <1>3 DEF KeyInv, StorageTypes, TypeOK
    <3>2. live'[j] = live[j] /\ live[j] # creates + 1
      BY <1>3, <1>4, <1>5, <3>1
    <3> QED
      BY <1>1, <3>2
  <2> QED
    BY <1>1, <2>1, <2>2 DEF SlotInv, SlotOf
<1>10. RegisterInv'
  <2>1. \A s \in Slots : tbl[s].dtor # creates + 1
    BY <1>3 DEF SlotInv, NULL
  <2>2. ~ b /\ k \in Keys => live'[k] \notin hasDtor'
    BY <1>1, <1>3, <1>5
  <2> QED
    BY <1>1, <1>2, <1>5, <2>1, <2>2 DEF RegisterInv
<1>11. WalkInv'
  <2>1. ASSUME NEW t \in Threads, NEW s \in Slots
        PROVE  /\ Owed(t, s)' <=> Owed(t, s)
               /\ Owed(t, s) => CallAt(t, s)' = CallAt(t, s)
    BY <1>1, <1>6, <1>7 DEF Owed, CallAt, TssGet
  <2>2. ASSUME NEW t \in Threads
        PROVE  \/ pc[t] \notin {"invoke", "ended"} /\ pc'[t] \notin {"invoke", "ended"}
               \/ pc'[t] = pc[t] /\ i'[t] = i[t]
    BY <1>1, <1>2
  <2> QED
    BY <1>1, <2>1, <2>2, WalkKept
<1> QED
  BY <1>8, <1>9, <1>10, <1>11

(* The search for a slot touches nothing but the searcher's index. *)
LEMMA ScanKeeps ==
  ASSUME StorageTypes, DtorInv, ScanSlot(Main)
  PROVE  DtorInv'
<1> USE ThrdAssumption DEF DtorInv
<1>1. /\ pc[Main] = "scan"
      /\ \/ pc' = [pc EXCEPT ![Main] = "store_key"] /\ tbl[i[Main]].dtor = NULL /\ i' = i
         \/ pc' = [pc EXCEPT ![Main] = "scan"] /\ i' = [i EXCEPT ![Main] = @ + 1]
      /\ UNCHANGED <<tbl, live, usable, tls, creates, hasDtor, key, dtor, calls>>
  BY DEF ScanSlot, Goto, sys
<1>2. /\ \A t \in Threads : t # Main => pc'[t] = pc[t] /\ i'[t] = i[t]
      /\ pc'[Main] \in {"scan", "store_key"}
      /\ pc'[Main] = "store_key" => tbl[i'[Main]].dtor = NULL
  BY <1>1 DEF StorageTypes, TypeOK
<1>3. Creating /\ Creating'
  BY <1>1, <1>2 DEF Creating
<1>4. KeyInv' /\ SlotInv' /\ RegisterInv'
  BY <1>1, <1>2, <1>3 DEF KeyInv, SlotInv, RegisterInv, TssGet, Registered, SlotOf,
     Children
<1>5. WalkInv'
  BY <1>1, <1>2, WalkKept DEF Owed, CallAt, TssGet
<1> QED
  BY <1>4, <1>5

(* No slot is left: the index goes, and with it nothing that is in use. *)
LEMMA FullKeeps ==
  ASSUME StorageTypes, DtorInv, TableFull(Main)
  PROVE  DtorInv'
<1> USE ThrdAssumption DEF DtorInv
<1>1. /\ pc[Main] = "scan" /\ pc' = [pc EXCEPT ![Main] = "running"]
      /\ live' = [k \in Keys |-> IF k = key[Main] THEN NULL ELSE live[k]]
      /\ UNCHANGED <<tbl, usable, tls, creates, hasDtor, key, dtor, i, calls>>
  BY DEF TableFull, Goto
<1>2. /\ \A t \in Threads : t # Main => pc'[t] = pc[t]
      /\ pc'[Main] = "running"
      /\ \A k \in Keys : live'[k] = IF k = key[Main] THEN NULL ELSE live[k]
  BY <1>1 DEF StorageTypes, TypeOK
<1>3. Creating /\ ~ Creating'
  BY <1>1, <1>2 DEF Creating
<1>4. KeyInv'
  <2>1. \A k \in Keys : live[k] \in Nat /\ creates \in Nat
    BY DEF StorageTypes, TypeOK, Dtors, NULL
  <2> QED
    BY <1>1, <1>2, <1>3, <2>1 DEF KeyInv, Children, NULL
<1>5. SlotInv'
  <2>1. \A s \in Slots : tbl[s].dtor # NULL /\ tbl[s].key \in Keys
                           => tbl[s].key # key[Main]
    BY <1>1 DEF SlotInv, RegisterInv
  <2>2. \A k \in usable : k \in Keys /\ live'[k] = live[k]
    BY <1>2, <1>3 DEF KeyInv, StorageTypes, TypeOK
  <2>3. \A k \in Registered' : k \in Registered
    BY <1>1, <2>2 DEF Registered
  <2>4. \A k \in Registered' : \E s \in Slots : SlotOf(s, k)'
    BY <1>1, <2>2, <2>3 DEF SlotInv, SlotOf, Registered
  <2> QED
    BY <1>1, <1>2, <2>1, <2>4 DEF SlotInv
<1>6. RegisterInv'
  BY <1>2 DEF RegisterInv
<1>7. WalkInv'
  BY <1>1, <1>2, WalkKept DEF Owed, CallAt, TssGet
<1> QED
  BY <1>4, <1>5, <1>6, <1>7

(* The key is stored into a slot that has no destructor yet. *)
LEMMA StoreKeyKeeps ==
  ASSUME StorageTypes, DtorInv, StoreKey(Main)
  PROVE  DtorInv'
<1> USE ThrdAssumption DEF DtorInv
<1> DEFINE n == i[Main]
<1>1. /\ pc[Main] = "store_key" /\ pc' = [pc EXCEPT ![Main] = "store_dtor"]
      /\ tbl' = [tbl EXCEPT ![n].key = key[Main]]
      /\ UNCHANGED <<live, usable, tls, creates, hasDtor, key, dtor, i, calls>>
  BY DEF StoreKey, Goto, sys
<1>2. n \in Slots
  BY <1>1, TssAssumption DEF StorageTypes, TypeOK, Slots
<1>3. /\ \A t \in Threads : t # Main => pc'[t] = pc[t]
      /\ pc'[Main] = "store_dtor"
      /\ \A s \in Slots : tbl'[s].dtor = tbl[s].dtor /\ (s # n => tbl'[s] = tbl[s])
      /\ tbl'[n].key = key[Main] /\ tbl[n].dtor = NULL
  BY <1>1, <1>2 DEF StorageTypes, TypeOK, RegisterInv
<1> HIDE DEF n
<1>4. Creating /\ Creating'
  BY <1>1, <1>3 DEF Creating
<1>5. KeyInv'
  BY <1>1, <1>3, <1>4 DEF KeyInv, TssGet, Children
<1>6. SlotInv'
  <2>1. \A k \in Registered : live[k] # NULL
    BY DEF Registered, KeyInv, StorageTypes, TypeOK
  <2>2. \A k \in Registered : \E s \in Slots : SlotOf(s, k)'
    BY <1>1, <1>3, <2>1 DEF SlotInv, SlotOf
  <2>3. Registered' = Registered
    BY <1>1 DEF Registered
  <2> QED
    BY <1>1, <1>3, <2>2, <2>3 DEF SlotInv
<1>7. RegisterInv'
  BY <1>1, <1>3 DEF RegisterInv, n
<1>8. WalkInv'
  <2>1. ASSUME NEW t \in Threads, NEW s \in Slots
        PROVE  /\ Owed(t, s)' <=> Owed(t, s)
               /\ Owed(t, s) => CallAt(t, s)' = CallAt(t, s)
    BY <1>1, <1>3 DEF Owed, CallAt, TssGet
  <2> QED
    BY <1>1, <1>3, <2>1, WalkKept
<1> QED
  BY <1>5, <1>6, <1>7, <1>8

(* The destructor is stored: no thread has a value under its key yet. *)
LEMMA StoreDtorKeeps ==
  ASSUME StorageTypes, DtorInv, StoreDtor(Main)
  PROVE  DtorInv'
<1> USE ThrdAssumption DEF DtorInv
<1> DEFINE n == i[Main]
<1>1. /\ pc[Main] = "store_dtor" /\ pc' = [pc EXCEPT ![Main] = "created"]
      /\ tbl' = [tbl EXCEPT ![n].dtor = dtor[Main]]
      /\ UNCHANGED <<live, usable, tls, creates, hasDtor, key, dtor, i, calls>>
  BY DEF StoreDtor, Goto, sys
<1>2. n \in Slots
  BY <1>1, TssAssumption DEF StorageTypes, TypeOK, Slots
<1>3. /\ \A t \in Threads : t # Main => pc'[t] = pc[t]
      /\ pc'[Main] = "created"
      /\ \A s \in Slots : tbl'[s].key = tbl[s].key /\ (s # n => tbl'[s] = tbl[s])
      /\ tbl'[n].key = key[Main] /\ tbl'[n].dtor = dtor[Main] /\ tbl[n].dtor = NULL
  BY <1>1, <1>2 DEF StorageTypes, TypeOK, RegisterInv
<1>4. /\ dtor[Main] \in hasDtor /\ \A s \in Slots : tbl[s].dtor # dtor[Main]
      /\ key[Main] \in Keys => live[key[Main]] = dtor[Main]
  BY <1>1 DEF RegisterInv
<1> HIDE DEF n
<1>5. Creating /\ Creating'
  BY <1>1, <1>3 DEF Creating
<1>6. KeyInv'
  BY <1>1, <1>3, <1>5 DEF KeyInv, TssGet, Children
<1>7. SlotInv'
  <2>1. \A k \in Registered : live[k] # NULL
    BY DEF Registered, KeyInv, StorageTypes, TypeOK
  <2>2. \A k \in Registered : \E s \in Slots : SlotOf(s, k)'
    BY <1>1, <1>3, <2>1 DEF SlotInv, SlotOf
  <2>3. Registered' = Registered
    BY <1>1 DEF Registered
  <2>4. \A s \in Slots : tbl'[s].dtor # NULL =>
          /\ tbl'[s].dtor \in hasDtor
          /\ tbl'[s].key \in Keys => live[tbl'[s].key] = tbl'[s].dtor
    BY <1>3, <1>4 DEF SlotInv
  <2>5. \A s, r \in Slots : tbl'[s].dtor = tbl'[r].dtor /\ tbl'[s].dtor # NULL => s = r
    BY <1>3, <1>4 DEF SlotInv
  <2> QED
    BY <1>1, <2>2, <2>3, <2>4, <2>5 DEF SlotInv
<1>8. RegisterInv'
  BY <1>1, <1>2, <1>3, <1>4 DEF RegisterInv, SlotOf
<1>9. WalkInv'
  <2>1. ASSUME NEW t \in Threads, NEW s \in Slots
        PROVE  /\ Owed(t, s)' <=> Owed(t, s)
               /\ Owed(t, s) => CallAt(t, s)' = CallAt(t, s)
    BY <1>1, <1>3, <1>5 DEF Owed, CallAt, TssGet, KeyInv
  <2> QED
    BY <1>1, <1>3, <2>1, WalkKept
<1> QED
  BY <1>6, <1>7, <1>8, <1>9

(* tss_create returns: the key is in use, with its slot if it needs one. *)
LEMMA CreateReturnKeeps ==
  ASSUME StorageTypes, DtorInv, TssCreateReturn(Main)
  PROVE  DtorInv'
<1> USE ThrdAssumption, InvalidIsNoKey DEF DtorInv
<1>1. /\ pc[Main] = "created" /\ pc' = [pc EXCEPT ![Main] = "running"]
      /\ usable' = IF key[Main] # Invalid THEN usable \union {key[Main]} ELSE usable
      /\ UNCHANGED <<tbl, live, tls, creates, hasDtor, key, dtor, i, calls>>
  BY DEF TssCreateReturn, Goto
<1>2. /\ \A t \in Threads : t # Main => pc'[t] = pc[t]
      /\ pc'[Main] = "running" /\ key[Main] \in Keys \union {Invalid}
  BY <1>1 DEF StorageTypes, TypeOK
<1>3. Creating /\ ~ Creating'
  BY <1>1, <1>2 DEF Creating
<1>4. KeyInv'
  BY <1>1, <1>2, <1>3 DEF KeyInv, Children
<1>5. SlotInv'
  <2>1. \A k \in Registered' : k \in Registered \/
          (k = key[Main] /\ key[Main] \in Keys /\ live[k] \in hasDtor)
    BY <1>1, <1>2 DEF Registered
  <2>2. \A k \in Registered' : \E s \in Slots : SlotOf(s, k)'
    BY <1>1, <2>1 DEF SlotInv, RegisterInv, SlotOf
  <2> QED
    BY <1>1, <2>2 DEF SlotInv
<1>6. RegisterInv'
  BY <1>2 DEF RegisterInv
<1>7. WalkInv'
  BY <1>1, <1>2, WalkKept DEF Owed, CallAt, TssGet
<1> QED
  BY <1>4, <1>5, <1>6, <1>7

(***************************************************************************)
(* tss_delete frees an index that no slot with a destructor belongs to.    *)
(***************************************************************************)
LEMMA DeleteKeeps ==
  ASSUME StorageTypes, DtorInv, ~ DeleteAny, NEW k \in Keys, TssDelete(Main, k)
  PROVE  DtorInv'
<1> USE ThrdAssumption DEF DtorInv
<1>1. /\ pc[Main] = "running" /\ k \in usable /\ live[k] \notin hasDtor
      /\ live' = [live EXCEPT ![k] = NULL] /\ usable' = usable \ {k}
      /\ UNCHANGED <<tbl, tls, creates, hasDtor, pc, key, dtor, i, calls>>
  BY DEF TssDelete
<1>2. ~ Creating /\ ~ Creating'
  BY <1>1 DEF Creating
<1>3. live'[k] = NULL /\ \A j \in Keys : j # k => live'[j] = live[j]
  BY <1>1 DEF StorageTypes, TypeOK
<1>4. KeyInv'
  <2>1. creates \in Nat
    BY DEF StorageTypes, TypeOK
  <2> QED
    BY <1>1, <1>2, <1>3, <2>1 DEF KeyInv, Children, NULL
<1>5. SlotInv'
  <2>1. \A s \in Slots : tbl[s].dtor # NULL => tbl[s].key # k
    BY <1>1 DEF SlotInv
  <2>2. \A j \in Registered' : j \in Registered /\ j # k /\ j \in Keys
    BY <1>1, <1>3 DEF Registered, StorageTypes, TypeOK
  <2>3. \A j \in Registered' : \E s \in Slots : SlotOf(s, j)'
    BY <1>1, <1>3, <2>2 DEF SlotInv, SlotOf
  <2> QED
    BY <1>1, <1>3, <2>1, <2>3 DEF SlotInv
<1>6. RegisterInv'
  BY <1>1 DEF RegisterInv
<1>7. WalkInv'
  BY <1>1, WalkKept DEF Owed, CallAt, TssGet
<1> QED
  BY <1>4, <1>5, <1>6, <1>7

(* tss_set happens before the thread's walk, under a key in use. *)
LEMMA SetKeeps ==
  ASSUME StorageTypes, DtorInv, NEW t \in Threads, NEW k \in Keys, NEW v,
         TssSet(t, k, v)
  PROVE  DtorInv'
<1> USE ThrdAssumption DEF DtorInv
<1>1. /\ pc[t] = "running" /\ k \in usable
      /\ tls' = [tls EXCEPT ![t][k] = v]
      /\ UNCHANGED <<tbl, live, usable, creates, hasDtor, pc, key, dtor, i, calls>>
  BY DEF TssSet
<1>2. /\ \A u \in Threads : u # t => tls'[u] = tls[u]
      /\ \A j \in Keys : j # k => tls'[t][j] = tls[t][j]
  BY <1>1 DEF StorageTypes, TypeOK
<1>3. Creating' = Creating
  BY <1>1 DEF Creating
<1>4. KeyInv'
  <2>1. Creating => \A u \in Threads : TssGet(u, key[Main])' = NULL
    BY <1>1, <1>2 DEF KeyInv, TssGet
  <2> QED
    BY <1>1, <1>3, <2>1 DEF KeyInv
<1>5. SlotInv' /\ RegisterInv'
  BY <1>1 DEF SlotInv, RegisterInv, SlotOf, Registered
<1>6. WalkInv'
  <2>1. ASSUME NEW u \in Threads, u # t, NEW s \in Slots
        PROVE  /\ Owed(u, s)' <=> Owed(u, s)
               /\ Owed(u, s) => CallAt(u, s)' = CallAt(u, s)
    BY <1>1, <1>2, <2>1 DEF Owed, CallAt, TssGet
  <2> QED
    BY <1>1, <2>1, WalkKept
<1> QED
  BY <1>4, <1>5, <1>6

(* A thread that ends begins its walk at the first slot, without calls. *)
LEMMA ExitKeeps ==
  ASSUME StorageTypes, DtorInv, NEW t \in Threads, ThrdExit(t)
  PROVE  DtorInv'
<1> USE ThrdAssumption DEF DtorInv
<1>1. /\ pc[t] = "running" /\ pc' = [pc EXCEPT ![t] = "invoke"]
      /\ i' = [i EXCEPT ![t] = 0]
      /\ UNCHANGED <<tbl, live, usable, tls, creates, hasDtor, key, dtor, calls>>
  BY DEF ThrdExit, Goto, sys
<1>2. /\ \A u \in Threads : u # t => pc'[u] = pc[u] /\ i'[u] = i[u]
      /\ pc'[t] = "invoke" /\ i'[t] = 0
  BY <1>1 DEF StorageTypes, TypeOK
<1>3. Creating' = Creating /\ (Creating => t # Main)
  BY <1>1, <1>2 DEF Creating
<1>4. KeyInv' /\ SlotInv'
  BY <1>1, <1>2, <1>3 DEF KeyInv, SlotInv, SlotOf, Registered, TssGet, Children
<1>5. RegisterInv'
  BY <1>1, <1>2 DEF RegisterInv, SlotOf
<1>6. WalkInv'
  <2>1. calls[t] = <<>> /\ Len(calls[t]) = 0
    BY <1>1 DEF WalkInv, WalkOK
  <2>2. \A s \in Slots : ~ (s < 0)
    BY TssAssumption DEF Slots
  <2>3. \A u \in Threads, s \in Slots : /\ Owed(u, s)' = Owed(u, s)
                                        /\ CallAt(u, s)' = CallAt(u, s)
    BY <1>1 DEF Owed, CallAt, TssGet
  <2> SUFFICES ASSUME NEW u \in Threads PROVE WalkOK(u)'
    BY DEF WalkInv
  <2>4. CASE u = t
    BY <1>1, <1>2, <2>1, <2>2, <2>4 DEF WalkOK
  <2>5. CASE u # t
    BY <1>1, <1>2, <2>3, <2>5 DEF WalkInv, WalkOK
  <2> QED
    BY <2>4, <2>5
<1> QED
  BY <1>4, <1>5, <1>6

(* The walk of a thread that goes on with the calls d and the index k. *)
LEMMA WalkGoesOn ==
  ASSUME NEW t \in Threads, NEW d, NEW k,
         pc'[t] = "invoke", calls'[t] = d, i'[t] = k,
         \A s \in Slots : /\ Owed(t, s)' = Owed(t, s)
                          /\ CallAt(t, s)' = CallAt(t, s),
         \A s \in Slots : s < k /\ Owed(t, s) =>
           \E j \in 1..Len(d) : d[j] = CallAt(t, s),
         \A j \in 1..Len(d) :
           \E s \in Slots : s < k /\ Owed(t, s) /\ d[j] = CallAt(t, s),
         \A j, l \in 1..Len(d) : d[j] = d[l] => j = l
  PROVE  WalkOK(t)'
<1>1. (\A s \in Slots : s < i[t] /\ Owed(t, s) =>
         \E j \in 1..Len(calls[t]) : calls[t][j] = CallAt(t, s))'
  OBVIOUS
<1>2. (\A j \in 1..Len(calls[t]) :
         \E s \in Slots : s < i[t] /\ Owed(t, s) /\ calls[t][j] = CallAt(t, s))'
  OBVIOUS
<1>3. (\A j, l \in 1..Len(calls[t]) : calls[t][j] = calls[t][l] => j = l)'
  OBVIOUS
<1> QED
  BY <1>1, <1>2, <1>3 DEF WalkOK

(***************************************************************************)
(* One round of the walk: a call that is made is that of the slot passed,  *)
(* and differs from the ones before, whose destructors are others.         *)
(***************************************************************************)
LEMMA InvokeKeeps ==
  ASSUME StorageTypes, DtorInv, NEW t \in Threads, Invoke(t)
  PROVE  DtorInv'
<1> USE ThrdAssumption DEF DtorInv
<1> DEFINE m == i[t]
<1> DEFINE c == calls[t]
<1>1. /\ pc[t] = "invoke" /\ pc' = pc /\ m < SlotNum
      /\ i' = [i EXCEPT ![t] = @ + 1]
      /\ calls' = IF Owed(t, m) THEN [calls EXCEPT ![t] = Append(c, CallAt(t, m))]
                                ELSE calls
      /\ UNCHANGED <<tbl, live, usable, tls, creates, hasDtor, key, dtor>>
  BY DEF Invoke, Goto, sys, Owed, CallAt, StorageTypes, TypeOK
<1>2. /\ \A u \in Threads : u # t => calls'[u] = calls[u] /\ i'[u] = i[u]
      /\ i'[t] = m + 1
      /\ calls'[t] = IF Owed(t, m) THEN Append(c, CallAt(t, m)) ELSE c
  BY <1>1 DEF StorageTypes, TypeOK
<1>3. Creating' = Creating /\ (Creating => t # Main)
  BY <1>1 DEF Creating
<1>4. KeyInv' /\ SlotInv'
  BY <1>1, <1>3 DEF KeyInv, SlotInv, SlotOf, Registered, TssGet
<1>5. RegisterInv'
  BY <1>1, <1>2 DEF RegisterInv, SlotOf
<1>6. \A u \in Threads, s \in Slots : /\ Owed(u, s)' = Owed(u, s)
                                      /\ CallAt(u, s)' = CallAt(u, s)
  BY <1>1 DEF Owed, CallAt, TssGet
<1>7. ASSUME NEW u \in Threads, u # t PROVE WalkOK(u)'
  BY <1>1, <1>2, <1>6, <1>7 DEF WalkInv, WalkOK
<1>8. WalkOK(t)'
  <2>1. /\ m \in Slots /\ m \in Nat /\ c \in Seq(Dtors \X (Dtors \union {NULL}))
        /\ \A s \in Slots : s \in Nat /\ (s < m + 1 <=> s < m \/ s = m)
    BY <1>1, TssAssumption DEF StorageTypes, TypeOK, Slots
  <2>2. /\ \A s \in Slots : s < m /\ Owed(t, s) =>
             \E j \in 1..Len(c) : c[j] = CallAt(t, s)
        /\ \A j \in 1..Len(c) :
             \E s \in Slots : s < m /\ Owed(t, s) /\ c[j] = CallAt(t, s)
        /\ \A j, l \in 1..Len(c) : c[j] = c[l] => j = l
    BY <1>1 DEF WalkInv, WalkOK
  <2> HIDE DEF c, m
  <2>3. CASE ~ Owed(t, m)
    <3>1. calls'[t] = c /\ i'[t] = m + 1 /\ pc'[t] = "invoke"
      BY <1>1, <1>2, <2>3
    <3>2. \A s \in Slots : s < m + 1 /\ Owed(t, s) =>
            \E j \in 1..Len(c) : c[j] = CallAt(t, s)
      BY <2>1, <2>2, <2>3
    <3>3. \A j \in 1..Len(c) :
            \E s \in Slots : s < m + 1 /\ Owed(t, s) /\ c[j] = CallAt(t, s)
      BY <2>1, <2>2
    <3>4. \A j, l \in 1..Len(c) : c[j] = c[l] => j = l
      BY <2>2
    <3> QED
      BY <1>6, <3>1, <3>2, <3>3, <3>4, WalkGoesOn
  <2>4. CASE Owed(t, m)
    <3> DEFINE d == calls'[t]
    <3> DEFINE e == CallAt(t, m)
    <3>1. d = Append(c, e)
      BY <1>2, <2>4
    <3>2. /\ Len(d) = Len(c) + 1 /\ Len(c) \in Nat /\ d[Len(c) + 1] = e
          /\ \A j \in 1..Len(c) : d[j] = c[j]
      BY <2>1, <3>1
    <3>3. \A j \in 1..Len(c) : c[j] # e
      <4>1. ASSUME NEW s \in Slots, s < m, Owed(t, s) PROVE CallAt(t, s) # e
        <5>1. s # m
          BY <2>1, <4>1
        <5>2. tbl[s].dtor # tbl[m].dtor
          BY <2>1, <4>1, <5>1 DEF SlotInv, Owed
        <5> QED
          BY <5>2 DEF CallAt
      <4> QED
        BY <2>2, <4>1
    <3> HIDE DEF d, e
    <3>4. \A s \in Slots : s < m + 1 /\ Owed(t, s) =>
            \E j \in 1..Len(d) : d[j] = CallAt(t, s)
      <4> SUFFICES ASSUME NEW s \in Slots, s < m + 1, Owed(t, s)
                   PROVE  \E j \in 1..Len(d) : d[j] = CallAt(t, s)
        OBVIOUS
      <4>1. CASE s = m
        <5>1. Len(c) + 1 \in 1..Len(d) /\ d[Len(c) + 1] = CallAt(t, s)
          BY <3>2, <4>1 DEF e
        <5> QED
          BY <5>1
      <4>2. CASE s < m
        <5>1. PICK j \in 1..Len(c) : c[j] = CallAt(t, s)
          BY <2>2, <4>2
        <5>2. j \in 1..Len(d) /\ d[j] = CallAt(t, s)
          BY <3>2, <5>1
        <5> QED
          BY <5>2
      <4> QED
        BY <2>1, <4>1, <4>2
    <3>5. \A j \in 1..Len(d) :
            \E s \in Slots : s < m + 1 /\ Owed(t, s) /\ d[j] = CallAt(t, s)
      <4> SUFFICES ASSUME NEW j \in 1..Len(d)
                   PROVE  \E s \in Slots : s < m + 1 /\ Owed(t, s)
                                           /\ d[j] = CallAt(t, s)
        OBVIOUS
      <4>1. CASE j = Len(c) + 1
        <5>1. m \in Slots /\ m < m + 1 /\ d[j] = CallAt(t, m)
          BY <2>1, <3>2, <4>1 DEF e
        <5> QED
          BY <2>4, <5>1
      <4>2. CASE j \in 1..Len(c)
        BY <2>1, <2>2, <3>2, <4>2
      <4> QED
        BY <3>2, <4>1, <4>2
    <3>6. \A j, l \in 1..Len(d) : d[j] = d[l] => j = l
      <4> SUFFICES ASSUME NEW j \in 1..Len(d), NEW l \in 1..Len(d), d[j] = d[l]
                   PROVE  j = l
        OBVIOUS
      <4>1. CASE j \in 1..Len(c) /\ l \in 1..Len(c)
        BY <2>2, <3>2, <4>1
      <4>2. CASE j \in 1..Len(c) /\ l = Len(c) + 1
        BY <3>2, <3>3, <4>2
      <4>3. CASE j = Len(c) + 1 /\ l \in 1..Len(c)
        BY <3>2, <3>3, <4>3
      <4> QED
        BY <3>2, <4>1, <4>2, <4>3
    <3>7. calls'[t] = d /\ i'[t] = m + 1 /\ pc'[t] = "invoke"
      BY <1>1, <1>2 DEF d
    <3> QED
      BY <1>6, <3>4, <3>5, <3>6, <3>7, WalkGoesOn
  <2> QED
    BY <2>3, <2>4
<1>9. WalkInv'
  BY <1>7, <1>8 DEF WalkInv
<1> QED
  BY <1>4, <1>5, <1>9

LEMMA InvokeDoneKeeps ==
  ASSUME StorageTypes, DtorInv, NEW t \in Threads, InvokeDone(t)
  PROVE  DtorInv'
<1> USE ThrdAssumption DEF DtorInv
<1>1. /\ pc[t] = "invoke" /\ pc' = [pc EXCEPT ![t] = "ended"] /\ i[t] = SlotNum
      /\ UNCHANGED <<tbl, live, usable, tls, creates, hasDtor, key, dtor, i, calls>>
  BY DEF InvokeDone, Goto, sys
<1>2. pc'[t] = "ended" /\ \A u \in Threads : u # t => pc'[u] = pc[u]
  BY <1>1 DEF StorageTypes, TypeOK
<1>3. Creating' = Creating /\ (Creating => t # Main)
  BY <1>1, <1>2 DEF Creating
<1>4. KeyInv' /\ SlotInv'
  BY <1>1, <1>2, <1>3 DEF KeyInv, SlotInv, SlotOf, Registered, TssGet, Children
<1>5. RegisterInv'
  BY <1>1, <1>2 DEF RegisterInv, SlotOf
<1>6. \A u \in Threads, s \in Slots : /\ Owed(u, s)' = Owed(u, s)
                                      /\ CallAt(u, s)' = CallAt(u, s)
  BY <1>1 DEF Owed, CallAt, TssGet
<1>7. WalkInv'
  BY <1>1, <1>2, <1>6 DEF WalkInv, WalkOK
<1> QED
  BY <1>4, <1>5, <1>7

LEMMA DtorNextInv ==
  ASSUME ~ DeleteAny, StorageTypes, DtorInv, [Next]_vars
  PROVE  DtorInv'
<1>1. ASSUME NEW t \in Threads, NEW k \in Keys \union {Invalid}, NEW b \in BOOLEAN,
             TssCreate(t, k, b)
      PROVE  DtorInv'
  <2>1. t = Main
    BY <1>1, ThrdAssumption DEF TssCreate
  <2> QED
    BY <1>1, <2>1, CreateKeeps
<1>2. ASSUME NEW t \in Threads,
             \/ ScanSlot(t) \/ TableFull(t) \/ StoreKey(t) \/ StoreDtor(t)
             \/ TssCreateReturn(t)
      PROVE  DtorInv'
  <2>1. pc[t] \in {"scan", "store_key", "store_dtor", "created"}
    BY <1>2 DEF ScanSlot, TableFull, StoreKey, StoreDtor, TssCreateReturn, Goto
  <2>2. t = Main
    BY <2>1, CreatorIsMain DEF DtorInv
  <2> QED
    BY <1>2, <2>2, ScanKeeps, FullKeeps, StoreKeyKeeps, StoreDtorKeeps,
       CreateReturnKeeps
<1>3. ASSUME NEW t \in Threads, NEW k \in Keys, TssDelete(t, k) PROVE DtorInv'
  <2>1. t = Main
    BY <1>3, ThrdAssumption DEF TssDelete
  <2> QED
    BY <1>3, <2>1, DeleteKeeps
<1>4. ASSUME NEW t \in Threads, NEW k \in Keys,
             TssSet(t, k, live[k]) \/ TssSet(t, k, NULL)
      PROVE  DtorInv'
  BY <1>4, SetKeeps
<1>5. ASSUME NEW t \in Threads, ThrdExit(t) \/ Invoke(t) \/ InvokeDone(t)
      PROVE  DtorInv'
  BY <1>5, ExitKeeps, InvokeKeeps, InvokeDoneKeeps
<1>6. CASE UNCHANGED vars
  <2>1. UNCHANGED <<tbl, live, usable, tls, creates, hasDtor, pc, key, dtor, i, calls>>
    BY <1>6 DEF vars
  <2>2. KeyInv' /\ SlotInv' /\ RegisterInv'
    BY <2>1 DEF DtorInv, KeyInv, SlotInv, RegisterInv, Creating, TssGet, Registered,
                SlotOf
  <2>3. WalkInv'
    BY <2>1, WalkKept DEF DtorInv, Owed, CallAt, TssGet
  <2> QED
    BY <2>2, <2>3 DEF DtorInv
<1> QED
  BY <1>1, <1>2, <1>3, <1>4, <1>5, <1>6 DEF Next, Ended

(* The number of different elements of a sequence without repetition. *)
LEMMA LenIsCardinality ==
  ASSUME NEW S, NEW T, NEW c \in Seq(S), T = {c[j] : j \in 1..Len(c)},
         \A j, l \in 1..Len(c) : c[j] = c[l] => j = l
  PROVE  Len(c) = Cardinality(T)
<1> DEFINE f == [j \in 1..Len(c) |-> c[j]]
<1>1. f \in Bijection(1..Len(c), T)
  BY DEF Bijection, Injection, Surjection, IsInjective
<1>2. Len(c) \in Nat
  OBVIOUS
<1>3. IsFiniteSet(1..Len(c)) /\ Cardinality(1..Len(c)) = Len(c)
  <2> DEFINE m == Len(c)
  <2> HIDE DEF m
  <2>1. m \in Nat
    BY <1>2 DEF m
  <2>2. IsFiniteSet(1..m) /\ Cardinality(1..m) = IF 1 > m THEN 0 ELSE m - 1 + 1
    BY <2>1, FS_Interval
  <2>3. Cardinality(1..m) = m
    BY <2>1, <2>2
  <2> QED
    BY <2>2, <2>3 DEF m
<1> HIDE DEF f
<1> QED
  BY <1>1, <1>3, FS_Bijection DEF ExistsBijection

(* The calls due are those of the slots that owe one. *)
LEMMA DueIsOwed ==
  ASSUME StorageTypes, DtorInv, NEW t \in Threads
  PROVE  Due(t) = {CallAt(t, s) : s \in {r \in Slots : Owed(t, r)}}
<1> USE InvalidIsNoKey DEF DtorInv
<1>1. ASSUME NEW k \in Registered, tls[t][k] # NULL
      PROVE  \E s \in Slots : Owed(t, s) /\ CallAt(t, s) = <<live[k], tls[t][k]>>
  <2>1. PICK s \in Slots : SlotOf(s, k)
    BY DEF SlotInv
  <2>2. k \in Keys /\ live[k] # NULL
    BY DEF Registered, KeyInv, StorageTypes, TypeOK
  <2> QED
    BY <1>1, <2>1, <2>2 DEF Owed, CallAt, SlotOf, TssGet
<1>2. ASSUME NEW s \in Slots, Owed(t, s)
      PROVE  \E k \in Registered : /\ tls[t][k] # NULL
                                   /\ CallAt(t, s) = <<live[k], tls[t][k]>>
  <2> DEFINE k == tbl[s].key
  <2>1. k \in Keys /\ tls[t][k] # NULL /\ tbl[s].dtor # NULL
    BY <1>2 DEF Owed, TssGet
  <2>2. live[k] = tbl[s].dtor /\ live[k] \in hasDtor
    BY <2>1 DEF SlotInv
  <2>3. k \in usable
    <3>1. ~ (Creating /\ k = key[Main])
      BY <2>1 DEF KeyInv, TssGet
    <3> QED
      BY <2>1, <2>2, <3>1 DEF KeyInv
  <2>4. k \in Registered /\ CallAt(t, s) = <<live[k], tls[t][k]>>
    BY <2>1, <2>2, <2>3 DEF Registered, CallAt, TssGet
  <2> QED
    BY <2>1, <2>4
<1>3. ASSUME NEW x \in Due(t) PROVE x \in {CallAt(t, s) : s \in {r \in Slots : Owed(t, r)}}
  BY <1>1, <1>3 DEF Due
<1>4. ASSUME NEW x \in {CallAt(t, s) : s \in {r \in Slots : Owed(t, r)}} PROVE x \in Due(t)
  BY <1>2, <1>4 DEF Due
<1> QED
  BY <1>3, <1>4

(***************************************************************************)
(* Every thread that ends calls each destructor it owes exactly once and   *)
(* no other, while Main goes on creating and deleting keys, as long as no  *)
(* key with a destructor is deleted.                                       *)
(***************************************************************************)
THEOREM DestructorsRunOnce == TSpec => [](~ DeleteAny => DtorsRunOnce)
<1>1. StorageTypes /\ DtorInv => DtorsRunOnce
  <2> SUFFICES ASSUME StorageTypes, DtorInv, NEW t \in Threads, pc[t] = "ended"
               PROVE  /\ {calls[t][j] : j \in 1..Len(calls[t])} = Due(t)
                      /\ Len(calls[t]) = Cardinality(Due(t))
    BY DEF DtorsRunOnce
  <2>1. WalkOK(t) /\ i[t] = SlotNum
    BY DEF DtorInv, WalkInv, WalkOK
  <2>2. \A s \in Slots : s < i[t]
    BY <2>1, TssAssumption DEF Slots
  <2>3. {calls[t][j] : j \in 1..Len(calls[t])}
          = {CallAt(t, s) : s \in {r \in Slots : Owed(t, r)}}
    BY <2>1, <2>2 DEF WalkOK
  <2>4. {calls[t][j] : j \in 1..Len(calls[t])} = Due(t)
    BY <2>3, DueIsOwed
  <2>5. calls[t] \in Seq(Dtors \X (Dtors \union {NULL}))
    BY DEF StorageTypes, TypeOK
  <2>6. \A j, l \in 1..Len(calls[t]) : calls[t][j] = calls[t][l] => j = l
    BY <2>1 DEF WalkOK
  <2> QED
    BY <2>4, <2>5, <2>6, LenIsCardinality
<1>2. Init => (~ DeleteAny => DtorInv)
  BY DtorInitInv
<1>3. StorageTypes /\ (~ DeleteAny => DtorInv) /\ [Next]_vars
        => (~ DeleteAny => DtorInv)'
  BY DtorNextInv
<1>4. Spec => [](StorageTypes /\ (~ DeleteAny => DtorInv))
  BY <1>2, <1>3, StorageTypesInit, StorageTypesNext, PTL DEF Spec
<1>5. StorageTypes /\ (~ DeleteAny => DtorInv) => (~ DeleteAny => DtorsRunOnce)
  BY <1>1
<1> QED
  BY <1>4, <1>5, StepsOfTss, StepsOfThreads, PTL
=============================================================================
