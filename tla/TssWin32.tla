------------------------------ MODULE TssWin32 ------------------------------
(***************************************************************************)
(* Thread-specific storage of src/include/compat-threads/threads_win32.h:  *)
(* keys are the system's TLS indexes, and the destructors are kept in one  *)
(* table of slots for the whole process, which tss_create fills without a  *)
(* lock, tss_delete never empties and every ending thread walks through.   *)
(*                                                                         *)
(* A destructor is known by the number of the tss_create call it was given *)
(* to, and a value by the key's creation it was stored under.              *)
(***************************************************************************)
EXTENDS Integers, Sequences, FiniteSets

CONSTANTS
  Threads,
  Creators,    \* the threads that call tss_create and tss_delete
  SlotNum,     \* EMULATED_THREADS_TSS_DTOR_SLOTNUM
  NumKeys,     \* how many TLS indexes the system has, at least one
  MaxCreates,  \* bound on the calls of tss_create
  DeleteAny    \* tss_delete is also called for keys that have a destructor

ASSUME TssAssumption ==
  /\ Creators \subseteq Threads
  /\ SlotNum \in Nat /\ NumKeys \in Nat \ {0} /\ MaxCreates \in Nat
  /\ DeleteAny \in BOOLEAN

Slots   == 0..(SlotNum - 1)
Keys    == 0..(NumKeys - 1)
Invalid == -1   \* 0xFFFFFFFF
NULL    == 0
Dtors   == 1..MaxCreates

VARIABLES
  tbl,      \* impl_tss_dtor_tbl
  live,     \* per TLS index: the creation it is allocated to, or NULL
  usable,   \* the keys whose tss_create has returned success
  tls,      \* per thread and index: the value
  creates,  \* how many calls of tss_create have been made
  hasDtor,  \* the creations that were given a destructor
  pc, key, dtor, i,  \* per thread: where it is, and its locals
  calls     \* history: the destructor calls of the thread, with their values

vars == <<tbl, live, usable, tls, creates, hasDtor, pc, key, dtor, i, calls>>
sys  == <<live, usable, tls, creates, hasDtor>>

Init ==
  /\ tbl = [s \in Slots |-> [key |-> 0, dtor |-> NULL]]
  /\ live = [k \in Keys |-> NULL] /\ usable = {}
  /\ tls = [t \in Threads |-> [k \in Keys |-> NULL]]
  /\ creates = 0 /\ hasDtor = {}
  /\ pc = [t \in Threads |-> "running"]
  /\ key = [t \in Threads |-> Invalid]
  /\ dtor = [t \in Threads |-> NULL]
  /\ i = [t \in Threads |-> 0]
  /\ calls = [t \in Threads |-> <<>>]

Goto(t, from, to) == pc[t] = from /\ pc' = [pc EXCEPT ![t] = to]

-----------------------------------------------------------------------------
(* TlsAlloc hands out a free index, zeroed in every thread, or none. *)
TlsAlloc(k) ==
  \/ /\ k \in Keys
     /\ live[k] = NULL
     /\ live' = [live EXCEPT ![k] = creates + 1]
     /\ tls' = [t \in Threads |-> [tls[t] EXCEPT ![k] = NULL]]
  \/ /\ k = Invalid
     /\ \A j \in Keys : live[j] # NULL
     /\ UNCHANGED <<live, tls>>

(* tss_create: the index is allocated, then the destructor registered. *)
TssCreate(t, k, withDtor) ==
  /\ t \in Creators
  /\ creates < MaxCreates /\ creates' = creates + 1
  /\ Goto(t, "running", IF withDtor THEN "scan" ELSE "created")
  /\ TlsAlloc(k)
  /\ key' = [key EXCEPT ![t] = k]
  /\ dtor' = [dtor EXCEPT ![t] = IF withDtor THEN creates + 1 ELSE NULL]
  /\ hasDtor' = IF withDtor THEN hasDtor \union {creates + 1} ELSE hasDtor
  /\ i' = [i EXCEPT ![t] = 0]
  /\ UNCHANGED <<tbl, usable, calls>>

(* impl_tss_dtor_register looks for the first slot without destructor ... *)
ScanSlot(t) ==
  /\ i[t] < SlotNum
  /\ \/ /\ tbl[i[t]].dtor = NULL
        /\ Goto(t, "scan", "store_key")
        /\ UNCHANGED i
     \/ /\ tbl[i[t]].dtor # NULL
        /\ Goto(t, "scan", "scan")
        /\ i' = [i EXCEPT ![t] = @ + 1]
  /\ UNCHANGED <<tbl, sys, key, dtor, calls>>

(* ... and tss_create fails when there is none: the index is freed. *)
TableFull(t) ==
  /\ i[t] = SlotNum
  /\ Goto(t, "scan", "running")
  /\ live' = [k \in Keys |-> IF k = key[t] THEN NULL ELSE live[k]]
  /\ UNCHANGED <<tbl, usable, tls, creates, hasDtor, key, dtor, i, calls>>

StoreKey(t) ==
  /\ Goto(t, "store_key", "store_dtor")
  /\ tbl' = [tbl EXCEPT ![i[t]].key = key[t]]
  /\ UNCHANGED <<sys, key, dtor, i, calls>>

(* Mutant: the destructor always goes to the first slot. *)
StoreFirstSlot(t) ==
  /\ Goto(t, "store_dtor", "created")
  /\ tbl' = [tbl EXCEPT ![0].dtor = dtor[t]]
  /\ UNCHANGED <<sys, key, dtor, i, calls>>

StoreDtor(t) ==
  /\ Goto(t, "store_dtor", "created")
  /\ tbl' = [tbl EXCEPT ![i[t]].dtor = dtor[t]]
  /\ UNCHANGED <<sys, key, dtor, i, calls>>

(* Mutant: tss_create reports success for any key. *)
CreateUnchecked(t) ==
  /\ Goto(t, "created", "running")
  /\ usable' = usable \union {key[t]}
  /\ UNCHANGED <<tbl, live, tls, creates, hasDtor, key, dtor, i, calls>>

(* tss_create returns; a key that is no index is found out only now. *)
TssCreateReturn(t) ==
  /\ Goto(t, "created", "running")
  /\ usable' = IF key[t] # Invalid THEN usable \union {key[t]} ELSE usable
  /\ UNCHANGED <<tbl, live, tls, creates, hasDtor, key, dtor, i, calls>>

(***************************************************************************)
(* tss_delete frees the index and leaves the table as it is.  The guard on *)
(* DeleteAny is the program's discipline, not a test the code makes.       *)
(***************************************************************************)
TssDelete(t, k) ==
  /\ t \in Creators
  /\ DeleteAny \/ live[k] \notin hasDtor
  /\ pc[t] = "running"
  /\ k \in usable
  /\ live' = [live EXCEPT ![k] = NULL]
  /\ usable' = usable \ {k}
  /\ UNCHANGED <<tbl, tls, creates, hasDtor, pc, key, dtor, i, calls>>

(* tss_set, with a value or with NULL *)
TssSet(t, k, v) ==
  /\ pc[t] = "running"
  /\ k \in usable
  /\ tls' = [tls EXCEPT ![t][k] = v]
  /\ UNCHANGED <<tbl, live, usable, creates, hasDtor, pc, key, dtor, i, calls>>

-----------------------------------------------------------------------------
(* thrd_exit, or the return from the thread's function. *)
ThrdExit(t) ==
  /\ Goto(t, "running", "invoke")
  /\ i' = [i EXCEPT ![t] = 0]
  /\ UNCHANGED <<tbl, sys, key, dtor, calls>>

(* tss_get; an index that is not allocated has no value. *)
TssGet(t, k) == IF k \in Keys THEN tls[t][k] ELSE NULL

(* Mutant: the walk begins again after a destructor (TSS_DTOR_ITERATIONS). *)
InvokeAgain(t) ==
  LET e == tbl[i[t]]
      called == e.dtor # NULL /\ TssGet(t, e.key) # NULL
  IN  /\ i[t] < SlotNum
      /\ Goto(t, "invoke", "invoke")
      /\ i' = [i EXCEPT ![t] = IF called THEN 0 ELSE @ + 1]
      /\ UNCHANGED <<tbl, sys, key, dtor, calls>>

(* One round of impl_tss_dtor_invoke; the value stays in place. *)
Invoke(t) ==
  LET e == tbl[i[t]] IN
  /\ i[t] < SlotNum
  /\ Goto(t, "invoke", "invoke")
  /\ i' = [i EXCEPT ![t] = @ + 1]
  /\ calls' = IF e.dtor # NULL /\ TssGet(t, e.key) # NULL
              THEN [calls EXCEPT ![t] = Append(@, <<e.dtor, TssGet(t, e.key)>>)]
              ELSE calls
  /\ UNCHANGED <<tbl, sys, key, dtor>>

InvokeDone(t) ==
  /\ i[t] = SlotNum
  /\ Goto(t, "invoke", "ended")
  /\ UNCHANGED <<tbl, sys, key, dtor, i, calls>>

(* All threads have ended. *)
Ended == (\A t \in Threads : pc[t] = "ended") /\ UNCHANGED vars

Next ==
  \/ \E t \in Threads :
       \/ \E k \in Keys \union {Invalid}, b \in BOOLEAN : TssCreate(t, k, b)
       \/ ScanSlot(t) \/ TableFull(t) \/ StoreKey(t) \/ StoreDtor(t)
       \/ TssCreateReturn(t)
       \/ \E k \in Keys : TssDelete(t, k) \/ TssSet(t, k, live[k]) \/ TssSet(t, k, NULL)
       \/ ThrdExit(t) \/ Invoke(t) \/ InvokeDone(t)
  \/ Ended

Spec == Init /\ [][Next]_vars

-----------------------------------------------------------------------------
(* The variables hold the kinds of value threads_win32.h gives them. *)
TypeOK ==
  /\ tbl \in [Slots -> [key : Keys \union {Invalid}, dtor : Dtors \union {NULL}]]
  /\ live \in [Keys -> Dtors \union {NULL}] /\ usable \subseteq Keys
  /\ tls \in [Threads -> [Keys -> Dtors \union {NULL}]]
  /\ creates \in 0..MaxCreates /\ hasDtor \subseteq Dtors
  /\ pc \in [Threads -> {"running", "scan", "store_key", "store_dtor", "created",
                         "invoke", "ended"}]
  /\ key \in [Threads -> Keys \union {Invalid}]
  /\ dtor \in [Threads -> Dtors \union {NULL}] /\ i \in [Threads -> 0..SlotNum]
  /\ calls \in [Threads -> Seq(Dtors \X (Dtors \union {NULL}))]

(* The keys in use that have a destructor. *)
Registered == {k \in usable : live[k] \in hasDtor}

(* The destructor calls that thread t owes: one for each value it has left. *)
Due(t) == {<<live[k], tls[t][k]>> : k \in {j \in Registered : tls[t][j] # NULL}}

(***************************************************************************)
(* A thread that has ended has called, for each of its values under a key  *)
(* with a destructor, that destructor on that value, once, and no other.   *)
(***************************************************************************)
DtorsRunOnce ==
  \A t \in Threads :
    pc[t] = "ended" =>
      /\ {calls[t][j] : j \in 1..Len(calls[t])} = Due(t)
      /\ Len(calls[t]) = Cardinality(Due(t))
=============================================================================
