----------------------------- MODULE ThrdWin32 -----------------------------
(***************************************************************************)
(* The life of a thread in src/include/compat-threads/threads_win32.h:     *)
(* thrd_create hands a parameter block from malloc to impl_thrd_routine,   *)
(* which copies and frees it and calls the function; the thread uses       *)
(* thread-specific storage (TssWin32) and ends by returning or by          *)
(* thrd_exit, both through the walk over the destructors; thrd_join waits, *)
(* fetches the exit code and closes the handle, thrd_detach only closes.   *)
(*                                                                         *)
(* Main creates, joins and detaches the others.  A thread's exit code is   *)
(* 1 if it returned from its function and 2 if it called thrd_exit.        *)
(***************************************************************************)
EXTENDS TssWin32

CONSTANTS
  Main,
  MaxFails   \* bound on the failures of _beginthreadex

ASSUME ThrdAssumption ==
  Main \in Threads /\ Creators = {Main} /\ MaxFails \in Nat

Children    == Threads \ {Main}
ExitCodes   == {1, 2}
StillActive == 259

VARIABLES
  life,    \* per thread: "none", "starting", "func" or "over"
  block,   \* per thread: its parameter block, "none", "allocated" or "freed"
  handle,  \* per thread: "none", "unstored", "open" or "closed"
  code,    \* per thread: the code it ends with
  at,      \* where Main is: "running", or in a call for the thread who
  who,
  joined,  \* per thread: what thrd_join has put into *res
  leaked   \* how many blocks of failed calls nobody can free any more

tvars   == <<life, block, handle, code, at, who, joined, leaked>>
allvars == <<vars, tvars>>

TInit ==
  /\ Init
  /\ life = [t \in Threads |-> IF t = Main THEN "func" ELSE "none"]
  /\ block = [t \in Threads |-> "none"]
  /\ handle = [t \in Threads |-> "none"]
  /\ code = [t \in Threads |-> NULL]
  /\ at = "running" /\ who = Main
  /\ joined = [t \in Threads |-> NULL]
  /\ leaked = 0

(* Main is between two calls, of this module and of TssWin32. *)
Idle == at = "running" /\ pc[Main] = "running"

Call(name, u)  == Idle /\ at' = name /\ who' = u
ReturnTo(name) == at = name /\ at' = "running" /\ who' = Main

-----------------------------------------------------------------------------
(* thrd_create(&thr, func, arg) allocates the block, or says thrd_nomem. *)
ThrdCreate(u) ==
  /\ life[u] = "none"
  /\ Call("create", u)
  /\ block' = [block EXCEPT ![u] = "allocated"]
  /\ UNCHANGED <<vars, life, handle, code, joined, leaked>>

(* _beginthreadex succeeds: from here on the new thread runs. *)
BeginThread ==
  /\ at = "create" /\ at' = "store"
  /\ life' = [life EXCEPT ![who] = "starting"]
  /\ handle' = [handle EXCEPT ![who] = "unstored"]
  /\ UNCHANGED <<vars, block, code, who, joined, leaked>>

(* Mutant: thrd_create frees the block it has passed on. *)
StoreHandleAndFree ==
  /\ ReturnTo("store")
  /\ handle' = [handle EXCEPT ![who] = "open"]
  /\ block' = [block EXCEPT ![who] = "freed"]
  /\ UNCHANGED <<vars, life, code, joined, leaked>>

(* *thr = handle, and thrd_create returns. *)
StoreHandle ==
  /\ ReturnTo("store")
  /\ handle' = [handle EXCEPT ![who] = "open"]
  /\ UNCHANGED <<vars, life, block, code, joined, leaked>>

(* _beginthreadex fails: an error is returned and the block is lost. *)
BeginFails ==
  /\ leaked < MaxFails /\ leaked' = leaked + 1
  /\ ReturnTo("create")
  /\ block' = [block EXCEPT ![who] = "none"]
  /\ UNCHANGED <<vars, life, handle, code, joined>>

(* impl_thrd_routine copies and frees the block and calls the function. *)
ThrdRoutine(u) ==
  /\ life[u] = "starting" /\ life' = [life EXCEPT ![u] = "func"]
  /\ block' = [block EXCEPT ![u] = "freed"]
  /\ UNCHANGED <<vars, handle, code, at, who, joined, leaked>>

(* The function returns, or calls thrd_exit. *)
FuncEnds(u, c) ==
  /\ life[u] = "func"
  /\ ThrdExit(u)
  /\ code' = [code EXCEPT ![u] = c]
  /\ UNCHANGED <<life, block, handle, at, who, joined, leaked>>

(* The walk over the destructors, and the end of the thread. *)
Leave(u) ==
  /\ Invoke(u) \/ InvokeDone(u)
  /\ life' = IF pc'[u] = "ended" THEN [life EXCEPT ![u] = "over"] ELSE life
  /\ UNCHANGED <<block, handle, code, at, who, joined, leaked>>

-----------------------------------------------------------------------------
(* thrd_join(thr, &res), of a thread that was neither joined nor detached *)
ThrdJoin(u) ==
  /\ handle[u] = "open"
  /\ Call("join", u)
  /\ UNCHANGED <<vars, life, block, handle, code, joined, leaked>>

(* What GetExitCodeThread gives. *)
ExitCode(u) == IF life[u] = "over" THEN code[u] ELSE StillActive

(* Mutant: the wait has a limit, and its result is not looked at. *)
WaitEndsAnyway(u) == TRUE

(* WaitForSingleObject(thr, INFINITE) comes back. *)
WaitEnds(u) == life[u] = "over"

(* The wait is over; the code is fetched and the handle closed. *)
JoinReturns ==
  /\ WaitEnds(who)
  /\ ReturnTo("join")
  /\ joined' = [joined EXCEPT ![who] = ExitCode(who)]
  /\ handle' = [handle EXCEPT ![who] = "closed"]
  /\ UNCHANGED <<vars, life, block, code, leaked>>

(* thrd_detach: only the handle goes. *)
ThrdDetach(u) ==
  /\ Idle /\ handle[u] = "open"
  /\ handle' = [handle EXCEPT ![u] = "closed"]
  /\ UNCHANGED <<vars, life, block, code, at, who, joined, leaked>>

(* Thread-specific storage in a thread's function; Main keeps no values. *)
UseStorage(t) ==
  /\ life[t] = "func" /\ (t = Main => at = "running")
  /\ \/ \E k \in Keys \union {Invalid}, b \in BOOLEAN : TssCreate(t, k, b)
     \/ \E k \in Keys : TssDelete(t, k)
     \/ t # Main /\ \E k \in Keys : TssSet(t, k, live[k]) \/ TssSet(t, k, NULL)
  /\ UNCHANGED tvars

TssStep(t) ==
  /\ \/ ScanSlot(t) \/ TableFull(t) \/ StoreKey(t) \/ StoreDtor(t)
     \/ TssCreateReturn(t)
  /\ UNCHANGED tvars

ThreadStep(u) ==
  ThrdRoutine(u) \/ (\E c \in ExitCodes : FuncEnds(u, c)) \/ Leave(u)

MainStep == BeginThread \/ StoreHandle \/ BeginFails \/ JoinReturns

(* Nothing is left to do, or the bound on keys is used up. *)
Over ==
  /\ Idle /\ creates = MaxCreates
  /\ \A u \in Children : life[u] = "over" /\ handle[u] = "closed"
  /\ UNCHANGED allvars

TNext ==
  \/ \E u \in Children :
       ThrdCreate(u) \/ ThrdJoin(u) \/ ThrdDetach(u) \/ ThreadStep(u)
  \/ MainStep
  \/ \E t \in Threads : UseStorage(t) \/ TssStep(t)
  \/ Over

(***************************************************************************)
(* Threads are scheduled again and again, and a thread's function does not *)
(* run for ever.                                                           *)
(***************************************************************************)
TSpec ==
  /\ TInit /\ [][TNext]_allvars
  /\ WF_allvars(MainStep)
  /\ \A u \in Children : WF_allvars(ThreadStep(u))

-----------------------------------------------------------------------------
(***************************************************************************)
(* The parameter block changes hands once: it is there when the new thread *)
(* copies it, and no thread that got one leaves it allocated, however the  *)
(* start of the thread and the return of thrd_create interleave.           *)
(***************************************************************************)
BlockHandover ==
  \A u \in Children :
    /\ life[u] = "starting" => block[u] = "allocated"
    /\ life[u] \in {"func", "over"} => block[u] = "freed"

(***************************************************************************)
(* When thrd_join has returned, the thread is over, its destructors have   *)
(* run, and the code is the one it ended with, by return or by thrd_exit.  *)
(***************************************************************************)
JoinTellsResult ==
  \A u \in Children : joined[u] # NULL => pc[u] = "ended" /\ joined[u] = code[u]

(* thrd_join comes back: the walk at the end of every thread ends. *)
JoinEnds == at = "join" ~> at = "running"
=============================================================================
