------------------------------- MODULE Mutex -------------------------------
(***************************************************************************)
(* One mtx_t of src/include/compat-threads/: threads_win32.h (a critical   *)
(* section) and threads_posix.h (a pthread mutex).  mtx_timedlock is a     *)
(* busy loop around mtx_trylock on Windows and Apple, and the system's on  *)
(* Linux.  The names begin with m, so that a module can extend this one    *)
(* together with the component that uses the mutex.                        *)
(*                                                                         *)
(* mtime is the system's real time in ticks; time(NULL) drops fractions.   *)
(***************************************************************************)
EXTENDS Integers

CONSTANTS
  Lockers,      \* the threads that use the mutex
  MTypes,       \* the types the program may pass to mtx_init
  Deadlines,    \* the absolute times, in ticks, passed to mtx_timedlock
  TicksPerSec,  \* how finely time passes; 10^9 in struct timespec
  StartSec,     \* time(NULL) at the start
  MaxSec,       \* bound on the time
  MaxDepth      \* bound on the nesting of a recursive mutex

ASSUME MutexAssumption ==
  /\ MTypes \subseteq 0..7 /\ Deadlines \subseteq Nat
  /\ TicksPerSec \in Nat \ {0}
  /\ StartSec \in Nat /\ MaxSec \in Nat /\ StartSec < MaxSec
  /\ MaxDepth \in Nat \ {0}
  /\ "nobody" \notin Lockers

mtx_plain     == 0
mtx_try       == 1
mtx_timed     == 2
mtx_recursive == 4
thrd_success  == 0
thrd_error    == 2

VARIABLES
  mplatform,  \* "win32", "linux" (native timedlock) or "apple" (emulated)
  mtype,      \* the type passed to mtx_init
  mowner,     \* who holds the mutex: a thread or "nobody"
  mcount,     \* how often the holder has locked it
  minits,     \* how often the mutex has been initialised: 0, 1 or 2 (more)
  mresult,    \* where the program keeps the result of mtx_init; 0 at first
  mpc,        \* per thread: where it is in mtx_timedlock
  mdeadline,  \* per thread: *ts
  mexpire,    \* per thread: expire
  mdepth,     \* history, per thread: successful locks not unlocked yet
  mtime

mvars == <<mplatform, mtype, mowner, mcount, minits, mresult, mpc, mdeadline,
           mexpire, mdepth, mtime>>
mconf == <<mplatform, mtype, minits, mresult>>

MInit ==
  /\ mplatform \in {"win32", "linux", "apple"}
  /\ mtype \in MTypes
  /\ mowner = "nobody" /\ mcount = 0
  /\ minits = 0 /\ mresult = thrd_success
  /\ mpc = [t \in Lockers |-> "idle"]
  /\ mdeadline = [t \in Lockers |-> 0]
  /\ mexpire = [t \in Lockers |-> 0]
  /\ mdepth = [t \in Lockers |-> 0]
  /\ mtime = StartSec * TicksPerSec

(* time(NULL), and the seconds of a timespec *)
MSec(ticks) == ticks \div TicksPerSec

ValidTypes == {mtx_plain, mtx_timed, mtx_try} \union
              {ty + mtx_recursive : ty \in {mtx_plain, mtx_timed, mtx_try}}

(* A critical section is always recursive, a pthread mutex if asked for. *)
Recursive == mplatform = "win32" \/ mtype >= mtx_recursive

(* An object initialised again is free, whoever held it. *)
MtxInit ==
  /\ \/ /\ mtype \in ValidTypes
        /\ mowner' = "nobody" /\ mcount' = 0
        /\ minits' = IF minits = 2 THEN 2 ELSE minits + 1
        /\ mresult' = thrd_success
     \/ /\ mtype \notin ValidTypes
        /\ mresult' = thrd_error
        /\ UNCHANGED <<mowner, mcount, minits>>
  /\ UNCHANGED <<mplatform, mtype, mpc, mdeadline, mexpire, mdepth, mtime>>

-----------------------------------------------------------------------------
(* TryEnterCriticalSection, pthread_mutex_trylock: would t get it now? *)
Obtainable(t) == mowner = "nobody" \/ (mowner = t /\ Recursive)

(* t gets it, and its call returns thrd_success. *)
Obtain(t) ==
  /\ Obtainable(t)
  /\ mdepth[t] < MaxDepth
  /\ mowner' = t
  /\ mcount' = mcount + 1
  /\ mdepth' = [mdepth EXCEPT ![t] = @ + 1]

NoObtain == UNCHANGED <<mowner, mcount, mdepth>>

(***************************************************************************)
(* Of the thread that holds a mutex that is not recursive, the program     *)
(* asks no blocking lock: it would wait for itself.                        *)
(***************************************************************************)
MayBlock(t) == mowner = t => Recursive /\ mdepth[t] < MaxDepth

(* mtx_lock; a call that has to wait is taken when the wait is over. *)
MtxLock(t) ==
  /\ mpc[t] = "idle"
  /\ Obtain(t)
  /\ UNCHANGED <<mconf, mpc, mdeadline, mexpire, mtime>>

(* Mutant: mtx_trylock has success and busy the wrong way round. *)
MtxTrylockInverted(t) ==
  /\ mpc[t] = "idle"
  /\ ~ Obtainable(t)
  /\ mdepth' = [mdepth EXCEPT ![t] = @ + 1]
  /\ UNCHANGED <<mconf, mowner, mcount, mpc, mdeadline, mexpire, mtime>>

(* mtx_trylock, successful or busy *)
MtxTrylock(t) ==
  /\ mpc[t] = "idle"
  /\ Obtain(t) \/ (~ Obtainable(t) /\ NoObtain)
  /\ UNCHANGED <<mconf, mpc, mdeadline, mexpire, mtime>>

(* mtx_unlock, called by the holder *)
MtxUnlock(t) ==
  /\ mpc[t] = "idle"
  /\ mdepth[t] > 0
  /\ mdepth' = [mdepth EXCEPT ![t] = @ - 1]
  /\ mcount' = mcount - 1
  /\ mowner' = IF mcount = 1 THEN "nobody" ELSE mowner
  /\ UNCHANGED <<mconf, mpc, mdeadline, mexpire, mtime>>

-----------------------------------------------------------------------------
(* The end of a call of mtx_timedlock. *)
TimedReturn(t) ==
  /\ mpc' = [mpc EXCEPT ![t] = "idle"]
  /\ mdeadline' = [mdeadline EXCEPT ![t] = 0]
  /\ mexpire' = [mexpire EXCEPT ![t] = 0]
  /\ UNCHANGED <<mconf, mtime>>

(* Mutant: the seconds of *ts are not added. *)
ExpireNow(ts) == MSec(mtime)

(* expire = time(NULL) + ts->tv_sec *)
Expire(ts) == MSec(mtime) + MSec(ts)

(***************************************************************************)
(* mtx_timedlock(mtx, ts) begins.  The emulation takes the seconds of the  *)
(* absolute time *ts as a distance from now.  MaxSec keeps out calls whose *)
(* end the bounded time would not reach.                                   *)
(***************************************************************************)
TimedCall(t, ts) ==
  /\ mpc[t] = "idle"
  /\ MayBlock(t)
  /\ Expire(ts) < MaxSec
  /\ mdeadline' = [mdeadline EXCEPT ![t] = ts]
  /\ \/ /\ mplatform = "linux"
        /\ mpc' = [mpc EXCEPT ![t] = "native"]
        /\ UNCHANGED mexpire
     \/ /\ mplatform # "linux"
        /\ mpc' = [mpc EXCEPT ![t] = "try"]
        /\ mexpire' = [mexpire EXCEPT ![t] = Expire(ts)]
  /\ UNCHANGED <<mconf, mowner, mcount, mdepth, mtime>>

(* mtx_trylock in the loop's condition *)
TimedTry(t) ==
  /\ mpc[t] = "try"
  /\ \/ Obtain(t) /\ TimedReturn(t)
     \/ /\ ~ Obtainable(t) /\ NoObtain
        /\ mpc' = [mpc EXCEPT ![t] = "check"]
        /\ UNCHANGED <<mconf, mdeadline, mexpire, mtime>>

(* Mutant: every round begins a new interval. *)
AgainFromNow(t) ==
  /\ mpc' = [mpc EXCEPT ![t] = "try"]
  /\ mexpire' = [mexpire EXCEPT ![t] = Expire(mdeadline[t])]
  /\ UNCHANGED <<mconf, mdeadline, mtime>>

(* thrd_yield(), and the next round of the loop *)
Again(t) ==
  /\ mpc' = [mpc EXCEPT ![t] = "try"]
  /\ UNCHANGED <<mconf, mdeadline, mexpire, mtime>>

(* if (expire < now) return thrd_busy *)
TimedCheck(t) ==
  /\ mpc[t] = "check"
  /\ NoObtain
  /\ \/ mexpire[t] < MSec(mtime) /\ TimedReturn(t)
     \/ mexpire[t] >= MSec(mtime) /\ Again(t)

(* pthread_mutex_timedlock gets the mutex, or gives up at the deadline. *)
TimedNative(t) ==
  /\ mpc[t] = "native"
  /\ Obtain(t) \/ (~ Obtainable(t) /\ mdeadline[t] <= mtime /\ NoObtain)
  /\ TimedReturn(t)

Tick ==
  /\ mtime < MaxSec * TicksPerSec
  /\ mtime' = mtime + 1
  /\ UNCHANGED <<mconf, mowner, mcount, mpc, mdeadline, mexpire, mdepth>>

MtxCall(t) ==
  \/ MtxLock(t) \/ MtxTrylock(t) \/ MtxUnlock(t)
  \/ \E ts \in Deadlines : TimedCall(t, ts)

TimedStep(t) == TimedTry(t) \/ TimedCheck(t) \/ TimedNative(t)

-----------------------------------------------------------------------------
(***************************************************************************)
(* The variables of the mutex and of its callers keep their types, and the *)
(* expire of a busy mtx_timedlock stays the one its call has set: it does  *)
(* not move on with the time and stays within what the calls let in allow. *)
(***************************************************************************)
MTypeOK ==
  /\ mplatform \in {"win32", "linux", "apple"} /\ mtype \in MTypes
  /\ mowner \in Lockers \union {"nobody"} /\ mcount \in Nat
  /\ minits \in 0..2 /\ mresult \in {thrd_success, thrd_error}
  /\ mpc \in [Lockers -> {"idle", "native", "try", "check"}]
  /\ mdeadline \in [Lockers -> Deadlines \union {0}]
  /\ mexpire \in [Lockers -> 0..(MaxSec - 1)]
  /\ mdepth \in [Lockers -> Nat]
  /\ mtime \in 0..(MaxSec * TicksPerSec)

(***************************************************************************)
(* What the callers were told and what the mutex knows agree: a thread has *)
(* as many successful locks of mtx_lock, mtx_trylock and mtx_timedlock to  *)
(* undo as the mutex counts for it, so at most one thread has any.         *)
(***************************************************************************)
LocksAgree ==
  \A t \in Lockers : mdepth[t] = IF mowner = t THEN mcount ELSE 0

(***************************************************************************)
(* mtx_timedlock answers thrd_busy only when the absolute time it was      *)
(* given has come, by the system's lock and by the busy loop, which looks  *)
(* at whole seconds only.                                                  *)
(***************************************************************************)
NoEarlyTimeout ==
  [][\A t \in Lockers :
       mpc[t] # "idle" /\ mpc'[t] = "idle" /\ mdepth'[t] = mdepth[t]
         => mdeadline[t] <= mtime]_mvars

(***************************************************************************)
(* Every call of mtx_timedlock returns, even if the mutex is never         *)
(* released: the busy loop keeps its limit and time goes on.               *)
(***************************************************************************)
TimedLockReturns == \A t \in Lockers : mpc[t] # "idle" ~> mpc[t] = "idle"
=============================================================================
