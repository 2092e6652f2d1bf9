-------------------------- MODULE LazyMutexProofs --------------------------
(***************************************************************************)
(* Theorems about the mutex and about its initialisation by call_once, for *)
(* any threads, mutex types, deadlines, length of a second and bounds.     *)
(***************************************************************************)
EXTENDS LazyMutex, CallOnceProofs

(* Whole seconds of a time: natural, and no later for an earlier time. *)
LEMMA SecNat ==
  ASSUME NEW a \in Nat PROVE MSec(a) \in Nat
BY MutexAssumption DEF MSec

LEMMA SecMonotonic ==
  ASSUME NEW a \in Nat, NEW b \in Nat, a <= b PROVE MSec(a) <= MSec(b)
<1> DEFINE p == MSec(a)
<1> DEFINE q == MSec(b)
<1>1. p \in Nat /\ q \in Nat
  BY SecNat
<1>2. p * TicksPerSec <= a /\ b < (q + 1) * TicksPerSec
  BY MutexAssumption DEF MSec
<1> HIDE DEF p, q
<1>3. p * TicksPerSec < (q + 1) * TicksPerSec
  BY <1>1, <1>2, MutexAssumption
<1>4. p <= q
  BY <1>1, <1>3, MutexAssumption
<1> QED
  BY <1>4 DEF p, q

-----------------------------------------------------------------------------
(***************************************************************************)
(* call_once in the composition: its steps are steps of CallOnce, so what  *)
(* is proved of call_once holds of the composed system as well.            *)
(***************************************************************************)
LSteps == LInit /\ [][LNext]_lvars

LEMMA StepsOfCallOnce == LSteps => Spec
<1>1. LInit => Init
  BY DEF LInit
<1>2. [LNext]_lvars => [Next]_vars
  BY DEF LNext, lvars, vars, LElect, LFunc, LReturn, LUse, LTimedStep, LTick,
         Next, Step
<1> QED
  BY <1>1, <1>2, PTL DEF LSteps, Spec

(***************************************************************************)
(* Before func has ended the mutex is not initialised and nobody has come  *)
(* back from call_once; after it the mutex is initialised once, or         *)
(* mtx_init has failed and its result says so.                             *)
(***************************************************************************)
InitInvariant ==
  /\ passed \subseteq Threads
  /\ passed # {} => finished # {}
  /\ finished = {} => minits = 0
  /\ finished # {} /\ mresult = thrd_success => minits = 1

(* The count is zero exactly when nobody holds the mutex. *)
CountInvariant == mcount = 0 <=> mowner = "nobody"

(* The busy loop's limit is not before the second of the caller's deadline. *)
ExpireInvariant ==
  \A t \in Lockers : mpc[t] \in {"try", "check"} => MSec(mdeadline[t]) <= mexpire[t]

LInv ==
  /\ MTypeOK /\ InitInvariant /\ CountInvariant /\ LocksAgree
  /\ InitBeforeUse /\ ExpireInvariant

LEMMA LInitInv == LInit => LInv
<1> SUFFICES ASSUME LInit PROVE LInv
  OBVIOUS
<1> USE MutexAssumption DEF LInit, Init, MInit, thrd_success, thrd_error
<1>1. StartSec * TicksPerSec \in Nat
   /\ StartSec * TicksPerSec <= MaxSec * TicksPerSec
  OBVIOUS
<1>2. MTypeOK
  BY <1>1 DEF MTypeOK
<1> QED
  BY <1>2 DEF LInv, InitInvariant, CountInvariant, LocksAgree, InitBeforeUse,
              ExpireInvariant

(* What a successful lock leaves true, by whichever call it was obtained. *)
LEMMA ObtainInv ==
  ASSUME LInv, NEW t \in Lockers, Obtain(t)
  PROVE  /\ mowner' \in Lockers \union {"nobody"} /\ mcount' \in Nat
         /\ mdepth' \in [Lockers -> Nat]
         /\ CountInvariant' /\ LocksAgree'
         /\ \A u \in Lockers : u # t => mdepth'[u] = mdepth[u]
<1> USE MutexAssumption DEF LInv, MTypeOK, Obtain, Obtainable
<1>1. mcount = mdepth[t]
  BY DEF CountInvariant, LocksAgree
<1>2. /\ mowner' = t /\ mcount' = mcount + 1 /\ mcount' \in Nat \ {0}
      /\ mdepth' \in [Lockers -> Nat]
      /\ mdepth'[t] = mcount'
      /\ \A u \in Lockers : u # t => mdepth'[u] = mdepth[u]
  BY <1>1
<1>3. \A u \in Lockers : u # t => mdepth[u] = 0
  BY DEF LocksAgree
<1> QED
  BY <1>2, <1>3 DEF CountInvariant, LocksAgree

-----------------------------------------------------------------------------
(* Every step keeps the invariant, given call_once's own. *)
LEMMA LNextInv == IInv /\ LInv /\ [LNext]_lvars => LInv'
<1> SUFFICES ASSUME IInv, LInv, [LNext]_lvars PROVE LInv'
  OBVIOUS
<1> USE MutexAssumption, LazyMutexAssumption
    DEF LInv, mconf, mvars, vars, thrd_success, thrd_error
<1>1. ASSUME NEW t \in Threads, LElect(t) PROVE LInv'
  BY <1>1 DEF LElect, Elect, MTypeOK, InitInvariant, CountInvariant,
              LocksAgree, InitBeforeUse, ExpireInvariant
<1>2. ASSUME NEW t \in Threads, LFunc(t) PROVE LInv'
  <2>1. finished = {} /\ finished' # {} /\ passed' = passed
    BY <1>2 DEF LFunc, Func, Goto, IInv, OnceInv
  <2>2. minits = 0
    BY <2>1 DEF InitInvariant
  <2>3. \A u \in Lockers : mpc[u] = "idle" /\ mdepth[u] = 0
    BY <2>2 DEF InitBeforeUse, MTypeOK
  <2>4. mowner = "nobody" /\ mcount = 0
    BY <2>3 DEF LocksAgree, CountInvariant, MTypeOK
  <2>5. /\ mowner' = "nobody" /\ mcount' = 0
        /\ mresult' = thrd_success => minits' = 1
        /\ minits' \in 0..2 /\ mresult' \in {thrd_success, thrd_error}
        /\ UNCHANGED <<mplatform, mtype, mpc, mdeadline, mexpire, mdepth, mtime>>
    BY <1>2, <2>2, <2>4 DEF LFunc, MtxInit
  <2> QED
    BY <2>1, <2>3, <2>5 DEF MTypeOK, InitInvariant, CountInvariant,
              LocksAgree, InitBeforeUse, ExpireInvariant
<1>3. ASSUME NEW t \in Threads, LReturn(t) PROVE LInv'
  <2>1. UNCHANGED <<mvars, finished>> /\ passed' \subseteq passed \union {t}
    BY <1>3 DEF LReturn, Publish, Spin
  <2>2. passed' # passed => finished # {}
    BY <1>3 DEF LReturn, Publish, Spin, Goto, IInv, OnceInv, TypeOK
  <2> QED
    BY <2>1, <2>2 DEF MTypeOK, InitInvariant, CountInvariant, LocksAgree,
              InitBeforeUse, ExpireInvariant
<1>4. ASSUME NEW t \in Lockers, LUse(t) PROVE LInv'
  <2>1. minits = 1 /\ UNCHANGED <<mconf, finished, passed, mtime>>
    BY <1>4 DEF LUse, InitInvariant, MtxCall, MtxLock, MtxTrylock, MtxUnlock,
                TimedCall
  <2>2. InitInvariant' /\ InitBeforeUse'
    BY <2>1 DEF InitInvariant, InitBeforeUse
  <2>3. CASE MtxLock(t)
    BY <2>1, <2>2, <2>3, ObtainInv DEF MtxLock, MTypeOK, ExpireInvariant
  <2>4. CASE MtxTrylock(t)
    BY <2>1, <2>2, <2>4, ObtainInv DEF MtxTrylock, NoObtain, MTypeOK,
       ExpireInvariant, CountInvariant, LocksAgree
  <2>5. CASE MtxUnlock(t)
    <3>1. mowner = t /\ mcount = mdepth[t] /\ mcount > 0
      BY <2>5 DEF MtxUnlock, LocksAgree, MTypeOK
    <3>2. CountInvariant' /\ LocksAgree' /\ MTypeOK'
      BY <2>1, <2>5, <3>1 DEF MtxUnlock, CountInvariant, LocksAgree, MTypeOK
    <3> QED
      BY <2>1, <2>2, <2>5, <3>2 DEF MtxUnlock, ExpireInvariant
  <2>6. ASSUME NEW ts \in Deadlines, TimedCall(t, ts) PROVE LInv'
    <3>1. MSec(mtime) \in Nat /\ MSec(ts) \in Nat
      BY SecNat DEF MTypeOK
    <3>2. Expire(ts) \in 0..MaxSec /\ MSec(ts) <= Expire(ts)
      BY <2>6, <3>1 DEF TimedCall, Expire
    <3>3. MTypeOK'
      BY <2>6, <3>2 DEF TimedCall, MTypeOK
    <3>4. ExpireInvariant'
      BY <2>6, <3>2 DEF TimedCall, MTypeOK, ExpireInvariant
    <3> QED
      BY <2>2, <2>6, <3>3, <3>4 DEF TimedCall, CountInvariant, LocksAgree
  <2> QED
    BY <1>4, <2>3, <2>4, <2>5, <2>6 DEF LUse, MtxCall
<1>5. ASSUME NEW t \in Lockers, LTimedStep(t) PROVE LInv'
  <2>1. minits = 1 /\ UNCHANGED <<mconf, finished, passed, mtime>>
    BY <1>5 DEF LTimedStep, TimedStep, TimedTry, TimedCheck, TimedNative,
                TimedReturn, Again, InitBeforeUse
  <2>2. InitInvariant' /\ InitBeforeUse'
    BY <2>1 DEF InitInvariant, InitBeforeUse
  <2>3. /\ mpc' \in [Lockers -> {"idle", "native", "try", "check"}]
        /\ mdeadline' \in [Lockers -> Deadlines \union {0}]
        /\ mexpire' \in [Lockers -> 0..(MaxSec - 1)]
        /\ ExpireInvariant'
    BY <1>5 DEF LTimedStep, TimedStep, TimedTry, TimedCheck, TimedNative,
                TimedReturn, Again, MTypeOK, ExpireInvariant
  <2>4. Obtain(t) \/ NoObtain
    BY <1>5 DEF LTimedStep, TimedStep, TimedTry, TimedCheck, TimedNative
  <2> QED
    BY <2>1, <2>2, <2>3, <2>4, ObtainInv DEF NoObtain, MTypeOK,
       CountInvariant, LocksAgree
<1>6. CASE LTick
  <2>1. mtime' \in 0..(MaxSec * TicksPerSec)
    BY <1>6 DEF LTick, Tick, MTypeOK
  <2> QED
    BY <1>6, <2>1 DEF LTick, Tick, MTypeOK, InitInvariant, CountInvariant,
              LocksAgree, InitBeforeUse, ExpireInvariant
<1>7. CASE UNCHANGED lvars
  BY <1>7 DEF lvars, MTypeOK, InitInvariant, CountInvariant, LocksAgree,
              InitBeforeUse, ExpireInvariant
<1> QED
  BY <1>1, <1>2, <1>3, <1>4, <1>5, <1>6, <1>7 DEF LNext

(* The composed system keeps both inductive invariants. *)
THEOREM LazyMutexCorrect == LSpec => [](IInv /\ LInv)
<1>1. LSpec => LSteps
  BY PTL DEF LSpec, LSteps
<1>2. LSteps => []IInv
  BY StepsOfCallOnce, OnceCorrect, PTL
<1>3. LSteps => []LInv
  BY <1>2, LInitInv, LNextInv, PTL DEF LSteps
<1> QED
  BY <1>1, <1>2, <1>3, PTL

(***************************************************************************)
(* mtx_lock, mtx_trylock, mtx_timedlock and mtx_unlock keep the mutex and  *)
(* its callers in agreement about who holds it and how often.              *)
(***************************************************************************)
THEOREM MutexAgrees == LSpec => []LocksAgree
BY LazyMutexCorrect, PTL DEF LInv

(***************************************************************************)
(* The types of the mutex and of its callers; the busy loops never move    *)
(* their expire beyond what their calls have set.                          *)
(***************************************************************************)
THEOREM MutexTypes == LSpec => []MTypeOK
BY LazyMutexCorrect, PTL DEF LInv

(***************************************************************************)
(* A mutex made by call_once is initialised, once, before anybody's call   *)
(* touches it.                                                             *)
(***************************************************************************)
THEOREM InitialisedFirst == LSpec => []InitBeforeUse
BY LazyMutexCorrect, PTL DEF LInv

(***************************************************************************)
(* mtx_timedlock never gives up before the absolute time it was given: not *)
(* on Linux, where the system waits, and not in the busy loop of Windows   *)
(* and Apple, which looks at whole seconds.                                *)
(***************************************************************************)
THEOREM NoTimeoutTooSoon == LSpec => NoEarlyTimeout
<1> DEFINE Late == \A t \in Lockers :
             mpc[t] # "idle" /\ mpc'[t] = "idle" /\ mdepth'[t] = mdepth[t]
               => mdeadline[t] <= mtime
<1>1. LInv /\ [LNext]_lvars => [Late]_mvars
  <2> SUFFICES ASSUME LInv, LNext, NEW t \in Lockers, mpc[t] # "idle",
                      mpc'[t] = "idle", mdepth'[t] = mdepth[t]
               PROVE  mdeadline[t] <= mtime
    BY DEF lvars
  <2> USE MutexAssumption DEF LInv, mconf, mvars
  <2>1. TimedStep(t)
    BY DEF LNext, LElect, LFunc, MtxInit, LReturn, LUse, MtxCall, MtxLock,
           MtxTrylock, MtxUnlock, TimedCall, LTimedStep, TimedStep, TimedTry,
           TimedCheck, TimedNative, TimedReturn, Again, LTick, Tick, MTypeOK
  <2>2. ~ Obtain(t)
    BY DEF Obtain, MTypeOK
  <2>3. mdeadline[t] \in Nat /\ mtime \in Nat
    <3>1. mdeadline[t] \in Deadlines \union {0}
      BY DEF MTypeOK
    <3>2. mtime \in Nat
      BY DEF MTypeOK
    <3>3. Deadlines \union {0} \subseteq Nat
      OBVIOUS
    <3>4. mdeadline[t] \in Nat
      BY <3>1, <3>3
    <3> QED
      BY <3>2, <3>4
  <2>4. CASE TimedNative(t)
    BY <2>2, <2>4 DEF TimedNative
  <2>5. CASE TimedCheck(t)
    <3>1. mexpire[t] < MSec(mtime) /\ MSec(mdeadline[t]) <= mexpire[t]
      BY <2>5 DEF TimedCheck, Again, MTypeOK, ExpireInvariant
    <3>2. MSec(mdeadline[t]) \in Nat /\ MSec(mtime) \in Nat
      BY <2>3, SecNat
    <3>3. ~ (MSec(mtime) <= MSec(mdeadline[t]))
      BY <3>1, <3>2 DEF MTypeOK
    <3> QED
      BY <2>3, <3>3, SecMonotonic
  <2> QED
    BY <2>1, <2>2, <2>4, <2>5 DEF TimedStep, TimedTry, MTypeOK
<1> QED
  BY <1>1, LazyMutexCorrect, PTL DEF LSpec, NoEarlyTimeout

(* What call_once promises holds of it in the composition. *)
THEOREM LazyInitOnce == LSpec => []RunsOnce /\ ReturnsAfterFunc
<1>1. LSpec => Spec
  BY StepsOfCallOnce, PTL DEF LSpec, LSteps
<1> QED
  BY <1>1, FuncRunsOnce, NoEarlyReturn, PTL
=============================================================================
