----------------------------- MODULE LazyMutex -----------------------------
(***************************************************************************)
(* A mutex made on first use: every thread calls call_once with a function *)
(* that calls mtx_init, and uses the mutex when call_once has returned.    *)
(* It is the C11 way to make a global mutex, since _MTX_INITIALIZER_NP of  *)
(* src/include/compat-threads is not standard.                             *)
(*                                                                         *)
(* On POSIX call_once is pthread_once, which promises what CallOnce shows  *)
(* of the emulated one.                                                    *)
(***************************************************************************)
EXTENDS CallOnce, Mutex

ASSUME LazyMutexAssumption == Lockers \subseteq Threads

VARIABLE passed   \* the threads that have come back from call_once

lvars == <<vars, mvars, passed>>

LInit == Init /\ MInit /\ passed = {}

(* A thread that is not inside a call of the mutex calls call_once. *)
LElect(t) ==
  /\ t \in Lockers => mpc[t] = "idle"
  /\ Elect(t)
  /\ UNCHANGED <<mvars, passed>>

(* func is mtx_init, its result kept where everybody can read it. *)
LFunc(t) ==
  /\ Func(t) /\ MtxInit
  /\ UNCHANGED passed

LReturn(t) ==
  /\ Publish(t) \/ Spin(t)
  /\ passed' = IF pc'[t] = "outside" THEN passed \union {t} ELSE passed
  /\ UNCHANGED mvars

(* The mutex is used unless mtx_init is known to have failed. *)
LUse(t) ==
  /\ t \in passed /\ pc[t] = "outside"
  /\ mresult = thrd_success
  /\ MtxCall(t)
  /\ UNCHANGED <<vars, passed>>

LTimedStep(t) == TimedStep(t) /\ UNCHANGED <<vars, passed>>

LTick == Tick /\ UNCHANGED <<vars, passed>>

LNext ==
  \/ \E t \in Threads : LElect(t) \/ LFunc(t) \/ LReturn(t)
  \/ \E t \in Lockers : LUse(t) \/ LTimedStep(t)
  \/ LTick

(***************************************************************************)
(* A thread inside call_once or mtx_timedlock is scheduled again and       *)
(* again, and time passes.                                                 *)
(***************************************************************************)
LSpec ==
  /\ LInit /\ [][LNext]_lvars
  /\ \A t \in Threads : WF_lvars(LFunc(t) \/ LReturn(t))
  /\ \A t \in Lockers : WF_lvars(LTimedStep(t))
  /\ WF_lvars(LTick)

-----------------------------------------------------------------------------
(***************************************************************************)
(* call_once publishes what func did: a thread that is inside a call of    *)
(* the mutex, or holds it, finds it initialised, and once only, so that    *)
(* nobody's lock is undone by a second mtx_init.                           *)
(***************************************************************************)
InitBeforeUse ==
  \A t \in Lockers : mpc[t] # "idle" \/ mdepth[t] > 0 => minits = 1
=============================================================================
