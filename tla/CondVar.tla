------------------------------ MODULE CondVar ------------------------------
(***************************************************************************)
(* What a condition variable promises (cnd_wait, cnd_signal and            *)
(* cnd_broadcast of src/include/compat-threads): a signal grants one wakeup *)
(* to a thread that is already waiting, a broadcast grants one to each, a  *)
(* grant is never lost, and a thread that begins to wait afterwards cannot *)
(* take it.                                                                *)
(***************************************************************************)
EXTENDS Naturals, FiniteSets

CONSTANT Waiters

VARIABLES
  waiting,  \* the threads that wait
  granted   \* how many of them have been granted a wakeup

cvars == <<waiting, granted>>

CInit == waiting = {} /\ granted = 0

CWait ==
  /\ granted = 0
  /\ \E t \in Waiters \ waiting : waiting' = waiting \union {t}
  /\ UNCHANGED granted

CSignal ==
  /\ granted < Cardinality(waiting)
  /\ granted' \in {granted + 1, Cardinality(waiting)}
  /\ UNCHANGED waiting

CWake ==
  /\ granted > 0
  /\ \E t \in waiting : waiting' = waiting \ {t}
  /\ granted' = granted - 1

CNext == CWait \/ CSignal \/ CWake

CSpec == CInit /\ [][CNext]_cvars
=============================================================================
