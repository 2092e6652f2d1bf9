----------------------------- MODULE CondWin32 -----------------------------
(***************************************************************************)
(* The emulated condition variable of                                      *)
(* src/include/compat-threads/threads_win32.h (the build without           *)
(* EMULATED_THREADS_USE_NATIVE_CV): impl_cond_do_wait and                  *)
(* impl_cond_do_signal over two semaphores and a critical section.         *)
(*                                                                         *)
(* Waiters lock the mutex and wait, again and again; signallers signal or  *)
(* broadcast without the mutex, as mule_submit and mule_thread do.  A      *)
(* region under the monitor is one step unless it blocks inside.           *)
(***************************************************************************)
EXTENDS Integers, FiniteSets

CONSTANTS
  Waiters, Signallers,  \* the two kinds of thread
  Timed,                \* waits are cnd_timedwait, not cnd_wait
  Kinds,                \* what signallers call: FALSE cnd_signal, TRUE cnd_broadcast
  GoneLimit             \* INT_MAX/2

ASSUME CondAssumption ==
  /\ Waiters \intersect Signallers = {}
  /\ Timed \in BOOLEAN /\ Kinds \subseteq BOOLEAN
  /\ GoneLimit \in Nat \ {0}
  /\ IsFiniteSet(Waiters) /\ Cardinality(Waiters) < GoneLimit

Free == "free"
ASSUME FreeAssumption == Free \notin Waiters \union Signallers

VARIABLES
  blocked, gone, to_unblock,  \* the three counters of cnd_t
  sem_queue, sem_gate,        \* the two semaphores
  monitor, mtx,               \* holders of the monitor and of the mutex
  pc,                         \* where each thread is
  seen,       \* per waiter: blocked as it read it before incrementing it
  ngone, timeout,             \* per waiter: locals of impl_cond_do_wait
  nsignal, broadcast          \* per signaller: locals of impl_cond_do_signal

cnt  == <<blocked, gone, to_unblock>>
sems == <<sem_queue, sem_gate>>
wloc == <<seen, ngone, timeout>>
sloc == <<nsignal, broadcast>>
vars == <<cnt, sems, monitor, mtx, pc, wloc, sloc>>

WaiterPC    == {"out", "in", "gate", "register", "unlock", "queue", "account",
                "overflow", "drain", "relock"}
SignallerPC == {"idle", "close", "post"}

(* cnd_init: no token in sem_queue, the gate open. *)
Init ==
  /\ blocked = 0 /\ gone = 0 /\ to_unblock = 0
  /\ sem_queue = 0 /\ sem_gate = 1
  /\ monitor = Free /\ mtx = Free
  /\ pc = [t \in Waiters \union Signallers |->
             IF t \in Waiters THEN "out" ELSE "idle"]
  /\ seen = [t \in Waiters |-> 0]
  /\ ngone = [t \in Waiters |-> 0]
  /\ timeout = [t \in Waiters |-> FALSE]
  /\ nsignal = [s \in Signallers |-> 0]
  /\ broadcast = [s \in Signallers |-> FALSE]

Goto(t, from, to) == pc[t] = from /\ pc' = [pc EXCEPT ![t] = to]

-----------------------------------------------------------------------------
(***************************************************************************)
(* The caller of cnd_wait, and impl_cond_do_wait.                          *)
(***************************************************************************)
MtxLock(t) ==
  /\ Goto(t, "out", "in")
  /\ mtx = Free /\ mtx' = t
  /\ UNCHANGED <<cnt, sems, monitor, wloc, sloc>>

MtxUnlock(t) ==
  /\ Goto(t, "in", "out")
  /\ mtx' = Free
  /\ UNCHANGED <<cnt, sems, monitor, wloc, sloc>>

CallWait(t) ==
  /\ Goto(t, "in", "gate")
  /\ UNCHANGED <<cnt, sems, monitor, mtx, wloc, sloc>>

(* blocked++ happens behind the gate and not under the monitor: a load ... *)
TakeGate(t) ==
  /\ Goto(t, "gate", "register")
  /\ sem_gate > 0 /\ sem_gate' = sem_gate - 1
  /\ seen' = [seen EXCEPT ![t] = blocked]
  /\ UNCHANGED <<cnt, sem_queue, monitor, mtx, ngone, timeout, sloc>>

(* ReleaseSemaphore fails, and changes nothing, on a semaphore at its limit. *)
OpenGate == sem_gate' = 1

(* ... and a store, before the gate is opened again. *)
Register(t) ==
  /\ Goto(t, "register", "unlock")
  /\ blocked' = seen[t] + 1
  /\ OpenGate
  /\ UNCHANGED <<gone, to_unblock, sem_queue, monitor, mtx, wloc, sloc>>

WaitUnlock(t) ==
  /\ Goto(t, "unlock", "queue")
  /\ mtx' = Free
  /\ UNCHANGED <<cnt, sems, monitor, wloc, sloc>>

TakeToken(t) ==
  /\ Goto(t, "queue", "account")
  /\ sem_queue > 0 /\ sem_queue' = sem_queue - 1
  /\ timeout' = [timeout EXCEPT ![t] = FALSE]
  /\ UNCHANGED <<cnt, sem_gate, monitor, mtx, seen, ngone, sloc>>

WaitTimeout(t) ==
  /\ Timed
  /\ Goto(t, "queue", "account")
  /\ timeout' = [timeout EXCEPT ![t] = TRUE]
  /\ UNCHANGED <<cnt, sems, monitor, mtx, seen, ngone, sloc>>

(* Mutant: a thread that did get a token is also counted as gone. *)
AccountWithoutTimeoutTest(t) ==
  LET blocked1 == IF blocked # 0 THEN blocked - 1 ELSE blocked
      gone1    == IF blocked = 0 THEN gone + 1 ELSE gone
      last     == to_unblock = 1
      nleft1   == IF last /\ blocked1 # 0 THEN 0 ELSE to_unblock
  IN
  /\ monitor = Free
  /\ to_unblock # 0
  /\ Goto(t, "account", IF nleft1 = 1 THEN "drain" ELSE "relock")
  /\ to_unblock' = to_unblock - 1
  /\ blocked' = blocked1
  /\ gone' = IF last /\ blocked1 = 0 THEN 0 ELSE gone1
  /\ ngone' = [ngone EXCEPT ![t] = IF last /\ blocked1 = 0 THEN gone1 ELSE 0]
  /\ IF last /\ blocked1 # 0 THEN OpenGate ELSE UNCHANGED sem_gate
  /\ UNCHANGED <<sem_queue, monitor, mtx, seen, timeout, sloc>>

(***************************************************************************)
(* Under the monitor, while threads are being unblocked: a thread that     *)
(* timed out corrects blocked or gone; the last one to be unblocked opens  *)
(* the gate, at once if others are blocked, otherwise after it has drained *)
(* the tokens of the threads that are gone.                                *)
(***************************************************************************)
AccountUnblocked(t) ==
  LET blocked1 == IF timeout[t] /\ blocked # 0 THEN blocked - 1 ELSE blocked
      gone1    == IF timeout[t] /\ blocked = 0 THEN gone + 1 ELSE gone
      last     == to_unblock = 1
      nleft1   == IF last /\ blocked1 # 0 THEN 0 ELSE to_unblock
  IN
  /\ monitor = Free
  /\ to_unblock # 0
  /\ Goto(t, "account", IF nleft1 = 1 THEN "drain" ELSE "relock")
  /\ to_unblock' = to_unblock - 1
  /\ blocked' = blocked1
  /\ gone' = IF last /\ blocked1 = 0 THEN 0 ELSE gone1
  /\ ngone' = [ngone EXCEPT ![t] = IF last /\ blocked1 = 0 THEN gone1 ELSE 0]
  /\ IF last /\ blocked1 # 0 THEN OpenGate ELSE UNCHANGED sem_gate
  /\ UNCHANGED <<sem_queue, monitor, mtx, seen, timeout, sloc>>

(* Mutant: gone++ in place of ++gone. *)
AccountGoneLate(t) ==
  /\ monitor = Free
  /\ to_unblock = 0
  /\ gone' = gone + 1
  /\ \/ /\ gone # GoneLimit
        /\ Goto(t, "account", "relock")
        /\ UNCHANGED monitor
     \/ /\ gone = GoneLimit
        /\ Goto(t, "account", "overflow")
        /\ monitor' = t
  /\ UNCHANGED <<blocked, to_unblock, sems, mtx, wloc, sloc>>

(* Nobody is being unblocked: the thread is only counted as gone. *)
AccountGone(t) ==
  /\ monitor = Free
  /\ to_unblock = 0
  /\ gone' = gone + 1
  /\ \/ /\ gone + 1 # GoneLimit
        /\ Goto(t, "account", "relock")
        /\ UNCHANGED monitor
     \/ /\ gone + 1 = GoneLimit
        /\ Goto(t, "account", "overflow")
        /\ monitor' = t
  /\ UNCHANGED <<blocked, to_unblock, sems, mtx, wloc, sloc>>

(* Mutant: gone is not reset after it was settled. *)
SettleKeepsGone(t) ==
  /\ Goto(t, "overflow", "relock")
  /\ sem_gate > 0
  /\ blocked' = blocked - gone
  /\ OpenGate
  /\ monitor' = Free
  /\ UNCHANGED <<gone, to_unblock, sem_queue, mtx, wloc, sloc>>

(* gone has reached its limit: it is settled against blocked. *)
SettleGone(t) ==
  /\ Goto(t, "overflow", "relock")
  /\ sem_gate > 0
  /\ blocked' = blocked - gone
  /\ gone' = 0
  /\ OpenGate
  /\ monitor' = Free
  /\ UNCHANGED <<to_unblock, sem_queue, mtx, wloc, sloc>>

DrainToken(t) ==
  /\ Goto(t, "drain", "drain")
  /\ ngone[t] > 0 /\ ngone' = [ngone EXCEPT ![t] = @ - 1]
  /\ sem_queue > 0 /\ sem_queue' = sem_queue - 1
  /\ UNCHANGED <<cnt, sem_gate, monitor, mtx, seen, timeout, sloc>>

(* Mutant: the last thread to be unblocked leaves the gate closed. *)
DrainLeavesGate(t) ==
  /\ Goto(t, "drain", "relock")
  /\ ngone[t] = 0
  /\ UNCHANGED <<cnt, sems, monitor, mtx, wloc, sloc>>

DrainDone(t) ==
  /\ Goto(t, "drain", "relock")
  /\ ngone[t] = 0
  /\ OpenGate
  /\ UNCHANGED <<cnt, sem_queue, monitor, mtx, wloc, sloc>>

WaitRelock(t) ==
  /\ Goto(t, "relock", "in")
  /\ mtx = Free /\ mtx' = t
  /\ UNCHANGED <<cnt, sems, monitor, wloc, sloc>>

(* The steps inside the wait, which follow one another without the caller. *)
WaitStep(t) ==
  \/ TakeGate(t) \/ Register(t) \/ WaitUnlock(t) \/ TakeToken(t)
  \/ AccountUnblocked(t) \/ AccountGone(t) \/ SettleGone(t)
  \/ DrainToken(t) \/ DrainDone(t) \/ WaitRelock(t)

-----------------------------------------------------------------------------
(***************************************************************************)
(* impl_cond_do_signal; all is TRUE for cnd_broadcast.                     *)
(***************************************************************************)

(* Nobody to unblock: the call returns and changes nothing. *)
SignalNobody ==
  /\ monitor = Free
  /\ IF to_unblock # 0 THEN blocked = 0 ELSE blocked <= gone
  /\ UNCHANGED vars

(* The gate is already closed: more of the blocked threads join in. *)
SignalMore(s, all) ==
  LET n == IF all THEN blocked ELSE 1 IN
  /\ monitor = Free
  /\ to_unblock # 0 /\ blocked # 0
  /\ Goto(s, "idle", "post")
  /\ nsignal' = [nsignal EXCEPT ![s] = n]
  /\ to_unblock' = to_unblock + n
  /\ blocked' = blocked - n
  /\ UNCHANGED <<gone, sems, monitor, mtx, wloc, broadcast>>

(* Somebody seems to be blocked: wait for the gate, holding the monitor. *)
SignalFirst(s, all) ==
  /\ monitor = Free
  /\ to_unblock = 0 /\ blocked > gone
  /\ Goto(s, "idle", "close")
  /\ monitor' = s
  /\ broadcast' = [broadcast EXCEPT ![s] = all]
  /\ UNCHANGED <<cnt, sems, mtx, wloc, nsignal>>

(* Mutant: a signal clears blocked, as a broadcast does. *)
CloseGateForgets(s) ==
  LET n == IF broadcast[s] THEN blocked - gone ELSE 1 IN
  /\ Goto(s, "close", "post")
  /\ sem_gate > 0 /\ sem_gate' = sem_gate - 1
  /\ nsignal' = [nsignal EXCEPT ![s] = n]
  /\ to_unblock' = n
  /\ blocked' = 0
  /\ gone' = 0
  /\ monitor' = Free
  /\ UNCHANGED <<sem_queue, mtx, wloc, broadcast>>

(* Mutant: the gate is waited for but opened again at once. *)
CloseGateNot(s) ==
  LET n == IF broadcast[s] THEN blocked - gone ELSE 1 IN
  /\ Goto(s, "close", "post")
  /\ sem_gate > 0
  /\ nsignal' = [nsignal EXCEPT ![s] = n]
  /\ to_unblock' = n
  /\ blocked' = blocked - gone - n
  /\ gone' = 0
  /\ monitor' = Free
  /\ UNCHANGED <<sems, mtx, wloc, broadcast>>

(* The gate stays closed until the last thread has been unblocked. *)
CloseGate(s) ==
  LET n == IF broadcast[s] THEN blocked - gone ELSE 1 IN
  /\ Goto(s, "close", "post")
  /\ sem_gate > 0 /\ sem_gate' = sem_gate - 1
  /\ nsignal' = [nsignal EXCEPT ![s] = n]
  /\ to_unblock' = n
  /\ blocked' = blocked - gone - n
  /\ gone' = 0
  /\ monitor' = Free
  /\ UNCHANGED <<sem_queue, mtx, wloc, broadcast>>

(* Mutant: one token, also for a broadcast. *)
PostOneToken(s) ==
  /\ Goto(s, "post", "idle")
  /\ sem_queue' = sem_queue + 1
  /\ nsignal' = [nsignal EXCEPT ![s] = 0]
  /\ UNCHANGED <<cnt, sem_gate, monitor, mtx, wloc, broadcast>>

PostTokens(s) ==
  /\ Goto(s, "post", "idle")
  /\ sem_queue' = sem_queue + nsignal[s]
  /\ nsignal' = [nsignal EXCEPT ![s] = 0]
  /\ UNCHANGED <<cnt, sem_gate, monitor, mtx, wloc, broadcast>>

SignalStep(s) == CloseGate(s) \/ PostTokens(s)
SignalCall(s) ==
  \/ \E all \in Kinds : SignalMore(s, all) \/ SignalFirst(s, all)
  \/ pc[s] = "idle" /\ SignalNobody

Next ==
  \/ \E t \in Waiters : \/ MtxLock(t) \/ MtxUnlock(t) \/ CallWait(t)
                        \/ WaitStep(t) \/ WaitTimeout(t)
  \/ \E s \in Signallers : SignalStep(s) \/ SignalCall(s)

Spec == Init /\ [][Next]_vars

(***************************************************************************)
(* Threads inside a call go on; a thread blocked on the mutex, the gate or *)
(* the monitor gets it if it becomes free again and again; a caller that   *)
(* holds the mutex goes on too, by waiting or by unlocking.                *)
(***************************************************************************)
Fairness ==
  /\ \A t \in Waiters :
       /\ WF_vars(WaitStep(t)) /\ WF_vars(MtxUnlock(t) \/ CallWait(t))
       /\ SF_vars(TakeGate(t)) /\ SF_vars(AccountUnblocked(t))
       /\ SF_vars(AccountGone(t)) /\ SF_vars(SettleGone(t))
       /\ SF_vars(WaitRelock(t)) /\ SF_vars(TakeToken(t))
  /\ \A s \in Signallers : WF_vars(SignalStep(s)) /\ SF_vars(CloseGate(s))

(* A timed wait does time out. *)
TimeoutFairness == \A t \in Waiters : WF_vars(WaitTimeout(t))

FairSpec  == Spec /\ Fairness
TimedSpec == FairSpec /\ TimeoutFairness

-----------------------------------------------------------------------------
(* Counters and semaphores stay in range; gone is settled at its limit. *)
TypeOK ==
  /\ blocked \in Int /\ gone \in 0..GoneLimit /\ to_unblock \in Nat
  /\ sem_queue \in Nat /\ sem_gate \in {0, 1}
  /\ monitor \in Waiters \union Signallers \union {Free}
  /\ mtx \in Waiters \union {Free}
  /\ pc \in [Waiters \union Signallers -> WaiterPC \union SignallerPC]
  /\ seen \in [Waiters -> Int]
  /\ ngone \in [Waiters -> Nat] /\ timeout \in [Waiters -> BOOLEAN]
  /\ nsignal \in [Signallers -> Nat] /\ broadcast \in [Signallers -> BOOLEAN]

(* The threads that have registered and not yet been woken. *)
Waiting == {t \in Waiters : pc[t] \in {"unlock", "queue"}}

(* Nothing is on its way: no token, no thread that still has to account. *)
Settled ==
  /\ to_unblock = 0 /\ sem_queue = 0
  /\ \A t \in Waiters : pc[t] \notin {"account", "overflow", "drain", "register"}
  /\ \A s \in Signallers : pc[s] = "idle"

(***************************************************************************)
(* When nothing is on its way and a thread waits, the next signal or       *)
(* broadcast does not pass it by: blocked exceeds gone.                    *)
(***************************************************************************)
SignalFindsWaiters == (Settled /\ Waiting # {}) => blocked > gone

(***************************************************************************)
(* A thread that drains tokens before it opens the gate still has somebody *)
(* who can bring it one.  Otherwise the gate stays closed for good: every  *)
(* later wait hangs at the gate, holding the mutex.                        *)
(***************************************************************************)
DrainEnds ==
  \A t \in Waiters :
    (pc[t] = "drain" /\ ngone[t] > 0) =>
      \/ sem_queue > 0 \/ to_unblock > 0 \/ blocked > gone
      \/ \E s \in Signallers : pc[s] # "idle"

(* A wakeup that a signal has granted and no thread has taken yet. *)
Granted == to_unblock - Cardinality({t \in Waiters : pc[t] = "account"})

(* Every grant is taken: neither tokens nor threads get stuck on the way. *)
GrantsAreTaken == Granted > 0 ~> Granted = 0

(* A thread that begins to wait passes the gate and releases the mutex. *)
GateOpens == \A t \in Waiters : pc[t] = "gate" ~> pc[t] = "queue"

(* A timed wait returns, with or without a signal. *)
WaitReturns == \A t \in Waiters : pc[t] = "gate" ~> pc[t] = "in"

(* Without timeouts, the semaphores and counters are a condition variable. *)
Cond == INSTANCE CondVar WITH waiting <- Waiting, granted <- Granted
ImplementsCondVar == Cond!CSpec
=============================================================================
