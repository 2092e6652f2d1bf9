------------------------------ MODULE CallOnce ------------------------------
(***************************************************************************)
(* call_once of src/include/compat-threads/threads_win32.h (the build      *)
(* without EMULATED_THREADS_USE_NATIVE_CALL_ONCE): one compare-and-swap    *)
(* elects the thread that calls func, the others spin on the status.       *)
(* Every thread may call it again on the same flag.                        *)
(***************************************************************************)
EXTENDS Naturals, FiniteSets

CONSTANT Threads

VARIABLES
  status,     \* flag->status: 0 not called, 1 being called, 2 called
  pc,         \* where each thread is in call_once
  finished    \* history: which threads have brought func to its end

vars == <<status, pc, finished>>

(* ONCE_FLAG_INIT *)
Init ==
  /\ status = 0
  /\ pc = [t \in Threads |-> "outside"]
  /\ finished = {}

Goto(t, from, to) == pc[t] = from /\ pc' = [pc EXCEPT ![t] = to]

(* Mutant: the status is read, and written only later. *)
ElectByLoad(t) ==
  /\ Goto(t, "outside", IF status = 0 THEN "func" ELSE "spin")
  /\ UNCHANGED <<status, finished>>

(* Mutant: the status says called as soon as a thread is elected. *)
ElectAsCalled(t) ==
  /\ Goto(t, "outside", IF status = 0 THEN "func" ELSE "spin")
  /\ status' = 2
  /\ UNCHANGED finished

(* InterlockedCompareExchange(&flag->status, 1, 0) *)
Elect(t) ==
  /\ Goto(t, "outside", IF status = 0 THEN "func" ELSE "spin")
  /\ status' = IF status = 0 THEN 1 ELSE status
  /\ UNCHANGED finished

Func(t) ==
  /\ Goto(t, "func", "publish")
  /\ finished' = finished \union {t}
  /\ UNCHANGED status

(* Mutant: the end of func is never published. *)
PublishNothing(t) ==
  /\ Goto(t, "publish", "outside")
  /\ UNCHANGED <<status, finished>>

(* InterlockedExchange(&flag->status, 2) *)
Publish(t) ==
  /\ Goto(t, "publish", "outside")
  /\ status' = 2
  /\ UNCHANGED finished

(* Mutant: a thread that was not elected does not wait. *)
SpinOnce(t) ==
  /\ Goto(t, "spin", "outside")
  /\ UNCHANGED <<status, finished>>

(* One round of the busy loop. *)
Spin(t) ==
  /\ Goto(t, "spin", IF status = 1 THEN "spin" ELSE "outside")
  /\ UNCHANGED <<status, finished>>

Step(t) == Func(t) \/ Publish(t) \/ Spin(t)

Next == \E t \in Threads : Elect(t) \/ Step(t)

Spec == Init /\ [][Next]_vars

(* A thread inside call_once is scheduled again and again. *)
FairSpec == Spec /\ \A t \in Threads : WF_vars(Step(t))

-----------------------------------------------------------------------------
(* The status takes the three values call_once knows. *)
TypeOK ==
  /\ status \in 0..2
  /\ pc \in [Threads -> {"outside", "func", "publish", "spin"}]
  /\ finished \subseteq Threads

(* func runs in one thread at a time and is never called a second time. *)
RunsOnce ==
  \A t, u \in Threads :
    /\ pc[t] = "func" => finished = {}
    /\ pc[t] = "func" /\ pc[u] = "func" => t = u

(***************************************************************************)
(* A thread comes back from call_once only when func has ended: leaving    *)
(* the call finds the one thread that has run it among the finished ones.  *)
(***************************************************************************)
ReturnsAfterFunc ==
  [][\A t \in Threads :
       (pc[t] # "outside" /\ pc'[t] = "outside") => finished # {}]_vars

(* Every call comes back. *)
CallReturns == \A t \in Threads : pc[t] # "outside" ~> pc[t] = "outside"
=============================================================================
