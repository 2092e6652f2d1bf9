--------------------------- MODULE CallOnceProofs ---------------------------
(* Theorems about call_once, for any set of threads. *)
EXTENDS CallOnce, TLAPS

(***************************************************************************)
(* The status tells how far the one elected thread is; nobody else is ever *)
(* in func or about to publish, and nobody spins before the election.      *)
(***************************************************************************)
Elected(t) == pc[t] \in {"func", "publish"}

OnceInv ==
  /\ \A t, u \in Threads : Elected(t) /\ Elected(u) => t = u
  /\ \A t \in Threads : Elected(t) => status = 1
  /\ \A t \in Threads : pc[t] = "func" => finished = {}
  /\ \A t \in Threads : pc[t] = "publish" => finished # {}
  /\ \A t \in Threads : pc[t] = "spin" => status # 0
  /\ status = 0 => finished = {}
  /\ status = 2 => finished # {}

IInv == TypeOK /\ OnceInv

LEMMA InitInv == Init => IInv
BY DEF Init, IInv, TypeOK, OnceInv, Elected

LEMMA NextInv == IInv /\ [Next]_vars => IInv'
<1> SUFFICES ASSUME IInv, [Next]_vars PROVE IInv'
  OBVIOUS
<1> USE DEF IInv, TypeOK, OnceInv, Elected, Goto
<1>1. ASSUME NEW t \in Threads, Elect(t) PROVE IInv'
  BY <1>1 DEF Elect
<1>2. ASSUME NEW t \in Threads, Func(t) PROVE IInv'
  <2>1. TypeOK'
    BY <1>2 DEF Func
  <2>2. finished' # {}
    BY <1>2 DEF Func
  <2>3. OnceInv'
    BY <1>2, <2>2 DEF Func
  <2> QED BY <2>1, <2>3
<1>3. ASSUME NEW t \in Threads, Publish(t) PROVE IInv'
  BY <1>3 DEF Publish
<1>4. ASSUME NEW t \in Threads, Spin(t) PROVE IInv'
  BY <1>4 DEF Spin
<1>5. CASE UNCHANGED vars
  BY <1>5 DEF vars
<1> QED
  BY <1>1, <1>2, <1>3, <1>4, <1>5 DEF Next, Step

(* The election and the busy loop of call_once keep the invariant. *)
THEOREM OnceCorrect == Spec => []IInv
<1> QED
  BY InitInv, NextInv, PTL DEF Spec

(* func is never called twice, nor by two threads at a time. *)
THEOREM FuncRunsOnce == Spec => []RunsOnce
<1>1. IInv => RunsOnce
  BY DEF IInv, OnceInv, RunsOnce, Elected
<1> QED
  BY <1>1, OnceCorrect, PTL

(* No call of call_once comes back before func has come to its end. *)
THEOREM NoEarlyReturn == Spec => ReturnsAfterFunc
<1> DEFINE Late == \A t \in Threads :
             (pc[t] # "outside" /\ pc'[t] = "outside") => finished # {}
<1>1. IInv /\ [Next]_vars => [Late]_vars
  <2> SUFFICES ASSUME IInv, Next, NEW t \in Threads, pc[t] # "outside",
                      pc'[t] = "outside"
               PROVE  finished # {}
    OBVIOUS
  <2>1. PICK u \in Threads : Elect(u) \/ Step(u)
    BY DEF Next
  <2>2. u = t
    BY <2>1 DEF Elect, Step, Func, Publish, Spin, Goto, IInv, TypeOK
  <2>3. Publish(t) \/ (Spin(t) /\ status # 1)
    BY <2>1, <2>2 DEF Elect, Step, Func, Publish, Spin, Goto, IInv, TypeOK
  <2> QED
    BY <2>3 DEF Publish, Spin, Goto, IInv, TypeOK, OnceInv
<1> QED
  BY <1>1, OnceCorrect, PTL DEF Spec, ReturnsAfterFunc
=============================================================================
