--------------------------- MODULE CondWin32Proofs ---------------------------
(***************************************************************************)
(* Theorems about the emulated condition variable, for any waiters and     *)
(* signallers.                                                             *)
(***************************************************************************)
EXTENDS CondWin32, FiniteSetTheorems, TLAPS

(* The threads that have registered and not yet accounted for their wakeup. *)
Enrolled   == {t \in Waiters : pc[t] \in {"unlock", "queue", "account"}}
Accounting == {t \in Waiters : pc[t] = "account"}

(* The tokens that signallers have still to post, numbered per signaller. *)
Pending == {p \in Signallers \X Nat : 1 <= p[2] /\ p[2] <= nsignal[p[1]]}

(***************************************************************************)
(* The gate is held by one thread that registers, or by the threads being  *)
(* unblocked together, or by the last of them while it drains; while a     *)
(* thread registers nobody changes blocked, so that its load and its store *)
(* of it are as good as one step.                                          *)
(***************************************************************************)
GateInv ==
  /\ sem_gate = 1 => to_unblock = 0
  /\ \A t \in Waiters : pc[t] \in {"register", "drain"} =>
       sem_gate = 0 /\ to_unblock = 0
  /\ \A t, u \in Waiters :
       pc[t] \in {"register", "drain"} /\ pc[u] \in {"register", "drain"} => t = u
  /\ \A t \in Waiters : pc[t] = "register" => seen[t] = blocked

(***************************************************************************)
(* Who waits for the gate holds the monitor, and what it has seen under it *)
(* still holds; gone is at its limit only while it is being settled.       *)
(***************************************************************************)
MonitorInv ==
  /\ \A s \in Signallers : pc[s] = "close" =>
       monitor = s /\ to_unblock = 0 /\ blocked > gone
  /\ \A t \in Waiters : pc[t] = "overflow" =>
       monitor = t /\ to_unblock = 0 /\ gone = GoneLimit
  /\ gone = GoneLimit => \E t \in Waiters : pc[t] = "overflow"

(***************************************************************************)
(* blocked exceeds gone by no more than the threads that are there, and    *)
(* while threads are being unblocked the counters together stay within the *)
(* number of threads, so that gone cannot pass its limit then.             *)
(***************************************************************************)
CountInv ==
  /\ blocked - gone + to_unblock <= Cardinality(Enrolled)
  /\ to_unblock > 0 =>
       /\ blocked >= 0
       /\ gone + to_unblock + blocked <= Cardinality(Waiters)
  /\ \A s \in Signallers : pc[s] # "post" => nsignal[s] = 0

CondInv == TypeOK /\ GateInv /\ MonitorInv /\ CountInv

(***************************************************************************)
(* Without timeouts nobody is ever gone, blocked and to_unblock count the  *)
(* enrolled threads exactly, and to_unblock counts the wakeups on their    *)
(* way: tokens to be posted, tokens posted, and threads with a token.      *)
(***************************************************************************)
ExactInv ==
  /\ gone = 0 /\ \A t \in Waiters : ~ timeout[t]
  /\ Cardinality(Enrolled) = blocked + to_unblock
  /\ IsFiniteSet(Pending)
  /\ Cardinality(Accounting) + sem_queue + Cardinality(Pending) = to_unblock

-----------------------------------------------------------------------------
(* What a step of one thread does to the sets of threads. *)
LEMMA WaiterMoves ==
  ASSUME pc \in [Waiters \union Signallers -> WaiterPC \union SignallerPC],
         NEW t \in Waiters, NEW to, pc' = [pc EXCEPT ![t] = to]
  PROVE  /\ Enrolled' = IF to \in {"unlock", "queue", "account"}
                          THEN Enrolled \union {t} ELSE Enrolled \ {t}
         /\ Accounting' = IF to = "account"
                            THEN Accounting \union {t} ELSE Accounting \ {t}
         /\ Waiting' = IF to \in {"unlock", "queue"}
                         THEN Waiting \union {t} ELSE Waiting \ {t}
<1>1. \A u \in Waiters : pc'[u] = IF u = t THEN to ELSE pc[u]
  OBVIOUS
<1> QED
  BY <1>1 DEF Enrolled, Accounting, Waiting

LEMMA SignallerMoves ==
  ASSUME pc \in [Waiters \union Signallers -> WaiterPC \union SignallerPC],
         NEW s \in Signallers, NEW to, pc' = [pc EXCEPT ![s] = to]
  PROVE  Enrolled' = Enrolled /\ Accounting' = Accounting /\ Waiting' = Waiting
<1>1. \A u \in Waiters : pc'[u] = pc[u]
  BY CondAssumption
<1> QED
  BY <1>1 DEF Enrolled, Accounting, Waiting

(* The sets of threads are finite, and can be counted. *)
LEMMA Counted ==
  ASSUME NEW S \in SUBSET Waiters
  PROVE  /\ IsFiniteSet(S) /\ Cardinality(S) \in Nat
         /\ Cardinality(S) <= Cardinality(Waiters) /\ Cardinality(Waiters) \in Nat
BY CondAssumption, FS_Subset, FS_CardinalityType

LEMMA CountGain ==
  ASSUME NEW S \in SUBSET Waiters, NEW t \in Waiters, t \notin S
  PROVE  Cardinality(S \union {t}) = Cardinality(S) + 1
BY Counted, FS_AddElement

LEMMA CountLoss ==
  ASSUME NEW S \in SUBSET Waiters, NEW t \in S
  PROVE  Cardinality(S \ {t}) = Cardinality(S) - 1
BY Counted, FS_RemoveElement

(* How many threads are enrolled after a step of a waiter. *)
LEMMA EnrolledCount ==
  ASSUME pc \in [Waiters \union Signallers -> WaiterPC \union SignallerPC],
         NEW t \in Waiters, NEW to, pc' = [pc EXCEPT ![t] = to]
  PROVE  LET in == {"unlock", "queue", "account"} IN
         /\ (pc[t] \in in <=> to \in in)
              => Cardinality(Enrolled') = Cardinality(Enrolled)
         /\ pc[t] \notin in /\ to \in in
              => Cardinality(Enrolled') = Cardinality(Enrolled) + 1
         /\ pc[t] \in in /\ to \notin in
              => Cardinality(Enrolled') = Cardinality(Enrolled) - 1
<1> DEFINE in == {"unlock", "queue", "account"}
<1>1. Enrolled \in SUBSET Waiters /\ (t \in Enrolled <=> pc[t] \in in)
  BY DEF Enrolled
<1>2. Enrolled' = IF to \in in THEN Enrolled \union {t} ELSE Enrolled \ {t}
  BY WaiterMoves
<1> HIDE DEF in
<1>3. (pc[t] \in in <=> to \in in) => Enrolled' = Enrolled
  BY <1>1, <1>2
<1>4. pc[t] \notin in /\ to \in in
        => Cardinality(Enrolled') = Cardinality(Enrolled) + 1
  BY <1>1, <1>2, CountGain
<1>5. pc[t] \in in /\ to \notin in
        => Cardinality(Enrolled') = Cardinality(Enrolled) - 1
  BY <1>1, <1>2, CountLoss
<1> QED
  BY <1>3, <1>4, <1>5 DEF in

LEMMA AccountingCount ==
  ASSUME pc \in [Waiters \union Signallers -> WaiterPC \union SignallerPC],
         NEW t \in Waiters, NEW to, pc' = [pc EXCEPT ![t] = to]
  PROVE  /\ (pc[t] = "account" <=> to = "account")
              => Cardinality(Accounting') = Cardinality(Accounting)
         /\ pc[t] # "account" /\ to = "account"
              => Cardinality(Accounting') = Cardinality(Accounting) + 1
         /\ pc[t] = "account" /\ to # "account"
              => Cardinality(Accounting') = Cardinality(Accounting) - 1
<1>1. Accounting \in SUBSET Waiters /\ (t \in Accounting <=> pc[t] = "account")
  BY DEF Accounting
<1>2. Accounting' = IF to = "account" THEN Accounting \union {t} ELSE Accounting \ {t}
  BY WaiterMoves
<1>3. (pc[t] = "account" <=> to = "account") => Accounting' = Accounting
  BY <1>1, <1>2
<1>4. pc[t] # "account" /\ to = "account"
        => Cardinality(Accounting') = Cardinality(Accounting) + 1
  BY <1>1, <1>2, CountGain
<1>5. pc[t] = "account" /\ to # "account"
        => Cardinality(Accounting') = Cardinality(Accounting) - 1
  BY <1>1, <1>2, CountLoss
<1> QED
  BY <1>3, <1>4, <1>5

LEMMA CondInitInv == Init => CondInv
<1> SUFFICES ASSUME Init PROVE CondInv
  OBVIOUS
<1>1. TypeOK
  BY CondAssumption DEF Init, TypeOK, WaiterPC, SignallerPC
<1>2. GateInv /\ MonitorInv
  BY CondAssumption DEF Init, GateInv, MonitorInv
<1>3. Cardinality(Enrolled) >= 0
  <2>1. Enrolled \in SUBSET Waiters
    BY DEF Enrolled
  <2> QED
    BY <2>1, Counted
<1>4. CountInv
  BY <1>3 DEF Init, CountInv
<1> QED
  BY <1>1, <1>2, <1>4 DEF CondInv

(* Types are kept; gone, because it is settled at its limit. *)
LEMMA TypeNext == CondInv /\ [Next]_vars => TypeOK'
<1> SUFFICES ASSUME CondInv, [Next]_vars PROVE TypeOK'
  OBVIOUS
<1> USE CondAssumption DEF CondInv, TypeOK, Goto, WaiterPC, SignallerPC,
                           cnt, sems, wloc, sloc
<1>1. ASSUME NEW t \in Waiters,
             MtxLock(t) \/ MtxUnlock(t) \/ CallWait(t) \/ WaitUnlock(t) \/ WaitRelock(t)
      PROVE  TypeOK'
  BY <1>1 DEF MtxLock, MtxUnlock, CallWait, WaitUnlock, WaitRelock
<1>2. ASSUME NEW t \in Waiters, TakeGate(t) PROVE TypeOK'
  BY <1>2 DEF TakeGate
<1>3. ASSUME NEW t \in Waiters, Register(t) PROVE TypeOK'
  BY <1>3 DEF Register, OpenGate
<1>4. ASSUME NEW t \in Waiters, TakeToken(t) \/ WaitTimeout(t) PROVE TypeOK'
  <2>1. CASE TakeToken(t)
    <3>1. timeout' \in [Waiters -> BOOLEAN] /\ sem_queue' \in Nat
      BY <2>1 DEF TakeToken
    <3> QED
      BY <2>1, <3>1 DEF TakeToken
  <2>2. CASE WaitTimeout(t)
    <3>1. timeout' \in [Waiters -> BOOLEAN]
      BY <2>2 DEF WaitTimeout
    <3> QED
      BY <2>2, <3>1 DEF WaitTimeout
  <2> QED
    BY <1>4, <2>1, <2>2
<1>5. ASSUME NEW t \in Waiters, AccountUnblocked(t) PROVE TypeOK'
  <2>1. /\ to_unblock > 0 /\ gone + to_unblock + blocked <= Cardinality(Waiters)
        /\ blocked >= 0 /\ Cardinality(Waiters) \in Nat
    BY <1>5, FS_CardinalityType DEF AccountUnblocked, CountInv
  <2>2. gone + 1 \in 0..GoneLimit /\ to_unblock - 1 \in Nat
    BY <2>1
  <2>3. /\ gone' \in 0..GoneLimit /\ to_unblock' \in Nat /\ blocked' \in Int
        /\ sem_gate' \in {0, 1}
    BY <1>5, <2>2 DEF AccountUnblocked, OpenGate
  <2>4. ngone' \in [Waiters -> Nat]
    BY <1>5, <2>2 DEF AccountUnblocked
  <2>5. pc' \in [Waiters \union Signallers -> WaiterPC \union SignallerPC]
    BY <1>5 DEF AccountUnblocked
  <2> QED
    BY <1>5, <2>3, <2>4, <2>5 DEF AccountUnblocked
<1>6. ASSUME NEW t \in Waiters, AccountGone(t) PROVE TypeOK'
  <2>1. gone # GoneLimit
    BY <1>6, FreeAssumption DEF AccountGone, MonitorInv
  <2>2. gone' \in 0..GoneLimit
    BY <1>6, <2>1 DEF AccountGone
  <2> QED
    BY <1>6, <2>2 DEF AccountGone
<1>7. ASSUME NEW t \in Waiters, SettleGone(t) PROVE TypeOK'
  BY <1>7 DEF SettleGone, OpenGate
<1>8. ASSUME NEW t \in Waiters, DrainToken(t) \/ DrainDone(t) PROVE TypeOK'
  BY <1>8 DEF DrainToken, DrainDone, OpenGate
<1>9. ASSUME NEW s \in Signallers, NEW all \in Kinds, SignalMore(s, all) PROVE TypeOK'
  <2>1. blocked \in Nat
    BY <1>9 DEF SignalMore, CountInv
  <2>2. /\ nsignal' \in [Signallers -> Nat] /\ to_unblock' \in Nat
        /\ blocked' \in Int
    BY <1>9, <2>1 DEF SignalMore
  <2>3. pc' \in [Waiters \union Signallers -> WaiterPC \union SignallerPC]
    BY <1>9 DEF SignalMore
  <2> QED
    BY <1>9, <2>2, <2>3 DEF SignalMore
<1>10. ASSUME NEW s \in Signallers, NEW all \in Kinds, SignalFirst(s, all) PROVE TypeOK'
  BY <1>10 DEF SignalFirst
<1>11. ASSUME NEW s \in Signallers, CloseGate(s) PROVE TypeOK'
  <2>1. blocked - gone \in Nat
    BY <1>11 DEF CloseGate, MonitorInv
  <2> QED
    BY <1>11, <2>1 DEF CloseGate
<1>12. ASSUME NEW s \in Signallers, PostTokens(s) PROVE TypeOK'
  BY <1>12 DEF PostTokens
<1>13. CASE UNCHANGED vars
  BY <1>13 DEF vars
<1> QED
  BY <1>1, <1>2, <1>3, <1>4, <1>5, <1>6, <1>7, <1>8, <1>9, <1>10, <1>11, <1>12, <1>13
     DEF Next, WaitStep, SignalStep, SignalCall, SignalNobody

(* The gate: what opens it has it, and nobody else does. *)
LEMMA GateNext == CondInv /\ [Next]_vars => GateInv'
<1> SUFFICES ASSUME CondInv, [Next]_vars PROVE GateInv'
  OBVIOUS
<1> USE CondAssumption DEF CondInv, GateInv, Goto
<1>0. /\ sem_gate \in {0, 1} /\ to_unblock \in Nat
      /\ pc \in [Waiters \union Signallers -> WaiterPC \union SignallerPC]
      /\ seen \in [Waiters -> Int]
  BY DEF TypeOK
<1>1. ASSUME NEW t \in Waiters,
             MtxLock(t) \/ MtxUnlock(t) \/ CallWait(t) \/ WaitUnlock(t) \/ WaitRelock(t)
      PROVE  GateInv'
  BY <1>0, <1>1 DEF MtxLock, MtxUnlock, CallWait, WaitUnlock, WaitRelock, cnt, sems, wloc
<1>2. ASSUME NEW t \in Waiters, TakeGate(t) PROVE GateInv'
  BY <1>0, <1>2 DEF TakeGate, cnt
<1>3. ASSUME NEW t \in Waiters, Register(t) PROVE GateInv'
  BY <1>0, <1>3 DEF Register, OpenGate, wloc
<1>4. ASSUME NEW t \in Waiters, TakeToken(t) \/ WaitTimeout(t) PROVE GateInv'
  BY <1>0, <1>4 DEF TakeToken, WaitTimeout, cnt, sems
<1>5. ASSUME NEW t \in Waiters, AccountUnblocked(t) PROVE GateInv'
  BY <1>0, <1>5 DEF AccountUnblocked, OpenGate
<1>6. ASSUME NEW t \in Waiters, AccountGone(t) PROVE GateInv'
  BY <1>0, <1>6 DEF AccountGone, sems, wloc
<1>7. ASSUME NEW t \in Waiters, SettleGone(t) PROVE GateInv'
  BY <1>0, <1>7 DEF SettleGone, OpenGate, wloc
<1>8. ASSUME NEW t \in Waiters, DrainToken(t) \/ DrainDone(t) PROVE GateInv'
  BY <1>0, <1>8 DEF DrainToken, DrainDone, OpenGate, cnt, wloc
<1>9. ASSUME NEW s \in Signallers, NEW all \in Kinds, SignalMore(s, all) PROVE GateInv'
  BY <1>0, <1>9 DEF SignalMore, sems, wloc
<1>10. ASSUME NEW s \in Signallers, NEW all \in Kinds, SignalFirst(s, all) PROVE GateInv'
  BY <1>0, <1>10 DEF SignalFirst, cnt, sems, wloc
<1>11. ASSUME NEW s \in Signallers, CloseGate(s) PROVE GateInv'
  BY <1>0, <1>11 DEF CloseGate, wloc
<1>12. ASSUME NEW s \in Signallers, PostTokens(s) PROVE GateInv'
  BY <1>0, <1>12 DEF PostTokens, cnt, wloc
<1>13. CASE UNCHANGED vars
  BY <1>13 DEF vars, cnt, sems, wloc
<1> QED
  BY <1>1, <1>2, <1>3, <1>4, <1>5, <1>6, <1>7, <1>8, <1>9, <1>10, <1>11, <1>12, <1>13
     DEF Next, WaitStep, SignalStep, SignalCall, SignalNobody

(* Under the monitor: what a thread found there stays until it has the gate. *)
LEMMA MonitorNext == CondInv /\ [Next]_vars => MonitorInv'
<1> SUFFICES ASSUME CondInv, [Next]_vars PROVE MonitorInv'
  OBVIOUS
<1> USE CondAssumption, FreeAssumption DEF CondInv, MonitorInv, Goto
<1>0. /\ to_unblock \in Nat /\ gone \in 0..GoneLimit /\ blocked \in Int
      /\ pc \in [Waiters \union Signallers -> WaiterPC \union SignallerPC]
  BY DEF TypeOK
<1>1. ASSUME NEW t \in Waiters,
             MtxLock(t) \/ MtxUnlock(t) \/ CallWait(t) \/ WaitUnlock(t) \/ WaitRelock(t)
      PROVE  MonitorInv'
  BY <1>0, <1>1 DEF MtxLock, MtxUnlock, CallWait, WaitUnlock, WaitRelock, cnt
<1>2. ASSUME NEW t \in Waiters, TakeGate(t) PROVE MonitorInv'
  BY <1>0, <1>2 DEF TakeGate, cnt
<1>3. ASSUME NEW t \in Waiters, Register(t) PROVE MonitorInv'
  <2>1. blocked' = blocked + 1
    BY <1>3 DEF Register, GateInv
  <2> QED
    BY <1>0, <1>3, <2>1 DEF Register
<1>4. ASSUME NEW t \in Waiters, TakeToken(t) \/ WaitTimeout(t) PROVE MonitorInv'
  BY <1>0, <1>4 DEF TakeToken, WaitTimeout, cnt
<1>5. ASSUME NEW t \in Waiters, AccountUnblocked(t) PROVE MonitorInv'
  <2>1. gone' # GoneLimit
    <3>1. /\ gone + to_unblock + blocked <= Cardinality(Waiters)
          /\ to_unblock > 0 /\ blocked >= 0 /\ Cardinality(Waiters) \in Nat
      BY <1>0, <1>5, FS_CardinalityType DEF AccountUnblocked, CountInv
    <3> DEFINE N == Cardinality(Waiters)
    <3>2. N < GoneLimit /\ N \in Nat /\ gone + to_unblock + blocked <= N
      BY <3>1
    <3> HIDE DEF N
    <3>3. gone' \in {0, gone, gone + 1} /\ gone + 1 < GoneLimit
      BY <1>0, <1>5, <3>1, <3>2 DEF AccountUnblocked
    <3> QED
      BY <1>0, <3>3
  <2> QED
    BY <1>0, <1>5, <2>1 DEF AccountUnblocked
<1>6. ASSUME NEW t \in Waiters, AccountGone(t) PROVE MonitorInv'
  BY <1>0, <1>6 DEF AccountGone
<1>7. ASSUME NEW t \in Waiters, SettleGone(t) PROVE MonitorInv'
  BY <1>0, <1>7 DEF SettleGone
<1>8. ASSUME NEW t \in Waiters, DrainToken(t) \/ DrainDone(t) PROVE MonitorInv'
  BY <1>0, <1>8 DEF DrainToken, DrainDone, cnt
<1>9. ASSUME NEW s \in Signallers, NEW all \in Kinds, SignalMore(s, all) PROVE MonitorInv'
  BY <1>0, <1>9 DEF SignalMore
<1>10. ASSUME NEW s \in Signallers, NEW all \in Kinds, SignalFirst(s, all)
       PROVE  MonitorInv'
  BY <1>0, <1>10 DEF SignalFirst, cnt
<1>11. ASSUME NEW s \in Signallers, CloseGate(s) PROVE MonitorInv'
  BY <1>0, <1>11 DEF CloseGate
<1>12. ASSUME NEW s \in Signallers, PostTokens(s) PROVE MonitorInv'
  BY <1>0, <1>12 DEF PostTokens, cnt
<1>13. CASE UNCHANGED vars
  BY <1>13 DEF vars, cnt
<1> QED
  BY <1>1, <1>2, <1>3, <1>4, <1>5, <1>6, <1>7, <1>8, <1>9, <1>10, <1>11, <1>12, <1>13
     DEF Next, WaitStep, SignalStep, SignalCall, SignalNobody

(* The counters: every change of one is matched by another or by a thread. *)
LEMMA CountNext == CondInv /\ [Next]_vars => CountInv'
<1> SUFFICES ASSUME CondInv, [Next]_vars PROVE CountInv'
  OBVIOUS
<1> DEFINE E == Cardinality(Enrolled)  W == Cardinality(Waiters)
<1>0. /\ to_unblock \in Nat /\ gone \in 0..GoneLimit /\ blocked \in Int
      /\ GoneLimit \in Nat
      /\ sem_gate \in {0, 1} /\ nsignal \in [Signallers -> Nat]
      /\ pc \in [Waiters \union Signallers -> WaiterPC \union SignallerPC]
  BY CondAssumption DEF CondInv, TypeOK
<1>a. E \in Nat /\ W \in Nat /\ E <= W
  <2>1. Enrolled \in SUBSET Waiters
    BY DEF Enrolled
  <2> QED
    BY <2>1, Counted
<1>b. Waiters \intersect Signallers = {} /\ W' = W
  BY CondAssumption
<1>c. /\ blocked - gone + to_unblock <= E
      /\ to_unblock > 0 => blocked >= 0 /\ gone + to_unblock + blocked <= W
      /\ \A s \in Signallers : pc[s] # "post" => nsignal[s] = 0
  BY DEF CondInv, CountInv
<1>d. ASSUME NEW t \in Waiters, NEW to, pc' = [pc EXCEPT ![t] = to],
             nsignal' = nsignal,
             blocked' - gone' + to_unblock' <= E',
             to_unblock' > 0 => blocked' >= 0 /\ gone' + to_unblock' + blocked' <= W
      PROVE  CountInv'
  BY <1>0, <1>b, <1>c, <1>d DEF CountInv
<1>e. ASSUME NEW s \in Signallers, NEW to, pc' = [pc EXCEPT ![s] = to],
             to # "post" => nsignal'[s] = 0,
             \A r \in Signallers \ {s} : nsignal'[r] = nsignal[r],
             blocked' - gone' + to_unblock' <= E,
             to_unblock' > 0 => blocked' >= 0 /\ gone' + to_unblock' + blocked' <= W
      PROVE  CountInv'
  <2>1. E' = E
    BY <1>0, <1>e, SignallerMoves
  <2>2. \A r \in Signallers : pc'[r] # "post" => nsignal'[r] = 0
    BY <1>0, <1>c, <1>e
  <2> QED
    BY <1>b, <1>e, <2>1, <2>2 DEF CountInv
<1> USE DEF Goto
<1>1. ASSUME NEW t \in Waiters,
             \/ MtxLock(t) \/ MtxUnlock(t) \/ CallWait(t) \/ WaitUnlock(t)
             \/ WaitRelock(t) \/ TakeGate(t) \/ TakeToken(t) \/ WaitTimeout(t)
             \/ DrainToken(t) \/ DrainDone(t)
      PROVE  CountInv'
  <2>1. PICK to : /\ pc' = [pc EXCEPT ![t] = to]
                  /\ pc[t] \in {"unlock", "queue", "account"}
                       <=> to \in {"unlock", "queue", "account"}
    BY <1>1 DEF MtxLock, MtxUnlock, CallWait, WaitUnlock, WaitRelock, TakeGate,
                TakeToken, WaitTimeout, DrainToken, DrainDone
  <2>2. E' = E
    BY <1>0, <2>1, EnrolledCount
  <2>3. /\ blocked' = blocked /\ gone' = gone /\ to_unblock' = to_unblock
        /\ nsignal' = nsignal
    BY <1>1 DEF MtxLock, MtxUnlock, CallWait, WaitUnlock, WaitRelock, TakeGate,
                TakeToken, WaitTimeout, DrainToken, DrainDone, cnt, sloc
  <2> QED
    BY <1>c, <1>d, <2>1, <2>2, <2>3
<1>2. ASSUME NEW t \in Waiters, Register(t) PROVE CountInv'
  <2>1. blocked' = blocked + 1 /\ to_unblock = 0
    BY <1>2 DEF Register, CondInv, GateInv
  <2>2. pc' = [pc EXCEPT ![t] = "unlock"] /\ pc[t] = "register"
    BY <1>2 DEF Register
  <2>3. E' = E + 1
    BY <1>0, <2>2, EnrolledCount
  <2>4. gone' = gone /\ to_unblock' = to_unblock /\ nsignal' = nsignal
    BY <1>2 DEF Register, sloc
  <2> HIDE DEF E, W
  <2>5. /\ blocked' - gone' + to_unblock' <= E'
        /\ ~ to_unblock' > 0
    BY <1>0, <1>a, <1>c, <2>1, <2>3, <2>4
  <2> QED
    BY <1>d, <2>2, <2>4, <2>5
<1>3. ASSUME NEW t \in Waiters, AccountUnblocked(t) PROVE CountInv'
  <2>1. PICK to \in {"drain", "relock"} :
          pc[t] = "account" /\ pc' = [pc EXCEPT ![t] = to]
    BY <1>3 DEF AccountUnblocked
  <2>2. E' = E - 1
    BY <1>0, <2>1, EnrolledCount
  <2>3. to_unblock > 0 /\ to_unblock' = to_unblock - 1 /\ nsignal' = nsignal
    BY <1>0, <1>3 DEF AccountUnblocked, sloc
  <2>4. \/ blocked' = 0 /\ gone' = 0 /\ to_unblock' = 0
        \/ blocked' = blocked /\ gone' = gone
        \/ blocked' = blocked - 1 /\ gone' = gone /\ blocked # 0
        \/ blocked' = blocked /\ gone' = gone + 1
    BY <1>0, <1>3 DEF AccountUnblocked
  <2>5. E' \in Nat
    <3>1. Enrolled' \in SUBSET Waiters
      BY DEF Enrolled
    <3> QED
      BY <3>1, Counted
  <2> HIDE DEF E, W
  <2>6. /\ blocked' - gone' + to_unblock' <= E'
        /\ to_unblock' > 0 => blocked' >= 0 /\ gone' + to_unblock' + blocked' <= W
    BY <1>0, <1>a, <1>c, <2>2, <2>3, <2>4, <2>5
  <2> QED
    BY <1>d, <2>1, <2>3, <2>6
<1>4. ASSUME NEW t \in Waiters, AccountGone(t) PROVE CountInv'
  <2>1. PICK to \in {"overflow", "relock"} :
          pc[t] = "account" /\ pc' = [pc EXCEPT ![t] = to]
    BY <1>4 DEF AccountGone
  <2>2. E' = E - 1
    BY <1>0, <2>1, EnrolledCount
  <2>3. /\ to_unblock = 0 /\ to_unblock' = to_unblock /\ nsignal' = nsignal
        /\ gone' = gone + 1 /\ blocked' = blocked
    BY <1>4 DEF AccountGone, sloc
  <2> HIDE DEF E, W
  <2>4. blocked' - gone' + to_unblock' <= E' /\ ~ to_unblock' > 0
    BY <1>0, <1>a, <1>c, <2>2, <2>3
  <2> QED
    BY <1>d, <2>1, <2>3, <2>4
<1>5. ASSUME NEW t \in Waiters, SettleGone(t) PROVE CountInv'
  <2>1. pc[t] = "overflow" /\ pc' = [pc EXCEPT ![t] = "relock"]
    BY <1>5 DEF SettleGone
  <2>2. E' = E
    BY <1>0, <2>1, EnrolledCount
  <2>3. /\ to_unblock = 0 /\ to_unblock' = to_unblock /\ nsignal' = nsignal
        /\ gone' = 0 /\ blocked' = blocked - gone
    BY <1>5 DEF SettleGone, CondInv, MonitorInv, sloc
  <2> HIDE DEF E, W
  <2>4. blocked' - gone' + to_unblock' <= E' /\ ~ to_unblock' > 0
    BY <1>0, <1>a, <1>c, <2>2, <2>3
  <2> QED
    BY <1>d, <2>1, <2>3, <2>4
<1>6. ASSUME NEW s \in Signallers, NEW all \in Kinds, SignalMore(s, all) PROVE CountInv'
  <2> DEFINE n == IF all THEN blocked ELSE 1
  <2>1. pc' = [pc EXCEPT ![s] = "post"] /\ nsignal' = [nsignal EXCEPT ![s] = n]
    BY <1>6 DEF SignalMore
  <2>2. /\ to_unblock > 0 /\ blocked # 0 /\ to_unblock' = to_unblock + n
        /\ blocked' = blocked - n /\ gone' = gone
    BY <1>0, <1>6 DEF SignalMore
  <2>3. n \in 1..blocked
    BY <1>0, <1>c, <2>2
  <2> HIDE DEF E, W, n
  <2>4. /\ blocked' - gone' + to_unblock' <= E
        /\ blocked' >= 0 /\ gone' + to_unblock' + blocked' <= W
    BY <1>0, <1>a, <1>c, <2>2, <2>3
  <2> QED
    BY <1>0, <1>e, <2>1, <2>4
<1>7. ASSUME NEW s \in Signallers, NEW all \in Kinds, SignalFirst(s, all) PROVE CountInv'
  <2>1. pc[s] = "idle" /\ pc' = [pc EXCEPT ![s] = "close"] /\ nsignal' = nsignal
    BY <1>7 DEF SignalFirst
  <2>2. blocked' = blocked /\ gone' = gone /\ to_unblock' = to_unblock
    BY <1>7 DEF SignalFirst, cnt
  <2> QED
    BY <1>c, <1>e, <2>1, <2>2
<1>8. ASSUME NEW s \in Signallers, CloseGate(s) PROVE CountInv'
  <2> DEFINE n == IF broadcast[s] THEN blocked - gone ELSE 1
  <2>1. pc' = [pc EXCEPT ![s] = "post"] /\ nsignal' = [nsignal EXCEPT ![s] = n]
    BY <1>8 DEF CloseGate
  <2>2. to_unblock = 0 /\ blocked > gone
    BY <1>8 DEF CloseGate, CondInv, MonitorInv
  <2>3. to_unblock' = n /\ blocked' = blocked - gone - n /\ gone' = 0
    BY <1>8 DEF CloseGate
  <2>4. n \in 1..(blocked - gone)
    BY <1>0, <2>2
  <2> HIDE DEF E, W, n
  <2>5. /\ blocked' - gone' + to_unblock' <= E
        /\ blocked' >= 0 /\ gone' + to_unblock' + blocked' <= W
    BY <1>0, <1>a, <1>c, <2>2, <2>3, <2>4
  <2> QED
    BY <1>0, <1>e, <2>1, <2>5
<1>9. ASSUME NEW s \in Signallers, PostTokens(s) PROVE CountInv'
  <2>1. pc' = [pc EXCEPT ![s] = "idle"] /\ nsignal' = [nsignal EXCEPT ![s] = 0]
    BY <1>9 DEF PostTokens
  <2>2. blocked' = blocked /\ gone' = gone /\ to_unblock' = to_unblock
    BY <1>9 DEF PostTokens, cnt
  <2> QED
    BY <1>0, <1>c, <1>e, <2>1, <2>2
<1>10. CASE UNCHANGED vars
  BY <1>c, <1>10 DEF vars, cnt, sloc, CountInv, Enrolled
<1> QED
  BY <1>1, <1>2, <1>3, <1>4, <1>5, <1>6, <1>7, <1>8, <1>9, <1>10
     DEF Next, WaitStep, SignalStep, SignalCall, SignalNobody

LEMMA CondNextInv == CondInv /\ [Next]_vars => CondInv'
BY TypeNext, GateNext, MonitorNext, CountNext DEF CondInv

(***************************************************************************)
(* The counters of cnd_t, the semaphores and the locals stay in range, and *)
(* the gate and the monitor serve one thread at a time, for any threads,   *)
(* with and without timeouts.                                              *)
(***************************************************************************)
THEOREM CondCorrect == Spec => []CondInv
BY CondInitInv, CondNextInv, PTL DEF Spec

(* The type invariant of the condition variable: gone is settled in time. *)
THEOREM CondTypes == Spec => []TypeOK
<1>1. CondInv => TypeOK
  BY DEF CondInv
<1> QED
  BY <1>1, CondCorrect, PTL

-----------------------------------------------------------------------------
(* As many tokens as a signaller has to post. *)
LEMMA TokensOfOne ==
  ASSUME NEW s, NEW n \in Nat
  PROVE  IsFiniteSet({s} \X (1..n)) /\ Cardinality({s} \X (1..n)) = n
<1> DEFINE f == [j \in 1..n |-> <<s, j>>]
<1>1. f \in Bijection(1..n, {s} \X (1..n))
  <2>1. f \in [1..n -> {s} \X (1..n)]
    OBVIOUS
  <2>2. \A j, k \in 1..n : f[j] = f[k] => j = k
    OBVIOUS
  <2>3. \A p \in {s} \X (1..n) : p[2] \in 1..n /\ f[p[2]] = p
    OBVIOUS
  <2> QED
    BY <2>1, <2>2, <2>3 DEF Bijection, Injection, Surjection, IsInjective
<1>2. IsFiniteSet(1..n) /\ Cardinality(1..n) = n
  BY FS_Interval
<1> HIDE DEF f
<1> QED
  BY <1>1, <1>2, FS_Bijection DEF ExistsBijection

(* A signaller that has none to post decides to post n. *)
LEMMA PendingGain ==
  ASSUME nsignal \in [Signallers -> Nat], NEW s \in Signallers, NEW n \in Nat,
         nsignal[s] = 0, nsignal' = [nsignal EXCEPT ![s] = n], IsFiniteSet(Pending)
  PROVE  /\ IsFiniteSet(Pending')
         /\ Cardinality(Pending') = Cardinality(Pending) + n
<1> DEFINE T == {s} \X (1..n)
<1>1. Pending' = Pending \union T
  BY DEF Pending
<1>2. Pending \cap T = {}
  BY DEF Pending
<1>3. IsFiniteSet(T) /\ Cardinality(T) = n
  BY TokensOfOne
<1> HIDE DEF T
<1>4. /\ IsFiniteSet(Pending \union T)
      /\ Cardinality(Pending \union T)
           = Cardinality(Pending) + Cardinality(T) - Cardinality(Pending \cap T)
  BY <1>3, FS_Union
<1>5. Cardinality(Pending) \in Nat
  BY FS_CardinalityType
<1>6. Cardinality(Pending \cap T) = 0
  BY <1>2, FS_EmptySet
<1>7. Cardinality(Pending \union T) = Cardinality(Pending) + n
  BY <1>3, <1>4, <1>5, <1>6
<1> QED
  BY <1>1, <1>4, <1>7

(* A signaller posts what it had to post. *)
LEMMA PendingLoss ==
  ASSUME nsignal \in [Signallers -> Nat], NEW s \in Signallers,
         nsignal' = [nsignal EXCEPT ![s] = 0], IsFiniteSet(Pending)
  PROVE  /\ IsFiniteSet(Pending')
         /\ Cardinality(Pending') = Cardinality(Pending) - nsignal[s]
<1> DEFINE T == {s} \X (1..nsignal[s])
<1>1. Pending = Pending' \union T
  BY DEF Pending
<1>2. Pending' \cap T = {}
  BY DEF Pending
<1>3. IsFiniteSet(T) /\ Cardinality(T) = nsignal[s]
  BY TokensOfOne
<1>4. IsFiniteSet(Pending')
  <2>1. Pending' \in SUBSET Pending
    BY <1>1
  <2> QED
    BY <2>1, FS_Subset
<1> HIDE DEF T
<1>5. Cardinality(Pending' \union T)
        = Cardinality(Pending') + Cardinality(T) - Cardinality(Pending' \cap T)
  BY <1>3, <1>4, FS_Union
<1>6. Cardinality(Pending') \in Nat
  BY <1>4, FS_CardinalityType
<1>7. Cardinality(Pending' \cap T) = 0
  BY <1>2, FS_EmptySet
<1>8. nsignal[s] \in Nat /\ Cardinality(Pending) = Cardinality(Pending' \union T)
  BY <1>1
<1> QED
  BY <1>3, <1>4, <1>5, <1>6, <1>7, <1>8

LEMMA ExactInitInv == Init => ExactInv
<1> SUFFICES ASSUME Init PROVE ExactInv
  OBVIOUS
<1>1. Enrolled = {} /\ Accounting = {} /\ Pending = {}
  BY DEF Init, Enrolled, Accounting, Pending
<1> QED
  BY <1>1, FS_EmptySet DEF Init, ExactInv

LEMMA ExactNextInv ==
  ASSUME ~ Timed, CondInv, ExactInv, [Next]_vars
  PROVE  ExactInv'
<1> DEFINE E == Cardinality(Enrolled)
           A == Cardinality(Accounting)
           P == Cardinality(Pending)
<1>0. /\ to_unblock \in Nat /\ gone \in Int /\ blocked \in Int
      /\ sem_queue \in Nat /\ timeout \in [Waiters -> BOOLEAN]
      /\ nsignal \in [Signallers -> Nat]
      /\ pc \in [Waiters \union Signallers -> WaiterPC \union SignallerPC]
  BY CondAssumption DEF CondInv, TypeOK
<1>a. E \in Nat /\ A \in Nat /\ P \in Nat
  <2>1. Enrolled \in SUBSET Waiters /\ Accounting \in SUBSET Waiters
    BY DEF Enrolled, Accounting
  <2> QED
    BY <2>1, Counted, FS_CardinalityType DEF ExactInv
<1>b. /\ gone = 0 /\ \A t \in Waiters : ~ timeout[t]
      /\ E = blocked + to_unblock
      /\ IsFiniteSet(Pending)
      /\ A + sem_queue + P = to_unblock
  BY DEF ExactInv
<1>c. ASSUME nsignal' = nsignal PROVE Pending' = Pending
  BY <1>c DEF Pending
<1>d. ASSUME gone' = 0, timeout' = timeout \/ \E t \in Waiters :
                            timeout' = [timeout EXCEPT ![t] = FALSE],
             E' = blocked' + to_unblock', IsFiniteSet(Pending'),
             A' + sem_queue' + P' = to_unblock'
      PROVE  ExactInv'
  <2>1. \A t \in Waiters : ~ timeout'[t]
    BY <1>0, <1>b, <1>d
  <2> QED
    BY <1>d, <2>1 DEF ExactInv
<1>e. \A s \in Signallers : pc[s] # "post" => nsignal[s] = 0
  BY DEF CondInv, CountInv
<1> USE DEF Goto
<1>1. ASSUME NEW t \in Waiters,
             \/ MtxLock(t) \/ MtxUnlock(t) \/ CallWait(t) \/ WaitUnlock(t)
             \/ WaitRelock(t) \/ TakeGate(t) \/ DrainDone(t)
      PROVE  ExactInv'
  <2>1. PICK to : /\ pc' = [pc EXCEPT ![t] = to]
                  /\ pc[t] \in {"unlock", "queue", "account"}
                       <=> to \in {"unlock", "queue", "account"}
                  /\ pc[t] = "account" <=> to = "account"
    BY <1>1 DEF MtxLock, MtxUnlock, CallWait, WaitUnlock, WaitRelock, TakeGate, DrainDone
  <2>2. E' = E /\ A' = A
    BY <1>0, <2>1, EnrolledCount, AccountingCount
  <2>3. /\ blocked' = blocked /\ gone' = gone /\ to_unblock' = to_unblock
        /\ nsignal' = nsignal /\ sem_queue' = sem_queue /\ timeout' = timeout
    BY <1>1 DEF MtxLock, MtxUnlock, CallWait, WaitUnlock, WaitRelock, TakeGate,
                DrainDone, cnt, sems, sloc, wloc
  <2> QED
    BY <1>b, <1>c, <1>d, <2>2, <2>3
<1>2. ASSUME NEW t \in Waiters, Register(t) PROVE ExactInv'
  <2>1. blocked' = blocked + 1
    BY <1>2 DEF Register, CondInv, GateInv
  <2>2. pc' = [pc EXCEPT ![t] = "unlock"] /\ pc[t] = "register"
    BY <1>2 DEF Register
  <2>3. E' = E + 1 /\ A' = A
    <3>1. E' = E + 1
      BY <1>0, <2>2, EnrolledCount
    <3>2. pc[t] = "account" <=> "unlock" = "account"
      BY <2>2
    <3>3. A' = A
      BY <1>0, <2>2, <3>2, AccountingCount
    <3> QED
      BY <3>1, <3>3
  <2>4. /\ gone' = gone /\ to_unblock' = to_unblock /\ nsignal' = nsignal
        /\ sem_queue' = sem_queue /\ timeout' = timeout
    BY <1>2 DEF Register, sloc, wloc
  <2>5. E' = blocked' + to_unblock'
    BY <1>0, <1>b, <2>1, <2>3, <2>4
  <2> QED
    BY <1>b, <1>c, <1>d, <2>3, <2>4, <2>5
<1>3. ASSUME NEW t \in Waiters, TakeToken(t) PROVE ExactInv'
  <2>1. pc' = [pc EXCEPT ![t] = "account"] /\ pc[t] = "queue"
    BY <1>3 DEF TakeToken
  <2>2. E' = E /\ A' = A + 1
    BY <1>0, <2>1, EnrolledCount, AccountingCount
  <2>3. /\ blocked' = blocked /\ gone' = gone /\ to_unblock' = to_unblock
        /\ nsignal' = nsignal /\ sem_queue' = sem_queue - 1
        /\ timeout' = [timeout EXCEPT ![t] = FALSE]
    BY <1>3 DEF TakeToken, cnt, sloc
  <2>4. P' = P
    BY <1>c, <2>3
  <2> HIDE DEF E, A, P
  <2>5. A' + sem_queue' + P' = to_unblock'
    BY <1>0, <1>a, <1>b, <2>2, <2>3, <2>4
  <2> USE DEF E, A, P
  <2> QED
    BY <1>b, <1>c, <1>d, <2>2, <2>3, <2>5
<1>4. ASSUME NEW t \in Waiters, AccountUnblocked(t) PROVE ExactInv'
  <2>1. PICK to \in {"drain", "relock"} :
          pc[t] = "account" /\ pc' = [pc EXCEPT ![t] = to]
    BY <1>4 DEF AccountUnblocked
  <2>2. E' = E - 1 /\ A' = A - 1
    BY <1>0, <2>1, EnrolledCount, AccountingCount
  <2>3. /\ to_unblock' = to_unblock - 1 /\ blocked' = blocked /\ gone' = 0
        /\ nsignal' = nsignal /\ sem_queue' = sem_queue /\ timeout' = timeout
    BY <1>4, <1>b DEF AccountUnblocked, sloc
  <2>4. P' = P
    BY <1>c, <2>3
  <2> HIDE DEF E, A, P
  <2>5. A' + sem_queue' + P' = to_unblock' /\ E' = blocked' + to_unblock'
    BY <1>0, <1>a, <1>b, <2>2, <2>3, <2>4
  <2> USE DEF E, A, P
  <2> QED
    BY <1>b, <1>c, <1>d, <2>3, <2>5
<1>5. ASSUME NEW t \in Waiters, AccountGone(t) PROVE FALSE
  <2>1. t \in Accounting /\ Accounting \in SUBSET Waiters
    BY <1>5 DEF AccountGone, Accounting
  <2>2. A # 0
    BY <2>1, Counted, FS_EmptySet
  <2>3. to_unblock = 0
    BY <1>5 DEF AccountGone
  <2> HIDE DEF A, P
  <2> QED
    BY <1>0, <1>a, <1>b, <2>2, <2>3
<1>6. ASSUME NEW t \in Waiters, SettleGone(t) PROVE FALSE
  BY <1>6, <1>b, CondAssumption DEF SettleGone, CondInv, MonitorInv
<1>7. ASSUME NEW t \in Waiters, DrainToken(t) PROVE FALSE
  <2>1. to_unblock = 0 /\ sem_queue > 0
    BY <1>7 DEF DrainToken, CondInv, GateInv
  <2> HIDE DEF A, P
  <2> QED
    BY <1>0, <1>a, <1>b, <2>1
<1>8. ASSUME NEW s \in Signallers, NEW all \in Kinds, SignalMore(s, all) PROVE ExactInv'
  <2> DEFINE n == IF all THEN blocked ELSE 1
  <2>1. /\ pc[s] = "idle" /\ pc' = [pc EXCEPT ![s] = "post"]
        /\ nsignal' = [nsignal EXCEPT ![s] = n]
    BY <1>8 DEF SignalMore
  <2>2. /\ to_unblock' = to_unblock + n /\ blocked' = blocked - n /\ gone' = gone
        /\ sem_queue' = sem_queue /\ timeout' = timeout
    BY <1>8 DEF SignalMore, sems, wloc
  <2>3. n \in Nat
    BY <1>8, <1>0 DEF SignalMore, CondInv, CountInv
  <2> HIDE DEF n
  <2>4. E' = E /\ A' = A
    BY <1>0, <2>1, SignallerMoves
  <2>5. IsFiniteSet(Pending') /\ P' = P + n
    BY <1>0, <1>b, <1>e, <2>1, <2>3, PendingGain
  <2> HIDE DEF E, A, P
  <2>6. A' + sem_queue' + P' = to_unblock' /\ E' = blocked' + to_unblock'
    BY <1>0, <1>a, <1>b, <2>2, <2>3, <2>4, <2>5
  <2> USE DEF E, A, P
  <2> QED
    BY <1>b, <1>d, <2>2, <2>5, <2>6
<1>9. ASSUME NEW s \in Signallers, NEW all \in Kinds, SignalFirst(s, all) PROVE ExactInv'
  <2>1. pc' = [pc EXCEPT ![s] = "close"]
    BY <1>9 DEF SignalFirst
  <2>2. /\ blocked' = blocked /\ gone' = gone /\ to_unblock' = to_unblock
        /\ nsignal' = nsignal /\ sem_queue' = sem_queue /\ timeout' = timeout
    BY <1>9 DEF SignalFirst, cnt, sems, wloc
  <2>3. E' = E /\ A' = A
    BY <1>0, <2>1, SignallerMoves
  <2> QED
    BY <1>b, <1>c, <1>d, <2>2, <2>3
<1>10. ASSUME NEW s \in Signallers, CloseGate(s) PROVE ExactInv'
  <2> DEFINE n == IF broadcast[s] THEN blocked - gone ELSE 1
  <2>1. /\ pc[s] = "close" /\ pc' = [pc EXCEPT ![s] = "post"]
        /\ nsignal' = [nsignal EXCEPT ![s] = n]
    BY <1>10 DEF CloseGate
  <2>2. to_unblock = 0 /\ blocked > gone
    BY <1>10 DEF CloseGate, CondInv, MonitorInv
  <2>3. /\ to_unblock' = n /\ blocked' = blocked - gone - n /\ gone' = 0
        /\ sem_queue' = sem_queue /\ timeout' = timeout
    BY <1>10 DEF CloseGate, wloc
  <2>4. n \in Nat
    BY <1>0, <2>2
  <2> HIDE DEF n
  <2>5. E' = E /\ A' = A
    BY <1>0, <2>1, SignallerMoves
  <2>6. IsFiniteSet(Pending') /\ P' = P + n
    BY <1>0, <1>b, <1>e, <2>1, <2>4, PendingGain
  <2> HIDE DEF E, A, P
  <2>7. A' + sem_queue' + P' = to_unblock' /\ E' = blocked' + to_unblock'
    BY <1>0, <1>a, <1>b, <2>2, <2>3, <2>4, <2>5, <2>6
  <2> USE DEF E, A, P
  <2> QED
    BY <1>d, <2>3, <2>6, <2>7
<1>11. ASSUME NEW s \in Signallers, PostTokens(s) PROVE ExactInv'
  <2>1. pc' = [pc EXCEPT ![s] = "idle"] /\ nsignal' = [nsignal EXCEPT ![s] = 0]
    BY <1>11 DEF PostTokens
  <2>2. /\ blocked' = blocked /\ gone' = gone /\ to_unblock' = to_unblock
        /\ sem_queue' = sem_queue + nsignal[s] /\ timeout' = timeout
    BY <1>11 DEF PostTokens, cnt, wloc
  <2>3. E' = E /\ A' = A
    BY <1>0, <2>1, SignallerMoves
  <2>4. IsFiniteSet(Pending') /\ P' = P - nsignal[s]
    BY <1>0, <1>b, <2>1, PendingLoss
  <2>5. nsignal[s] \in Nat
    BY <1>0
  <2> HIDE DEF E, A, P
  <2>6. A' + sem_queue' + P' = to_unblock' /\ E' = blocked' + to_unblock'
    BY <1>0, <1>a, <1>b, <2>2, <2>3, <2>4, <2>5
  <2> USE DEF E, A, P
  <2> QED
    BY <1>b, <1>d, <2>2, <2>4, <2>6
<1>12. CASE UNCHANGED vars
  <2>1. Enrolled' = Enrolled /\ Accounting' = Accounting /\ Pending' = Pending
    BY <1>12 DEF vars, sloc, Enrolled, Accounting, Pending
  <2> QED
    BY <1>12, <1>b, <1>d, <2>1 DEF vars, cnt, sems, wloc
<1>13. ASSUME NEW t \in Waiters, WaitTimeout(t) PROVE FALSE
  BY <1>13 DEF WaitTimeout
<1> QED
  BY <1>1, <1>2, <1>3, <1>4, <1>5, <1>6, <1>7, <1>8, <1>9, <1>10, <1>11, <1>12, <1>13
     DEF Next, WaitStep, SignalStep, SignalCall, SignalNobody

(***************************************************************************)
(* Without timeouts, at any time the counters are exact: as many wakeups   *)
(* are on their way as to_unblock says, and blocked counts the others.     *)
(***************************************************************************)
THEOREM CondExact == Spec => [](~ Timed => ExactInv)
<1>1. Init => (~ Timed => ExactInv)
  BY ExactInitInv
<1>2. CondInv /\ (~ Timed => ExactInv) /\ [Next]_vars => (~ Timed => ExactInv)'
  BY ExactNextInv
<1> QED
  BY <1>1, <1>2, CondCorrect, PTL DEF Spec

(***************************************************************************)
(* For any threads, when nothing is on its way a thread that waits without *)
(* a timeout is counted in blocked, and the next signal finds it.          *)
(***************************************************************************)
THEOREM SignalsFindWaiters == Spec => [](~ Timed => SignalFindsWaiters)
<1>1. CondInv /\ (~ Timed => ExactInv) => (~ Timed => SignalFindsWaiters)
  <2> SUFFICES ASSUME CondInv, ExactInv, Settled, Waiting # {}
               PROVE  blocked > gone
    BY DEF SignalFindsWaiters
  <2>1. Enrolled \in SUBSET Waiters /\ Enrolled # {}
    BY DEF Enrolled, Waiting
  <2>2. Cardinality(Enrolled) \in Nat /\ Cardinality(Enrolled) # 0
    BY <2>1, Counted, FS_EmptySet
  <2>3. Cardinality(Enrolled) = blocked + to_unblock /\ to_unblock = 0 /\ gone = 0
    BY DEF ExactInv, Settled
  <2>4. blocked \in Int
    BY DEF CondInv, TypeOK
  <2> QED
    BY <2>2, <2>3, <2>4
<1> QED
  BY <1>1, CondCorrect, CondExact, PTL

-----------------------------------------------------------------------------
(* The state of the abstract condition variable, in terms of the counters. *)
LEMMA AbstractState ==
  ASSUME CondInv, ExactInv
  PROVE  /\ Granted \in Nat /\ Granted = to_unblock - Cardinality(Accounting)
         /\ Cardinality(Accounting) \in Nat
         /\ Granted >= sem_queue
         /\ Cardinality(Waiting) = blocked + Granted
<1>1. /\ Waiting \in SUBSET Waiters /\ Accounting \in SUBSET Waiters
      /\ Enrolled = Waiting \union Accounting /\ Waiting \cap Accounting = {}
  BY DEF Waiting, Accounting, Enrolled
<1>2. /\ IsFiniteSet(Waiting) /\ Cardinality(Waiting) \in Nat
      /\ IsFiniteSet(Accounting) /\ Cardinality(Accounting) \in Nat
  BY <1>1, Counted
<1>3. Cardinality(Enrolled) = Cardinality(Waiting) + Cardinality(Accounting)
                                - Cardinality(Waiting \cap Accounting)
  BY <1>1, <1>2, FS_Union
<1>4. Cardinality(Waiting \cap Accounting) = 0
  BY <1>1, FS_EmptySet
<1>5. /\ Cardinality(Enrolled) = blocked + to_unblock
      /\ Cardinality(Accounting) + sem_queue + Cardinality(Pending) = to_unblock
      /\ Cardinality(Pending) \in Nat
  BY FS_CardinalityType DEF ExactInv
<1>6. to_unblock \in Nat /\ sem_queue \in Nat /\ blocked \in Int
  BY DEF CondInv, TypeOK
<1>7. Granted = to_unblock - Cardinality(Accounting)
  BY DEF Granted, Accounting
<1> QED
  BY <1>2, <1>3, <1>4, <1>5, <1>6, <1>7

(* CondVar counts as CondWin32 does. *)
LEMMA SameCardinality == ASSUME NEW S PROVE Cond!Cardinality(S) = Cardinality(S)
BY DEF Cond!Cardinality, Cardinality, Cond!IsFiniteSet, IsFiniteSet

LEMMA CondVarStep ==
  ASSUME ~ Timed, CondInv, ExactInv, CondInv', ExactInv', [Next]_vars
  PROVE  [Cond!CNext]_(Cond!cvars)
<1> DEFINE A == Cardinality(Accounting)
<1>0. /\ to_unblock \in Nat /\ gone = 0 /\ blocked \in Int /\ sem_queue \in Nat
      /\ pc \in [Waiters \union Signallers -> WaiterPC \union SignallerPC]
  BY DEF CondInv, TypeOK, ExactInv
<1>a. /\ Granted \in Nat /\ Granted = to_unblock - A /\ A \in Nat
      /\ Granted >= sem_queue /\ Cardinality(Waiting) = blocked + Granted
  BY AbstractState
<1>b. Granted' \in Nat /\ Granted' = to_unblock' - A' /\ A' \in Nat
  <2>1. Granted' = to_unblock' - A'
    BY DEF Granted, Accounting
  <2>2. Accounting' \in SUBSET Waiters
    BY DEF Accounting
  <2>3. A' \in Nat
    BY <2>2, Counted
  <2>4. Cardinality(Pending') \in Nat /\ A' + sem_queue' + Cardinality(Pending') = to_unblock'
    BY FS_CardinalityType DEF ExactInv
  <2>5. sem_queue' \in Nat /\ to_unblock' \in Nat
    BY DEF CondInv, TypeOK
  <2> QED
    BY <2>1, <2>3, <2>4, <2>5
<1>c. ASSUME Waiting' = Waiting, A' = A, to_unblock' = to_unblock
      PROVE  UNCHANGED Cond!cvars
  BY <1>a, <1>b, <1>c DEF Cond!cvars
<1>d. ASSUME NEW n \in 1..blocked, n \in {1, blocked},
             Waiting' = Waiting, A' = A, to_unblock' = to_unblock + n
      PROVE  Cond!CSignal
  <2> HIDE DEF A
  <2>1. Granted' = Granted + n /\ Granted < Cardinality(Waiting)
    BY <1>0, <1>a, <1>b, <1>d
  <2>2. Granted' \in {Granted + 1, Cardinality(Waiting)}
    BY <1>0, <1>a, <1>d, <2>1
  <2> QED
    BY <1>d, <2>1, <2>2, SameCardinality DEF Cond!CSignal
<1> USE DEF Goto
<1>1. ASSUME NEW t \in Waiters,
             \/ MtxLock(t) \/ MtxUnlock(t) \/ CallWait(t) \/ WaitUnlock(t)
             \/ WaitRelock(t) \/ TakeGate(t) \/ DrainDone(t) \/ DrainToken(t)
             \/ SettleGone(t)
      PROVE  UNCHANGED Cond!cvars
  <2>1. PICK to : /\ pc' = [pc EXCEPT ![t] = to]
                  /\ pc[t] \in {"unlock", "queue"} <=> to \in {"unlock", "queue"}
                  /\ pc[t] = "account" <=> to = "account"
    BY <1>1 DEF MtxLock, MtxUnlock, CallWait, WaitUnlock, WaitRelock, TakeGate,
                DrainDone, DrainToken, SettleGone
  <2>2. A' = A
    BY <1>0, <2>1, AccountingCount
  <2>3. Waiting' = IF to \in {"unlock", "queue"} THEN Waiting \union {t} ELSE Waiting \ {t}
    BY <1>0, <2>1, WaiterMoves
  <2>4. Waiting' = Waiting
    BY <2>1, <2>3 DEF Waiting
  <2>5. to_unblock' = to_unblock
    BY <1>1 DEF MtxLock, MtxUnlock, CallWait, WaitUnlock, WaitRelock, TakeGate,
                DrainDone, DrainToken, SettleGone, cnt
  <2> QED
    BY <1>c, <2>2, <2>4, <2>5
<1>2. ASSUME NEW t \in Waiters, Register(t) PROVE Cond!CWait
  <2>1. pc[t] = "register" /\ pc' = [pc EXCEPT ![t] = "unlock"]
        /\ to_unblock' = to_unblock
    BY <1>2 DEF Register
  <2>2. to_unblock = 0
    BY <2>1 DEF CondInv, GateInv
  <2>3. Granted = 0 /\ Granted' = 0
    BY <1>0, <1>a, <1>b, <2>1, <2>2
  <2>4. Waiting' = Waiting \union {t}
    BY <1>0, <2>1, WaiterMoves
  <2>5. t \in Waiters \ Waiting
    BY <2>1 DEF Waiting
  <2> QED
    BY <2>3, <2>4, <2>5 DEF Cond!CWait
<1>3. ASSUME NEW t \in Waiters, TakeToken(t) PROVE Cond!CWake
  <2>1. /\ pc[t] = "queue" /\ pc' = [pc EXCEPT ![t] = "account"]
        /\ to_unblock' = to_unblock /\ sem_queue > 0
    BY <1>3 DEF TakeToken, cnt
  <2>2. A' = A + 1
    BY <1>0, <2>1, AccountingCount
  <2>3. Granted > 0 /\ Granted' = Granted - 1
    <3> HIDE DEF A
    <3> QED
      BY <1>0, <1>a, <1>b, <2>1, <2>2
  <2>4. Waiting' = Waiting \ {t}
    BY <1>0, <2>1, WaiterMoves
  <2>5. t \in Waiting
    BY <2>1 DEF Waiting
  <2> QED
    BY <2>3, <2>4, <2>5 DEF Cond!CWake
<1>4. ASSUME NEW t \in Waiters, AccountUnblocked(t) PROVE UNCHANGED Cond!cvars
  <2>1. PICK to \in {"drain", "relock"} :
          pc[t] = "account" /\ pc' = [pc EXCEPT ![t] = to]
    BY <1>4 DEF AccountUnblocked
  <2>2. A' = A - 1
    BY <1>0, <2>1, AccountingCount
  <2>3. to_unblock' = to_unblock - 1
    BY <1>4 DEF AccountUnblocked
  <2>4. Waiting' = Waiting \ {t}
    BY <1>0, <2>1, WaiterMoves
  <2>5. Waiting' = Waiting
    BY <2>1, <2>4 DEF Waiting
  <2>6. Granted' = Granted
    <3> HIDE DEF A
    <3> QED
      BY <1>0, <1>a, <1>b, <2>2, <2>3
  <2> QED
    BY <2>5, <2>6 DEF Cond!cvars
<1>5. ASSUME NEW t \in Waiters, AccountGone(t) PROVE FALSE
  <2>1. gone' = gone + 1 /\ gone' = 0
    BY <1>5 DEF AccountGone, ExactInv
  <2> QED
    BY <1>0, <2>1
<1>6. ASSUME NEW s \in Signallers, NEW all \in Kinds, SignalMore(s, all)
      PROVE  Cond!CSignal
  <2> DEFINE n == IF all THEN blocked ELSE 1
  <2>1. n \in 1..blocked /\ n \in {1, blocked}
    BY <1>0, <1>6 DEF SignalMore, CondInv, CountInv
  <2>2. pc' = [pc EXCEPT ![s] = "post"] /\ to_unblock' = to_unblock + n
    BY <1>6 DEF SignalMore
  <2>3. Waiting' = Waiting /\ A' = A
    BY <1>0, <2>2, SignallerMoves
  <2> HIDE DEF n
  <2> QED
    BY <1>d, <2>1, <2>2, <2>3
<1>7. ASSUME NEW s \in Signallers, CloseGate(s) PROVE Cond!CSignal
  <2> DEFINE n == IF broadcast[s] THEN blocked - gone ELSE 1
  <2>1. to_unblock = 0 /\ blocked > gone
    BY <1>7 DEF CloseGate, CondInv, MonitorInv
  <2>2. n \in 1..blocked /\ n \in {1, blocked}
    BY <1>0, <2>1
  <2>3. pc' = [pc EXCEPT ![s] = "post"] /\ to_unblock' = n
    BY <1>7 DEF CloseGate
  <2>4. Waiting' = Waiting /\ A' = A
    BY <1>0, <2>3, SignallerMoves
  <2> HIDE DEF n
  <2>5. to_unblock' = to_unblock + n
    BY <1>0, <2>1, <2>2, <2>3
  <2> QED
    BY <1>d, <2>2, <2>4, <2>5
<1>8. ASSUME NEW s \in Signallers,
             PostTokens(s) \/ \E all \in Kinds : SignalFirst(s, all)
      PROVE  UNCHANGED Cond!cvars
  <2>1. PICK to : pc' = [pc EXCEPT ![s] = to]
    BY <1>8 DEF PostTokens, SignalFirst
  <2>2. Waiting' = Waiting /\ A' = A
    BY <1>0, <2>1, SignallerMoves
  <2>3. to_unblock' = to_unblock
    BY <1>8 DEF PostTokens, SignalFirst, cnt
  <2> QED
    BY <1>c, <2>2, <2>3
<1>9. CASE UNCHANGED vars
  <2>1. Waiting' = Waiting /\ Accounting' = Accounting
    BY <1>9 DEF vars, Waiting, Accounting
  <2> QED
    BY <1>9, <1>c, <2>1 DEF vars, cnt
<1>10. ASSUME NEW t \in Waiters, WaitTimeout(t) PROVE FALSE
  BY <1>10 DEF WaitTimeout
<1> QED
  BY <1>1, <1>2, <1>3, <1>4, <1>5, <1>6, <1>7, <1>8, <1>9, <1>10
     DEF Next, WaitStep, SignalStep, SignalCall, SignalNobody, Cond!CNext

(***************************************************************************)
(* For any threads, the semaphores and counters of threads_win32.h, used   *)
(* without timeouts, are a condition variable: a signal grants a wakeup to *)
(* a thread that already waits, a broadcast grants one to each, no grant   *)
(* is lost, and a thread that begins to wait later cannot take it.         *)
(***************************************************************************)
THEOREM CondImplementsCondVar ==
  ASSUME ~ Timed PROVE Spec => ImplementsCondVar
<1>1. Init => Cond!CInit
  <2> SUFFICES ASSUME Init PROVE Cond!CInit
    OBVIOUS
  <2>1. Waiting = {} /\ Accounting = {}
    BY DEF Init, Waiting, Accounting
  <2>2. Granted = to_unblock - Cardinality(Accounting) /\ to_unblock = 0
    BY DEF Init, Granted, Accounting
  <2> QED
    BY <2>1, <2>2, FS_EmptySet DEF Cond!CInit
<1>2. Spec => []ExactInv
  <2>1. (~ Timed => ExactInv) => ExactInv
    OBVIOUS
  <2> QED
    BY <2>1, CondExact, PTL
<1>3. /\ CondInv /\ ExactInv /\ CondInv' /\ ExactInv' /\ [Next]_vars
      => [Cond!CNext]_(Cond!cvars)
  BY CondVarStep
<1> QED
  BY <1>1, <1>2, <1>3, CondCorrect, PTL DEF Spec, ImplementsCondVar, Cond!CSpec

-----------------------------------------------------------------------------
(***************************************************************************)
(* One thread that waits, with or without a timeout: the counters are      *)
(* exact also when it times out while a signal is on its way to it, and    *)
(* the tokens on their way are those to_unblock promises and those that    *)
(* the thread itself drains.                                               *)
(***************************************************************************)
HasToken(t)   == IF pc[t] = "account" /\ ~ timeout[t] THEN 1 ELSE 0
StillDrain(t) == IF pc[t] = "drain" THEN ngone[t] ELSE 0
IsEnrolled(t) == IF pc[t] \in {"unlock", "queue", "account"} THEN 1 ELSE 0

OneInv ==
  /\ IsFiniteSet(Pending)
  /\ \A t \in Waiters :
       /\ blocked - gone + to_unblock = IsEnrolled(t)
       /\ sem_queue + Cardinality(Pending) + HasToken(t) = to_unblock + StillDrain(t)

LEMMA OneInitInv == Init => OneInv
<1> SUFFICES ASSUME Init PROVE OneInv
  OBVIOUS
<1>1. Pending = {}
  BY DEF Init, Pending
<1> QED
  BY <1>1, FS_EmptySet DEF Init, OneInv, HasToken, StillDrain, IsEnrolled

LEMMA OneNextInv ==
  ASSUME Cardinality(Waiters) = 1, CondInv, OneInv, [Next]_vars
  PROVE  OneInv'
<1> DEFINE P == Cardinality(Pending)
<1>0. /\ to_unblock \in Nat /\ gone \in Nat /\ blocked \in Int /\ sem_queue \in Nat
      /\ timeout \in [Waiters -> BOOLEAN] /\ ngone \in [Waiters -> Nat]
      /\ nsignal \in [Signallers -> Nat]
      /\ pc \in [Waiters \union Signallers -> WaiterPC \union SignallerPC]
  BY CondAssumption DEF CondInv, TypeOK
<1>1. PICK w : Waiters = {w}
  BY CondAssumption, FS_Singleton
<1>2. /\ IsFiniteSet(Pending) /\ P \in Nat
      /\ blocked - gone + to_unblock = IsEnrolled(w)
      /\ sem_queue + P + HasToken(w) = to_unblock + StillDrain(w)
  BY <1>1, FS_CardinalityType DEF OneInv
<1>3. \A t \in Waiters : t = w
  BY <1>1
<1>a. ASSUME IsFiniteSet(Pending'),
             blocked' - gone' + to_unblock' = (IsEnrolled(w))',
             sem_queue' + P' + (HasToken(w))' = to_unblock' + (StillDrain(w))'
      PROVE  OneInv'
  BY <1>1, <1>a DEF OneInv
<1>b. nsignal' = nsignal => Pending' = Pending
  BY DEF Pending
<1>c. /\ \A s \in Signallers : pc[s] # "post" => nsignal[s] = 0
      /\ to_unblock > 0 => blocked >= 0 /\ gone + to_unblock + blocked <= 1
  BY DEF CondInv, CountInv
<1>d. ASSUME NEW s \in Signallers, NEW to, pc' = [pc EXCEPT ![s] = to],
             timeout' = timeout, ngone' = ngone
      PROVE  /\ (IsEnrolled(w))' = IsEnrolled(w) /\ (HasToken(w))' = HasToken(w)
             /\ (StillDrain(w))' = StillDrain(w)
  <2>1. pc'[w] = pc[w]
    BY <1>0, <1>1, <1>d, CondAssumption
  <2> QED
    BY <1>d, <2>1 DEF IsEnrolled, HasToken, StillDrain
<1>e. IsEnrolled(w) \in Nat /\ HasToken(w) \in Nat /\ StillDrain(w) \in Nat
  BY <1>0, <1>1 DEF IsEnrolled, HasToken, StillDrain
<1> HIDE DEF P
<1> USE DEF Goto
<1>4. ASSUME NEW t \in Waiters,
             \/ MtxLock(t) \/ MtxUnlock(t) \/ CallWait(t) \/ WaitUnlock(t)
             \/ WaitRelock(t) \/ TakeGate(t) \/ DrainDone(t)
      PROVE  OneInv'
  <2>1. /\ blocked' = blocked /\ gone' = gone /\ to_unblock' = to_unblock
        /\ nsignal' = nsignal /\ sem_queue' = sem_queue
        /\ timeout' = timeout /\ ngone' = ngone
    BY <1>4 DEF MtxLock, MtxUnlock, CallWait, WaitUnlock, WaitRelock, TakeGate,
                DrainDone, cnt, sems, sloc, wloc
  <2>2. /\ (IsEnrolled(w))' = IsEnrolled(w) /\ (HasToken(w))' = HasToken(w)
        /\ (StillDrain(w))' = StillDrain(w)
    BY <1>0, <1>1, <1>4, <2>1
       DEF MtxLock, MtxUnlock, CallWait, WaitUnlock, WaitRelock, TakeGate, DrainDone,
           IsEnrolled, HasToken, StillDrain
  <2>3. Pending' = Pending /\ P' = P
    BY <1>b, <2>1 DEF P
  <2> QED
    BY <1>a, <1>2, <2>1, <2>2, <2>3
<1>5. ASSUME NEW t \in Waiters, Register(t) PROVE OneInv'
  <2>1. /\ blocked' = blocked + 1 /\ gone' = gone /\ to_unblock' = to_unblock
        /\ nsignal' = nsignal /\ sem_queue' = sem_queue
        /\ timeout' = timeout /\ ngone' = ngone
    BY <1>5 DEF Register, CondInv, GateInv, sloc, wloc
  <2>2. /\ (IsEnrolled(w))' = 1 /\ IsEnrolled(w) = 0
        /\ (HasToken(w))' = HasToken(w) /\ (StillDrain(w))' = StillDrain(w)
    BY <1>0, <1>1, <1>5, <2>1 DEF Register, IsEnrolled, HasToken, StillDrain
  <2>3. Pending' = Pending /\ P' = P
    BY <1>b, <2>1 DEF P
  <2> QED
    BY <1>a, <1>0, <1>2, <2>1, <2>2, <2>3
<1>6. ASSUME NEW t \in Waiters, TakeToken(t) PROVE OneInv'
  <2>1. /\ blocked' = blocked /\ gone' = gone /\ to_unblock' = to_unblock
        /\ nsignal' = nsignal /\ sem_queue' = sem_queue - 1
    BY <1>6 DEF TakeToken, cnt, sloc
  <2>2. /\ (IsEnrolled(w))' = IsEnrolled(w) /\ (HasToken(w))' = 1 /\ HasToken(w) = 0
        /\ (StillDrain(w))' = StillDrain(w)
    BY <1>0, <1>1, <1>6 DEF TakeToken, IsEnrolled, HasToken, StillDrain
  <2>3. Pending' = Pending /\ P' = P
    BY <1>b, <2>1 DEF P
  <2> QED
    BY <1>a, <1>0, <1>2, <2>1, <2>2, <2>3
<1>7. ASSUME NEW t \in Waiters, WaitTimeout(t) PROVE OneInv'
  <2>1. /\ blocked' = blocked /\ gone' = gone /\ to_unblock' = to_unblock
        /\ nsignal' = nsignal /\ sem_queue' = sem_queue
    BY <1>7 DEF WaitTimeout, cnt, sems, sloc
  <2>2. /\ (IsEnrolled(w))' = IsEnrolled(w) /\ (HasToken(w))' = HasToken(w)
        /\ (StillDrain(w))' = StillDrain(w)
    BY <1>0, <1>1, <1>7 DEF WaitTimeout, IsEnrolled, HasToken, StillDrain
  <2>3. Pending' = Pending /\ P' = P
    BY <1>b, <2>1 DEF P
  <2> QED
    BY <1>a, <1>2, <2>1, <2>2, <2>3
<1>8. ASSUME NEW t \in Waiters, AccountUnblocked(t) PROVE OneInv'
  <2>1. to_unblock = 1 /\ blocked = 0 /\ gone = 0
    BY <1>0, <1>8, <1>c DEF AccountUnblocked
  <2>2. t = w /\ pc[w] = "account" /\ pc'[w] = "drain"
    BY <1>0, <1>1, <1>8, <2>1 DEF AccountUnblocked
  <2>3. /\ blocked' = 0 /\ gone' = 0 /\ to_unblock' = 0
        /\ nsignal' = nsignal /\ sem_queue' = sem_queue
        /\ ngone'[w] = IF timeout[w] THEN 1 ELSE 0
    BY <1>0, <1>1, <1>8, <2>1, <2>2 DEF AccountUnblocked, sloc
  <2>4. /\ (IsEnrolled(w))' = 0 /\ (HasToken(w))' = 0 /\ StillDrain(w) = 0
        /\ (StillDrain(w))' = 1 - HasToken(w)
    BY <1>0, <1>1, <2>2, <2>3 DEF IsEnrolled, HasToken, StillDrain
  <2>5. Pending' = Pending /\ P' = P
    BY <1>b, <2>3 DEF P
  <2> QED
    BY <1>a, <1>0, <1>2, <1>e, <2>1, <2>3, <2>4, <2>5
<1>9. ASSUME NEW t \in Waiters, AccountGone(t) PROVE OneInv'
  <2>1. t = w /\ pc[w] = "account" /\ pc'[w] \in {"overflow", "relock"}
    BY <1>0, <1>1, <1>9 DEF AccountGone
  <2>2. /\ blocked' = blocked /\ gone' = gone + 1 /\ to_unblock' = to_unblock
        /\ nsignal' = nsignal /\ sem_queue' = sem_queue /\ to_unblock = 0
    BY <1>9 DEF AccountGone, sems, sloc
  <2>3. StillDrain(w) = 0 /\ IsEnrolled(w) = 1
    BY <2>1 DEF StillDrain, IsEnrolled
  <2>4. HasToken(w) = 0
    BY <1>0, <1>2, <1>e, <2>2, <2>3
  <2>5. (IsEnrolled(w))' = 0 /\ (HasToken(w))' = 0 /\ (StillDrain(w))' = 0
    BY <2>1 DEF IsEnrolled, HasToken, StillDrain
  <2>6. Pending' = Pending /\ P' = P
    BY <1>b, <2>2 DEF P
  <2> QED
    BY <1>a, <1>0, <1>2, <2>2, <2>3, <2>4, <2>5, <2>6
<1>10. ASSUME NEW t \in Waiters, SettleGone(t) PROVE OneInv'
  <2>1. t = w /\ pc[w] = "overflow" /\ pc'[w] = "relock"
    BY <1>0, <1>1, <1>10 DEF SettleGone
  <2>2. /\ blocked' = blocked - gone /\ gone' = 0 /\ to_unblock' = to_unblock
        /\ nsignal' = nsignal /\ sem_queue' = sem_queue
    BY <1>10 DEF SettleGone, sloc
  <2>3. /\ IsEnrolled(w) = 0 /\ HasToken(w) = 0 /\ StillDrain(w) = 0
        /\ (IsEnrolled(w))' = 0 /\ (HasToken(w))' = 0 /\ (StillDrain(w))' = 0
    BY <2>1 DEF IsEnrolled, HasToken, StillDrain
  <2>4. Pending' = Pending /\ P' = P
    BY <1>b, <2>2 DEF P
  <2> QED
    BY <1>a, <1>0, <1>2, <2>2, <2>3, <2>4
<1>11. ASSUME NEW t \in Waiters, DrainToken(t) PROVE OneInv'
  <2>1. /\ t = w /\ pc[w] = "drain" /\ pc'[w] = "drain" /\ ngone'[w] = ngone[w] - 1
        /\ ngone[w] \in Nat
    BY <1>0, <1>1, <1>11 DEF DrainToken
  <2>2. /\ blocked' = blocked /\ gone' = gone /\ to_unblock' = to_unblock
        /\ nsignal' = nsignal /\ sem_queue' = sem_queue - 1
    BY <1>11 DEF DrainToken, cnt, sloc
  <2>3. /\ IsEnrolled(w) = 0 /\ HasToken(w) = 0 /\ StillDrain(w) = ngone[w]
        /\ (IsEnrolled(w))' = 0 /\ (HasToken(w))' = 0 /\ (StillDrain(w))' = ngone[w] - 1
    BY <2>1 DEF IsEnrolled, HasToken, StillDrain
  <2>4. Pending' = Pending /\ P' = P
    BY <1>b, <2>2 DEF P
  <2> QED
    BY <1>a, <1>0, <1>2, <2>1, <2>2, <2>3, <2>4
<1>12. ASSUME NEW s \in Signallers, NEW all \in Kinds, SignalMore(s, all) PROVE FALSE
  BY <1>0, <1>c, <1>12 DEF SignalMore
<1>13. ASSUME NEW s \in Signallers, NEW all \in Kinds, SignalFirst(s, all) PROVE OneInv'
  <2>1. /\ blocked' = blocked /\ gone' = gone /\ to_unblock' = to_unblock
        /\ nsignal' = nsignal /\ sem_queue' = sem_queue
        /\ timeout' = timeout /\ ngone' = ngone /\ pc' = [pc EXCEPT ![s] = "close"]
    BY <1>13 DEF SignalFirst, cnt, sems, wloc
  <2>2. Pending' = Pending /\ P' = P
    BY <1>b, <2>1 DEF P
  <2> QED
    BY <1>a, <1>2, <1>d, <2>1, <2>2
<1>14. ASSUME NEW s \in Signallers, CloseGate(s) PROVE OneInv'
  <2> DEFINE n == IF broadcast[s] THEN blocked - gone ELSE 1
  <2>1. /\ pc[s] = "close" /\ pc' = [pc EXCEPT ![s] = "post"]
        /\ nsignal' = [nsignal EXCEPT ![s] = n]
    BY <1>14 DEF CloseGate
  <2>2. to_unblock = 0 /\ blocked > gone
    BY <1>14 DEF CloseGate, CondInv, MonitorInv
  <2>3. /\ to_unblock' = n /\ blocked' = blocked - gone - n /\ gone' = 0
        /\ sem_queue' = sem_queue /\ timeout' = timeout /\ ngone' = ngone
    BY <1>14 DEF CloseGate, wloc
  <2>4. n \in Nat
    BY <1>0, <2>2
  <2> HIDE DEF n
  <2>5. IsFiniteSet(Pending') /\ P' = P + n
    BY <1>0, <1>2, <1>c, <2>1, <2>4, PendingGain DEF P
  <2>6. /\ (IsEnrolled(w))' = IsEnrolled(w) /\ (HasToken(w))' = HasToken(w)
        /\ (StillDrain(w))' = StillDrain(w)
    BY <1>d, <2>1, <2>3
  <2> QED
    BY <1>a, <1>0, <1>2, <1>e, <2>2, <2>3, <2>4, <2>5, <2>6
<1>15. ASSUME NEW s \in Signallers, PostTokens(s) PROVE OneInv'
  <2>1. pc' = [pc EXCEPT ![s] = "idle"] /\ nsignal' = [nsignal EXCEPT ![s] = 0]
    BY <1>15 DEF PostTokens
  <2>2. /\ blocked' = blocked /\ gone' = gone /\ to_unblock' = to_unblock
        /\ sem_queue' = sem_queue + nsignal[s] /\ timeout' = timeout /\ ngone' = ngone
    BY <1>15 DEF PostTokens, cnt, wloc
  <2>3. IsFiniteSet(Pending') /\ P' = P - nsignal[s] /\ nsignal[s] \in Nat
    BY <1>0, <1>2, <2>1, PendingLoss DEF P
  <2>4. /\ (IsEnrolled(w))' = IsEnrolled(w) /\ (HasToken(w))' = HasToken(w)
        /\ (StillDrain(w))' = StillDrain(w)
    BY <1>d, <2>1, <2>2
  <2> QED
    BY <1>a, <1>0, <1>2, <1>e, <2>2, <2>3, <2>4
<1>16. CASE UNCHANGED vars
  <2>1. Pending' = Pending /\ P' = P
    BY <1>b, <1>16 DEF vars, sloc, P
  <2>2. /\ (IsEnrolled(w))' = IsEnrolled(w) /\ (HasToken(w))' = HasToken(w)
        /\ (StillDrain(w))' = StillDrain(w)
    BY <1>16 DEF vars, wloc, IsEnrolled, HasToken, StillDrain
  <2> QED
    BY <1>16, <1>a, <1>2, <2>1, <2>2 DEF vars, cnt, sems
<1> QED
  BY <1>4, <1>5, <1>6, <1>7, <1>8, <1>9, <1>10, <1>11, <1>12, <1>13, <1>14, <1>15, <1>16
     DEF Next, WaitStep, SignalStep, SignalCall, SignalNobody

(***************************************************************************)
(* A condition variable on which one thread waits, with timeouts and any   *)
(* signallers: a signal finds the thread, and a thread that timed out      *)
(* while it was being signalled gets the token it has to drain, so that it *)
(* opens the gate again.  Neither holds when cnd_signal is called with     *)
(* several timed waiters.                                                  *)
(***************************************************************************)
THEOREM OneWaiterIsServed ==
  ASSUME Cardinality(Waiters) = 1
  PROVE  Spec => [](SignalFindsWaiters /\ DrainEnds)
<1>1. CondInv /\ OneInv /\ [Next]_vars => OneInv'
  BY OneNextInv
<1>2. Spec => [](CondInv /\ OneInv)
  BY <1>1, OneInitInv, CondCorrect, PTL DEF Spec
<1>3. CondInv /\ OneInv => SignalFindsWaiters
  <2> SUFFICES ASSUME CondInv, OneInv, Settled, NEW t \in Waiting
               PROVE  blocked > gone
    BY DEF SignalFindsWaiters
  <2>1. t \in Waiters /\ IsEnrolled(t) = 1
    BY DEF Waiting, IsEnrolled
  <2>2. blocked - gone + to_unblock = 1 /\ to_unblock = 0
    BY <2>1 DEF OneInv, Settled
  <2>3. blocked \in Int /\ gone \in Int
    BY CondAssumption DEF CondInv, TypeOK
  <2> QED
    BY <2>2, <2>3
<1>4. CondInv /\ OneInv => DrainEnds
  <2> SUFFICES ASSUME CondInv, OneInv, NEW t \in Waiters, pc[t] = "drain", ngone[t] > 0,
                      ~ (sem_queue > 0), \A s \in Signallers : pc[s] = "idle"
               PROVE  FALSE
    BY DEF DrainEnds
  <2>0. sem_queue = 0
    BY DEF CondInv, TypeOK
  <2>1. Pending = {}
    BY DEF Pending, CondInv, CountInv
  <2>2. Cardinality(Pending) = 0
    BY <2>1, FS_EmptySet
  <2>3. to_unblock \in Nat /\ ngone[t] \in Nat
    BY DEF CondInv, TypeOK
  <2>4. HasToken(t) = 0 /\ StillDrain(t) = ngone[t]
    BY DEF HasToken, StillDrain
  <2>5. 0 + 0 + 0 = to_unblock + ngone[t]
    BY <2>0, <2>2, <2>4 DEF OneInv
  <2> QED
    BY <2>3, <2>5
<1> QED
  BY <1>2, <1>3, <1>4, PTL


-----------------------------------------------------------------------------
(***************************************************************************)
(* Broadcasts only, any number of threads that wait with a timeout: nobody *)
(* stays blocked while others are being unblocked, so a thread that times  *)
(* out in between is counted in gone, and gone and to_unblock together     *)
(* account for every token, until the last thread drains what is left.     *)
(***************************************************************************)
Holders == {t \in Waiters : pc[t] = "account" /\ ~ timeout[t]}
Tokens  == sem_queue + Cardinality(Pending) + Cardinality(Holders)

BroadcastInv ==
  /\ \A s \in Signallers : pc[s] = "close" => broadcast[s]
  /\ IsFiniteSet(Pending)
  /\ to_unblock > 0 =>
       /\ blocked = 0 /\ Cardinality(Enrolled) = to_unblock
       /\ Tokens = to_unblock + gone
  /\ to_unblock = 0 => Cardinality(Enrolled) = blocked - gone
  /\ \A t \in Waiters : pc[t] = "drain" =>
       Cardinality(Enrolled) = 0 /\ Tokens = ngone[t]
  /\ to_unblock = 0 /\ (\A t \in Waiters : pc[t] # "drain") => Tokens = 0

(* How many threads hold a token after a step of a waiter. *)
LEMMA HoldersCount ==
  ASSUME pc \in [Waiters \union Signallers -> WaiterPC \union SignallerPC],
         timeout \in [Waiters -> BOOLEAN],
         NEW t \in Waiters, NEW to, pc' = [pc EXCEPT ![t] = to],
         \A u \in Waiters \ {t} : timeout'[u] = timeout[u]
  PROVE  LET before == pc[t] = "account" /\ ~ timeout[t]
             after  == to = "account" /\ ~ timeout'[t]
         IN
         /\ (before <=> after) => Cardinality(Holders') = Cardinality(Holders)
         /\ ~ before /\ after => Cardinality(Holders') = Cardinality(Holders) + 1
         /\ before /\ ~ after => Cardinality(Holders') = Cardinality(Holders) - 1
<1> DEFINE before == pc[t] = "account" /\ ~ timeout[t]
           after  == to = "account" /\ ~ timeout'[t]
<1>1. Holders \in SUBSET Waiters /\ (t \in Holders <=> before)
  BY DEF Holders
<1>2. Holders' = IF after THEN Holders \union {t} ELSE Holders \ {t}
  <2>1. \A u \in Waiters : pc'[u] = IF u = t THEN to ELSE pc[u]
    OBVIOUS
  <2>2. \A u \in Waiters : u # t => (u \in Holders' <=> u \in Holders)
    BY <2>1 DEF Holders
  <2>3. t \in Holders' <=> after
    BY <2>1 DEF Holders
  <2>4. Holders' \in SUBSET Waiters
    BY DEF Holders
  <2> HIDE DEF after
  <2> QED
    BY <1>1, <2>2, <2>3, <2>4
<1> HIDE DEF before, after
<1>3. (before <=> after) => Holders' = Holders
  BY <1>1, <1>2
<1>4. ~ before /\ after => Cardinality(Holders') = Cardinality(Holders) + 1
  BY <1>1, <1>2, CountGain
<1>5. before /\ ~ after => Cardinality(Holders') = Cardinality(Holders) - 1
  BY <1>1, <1>2, CountLoss
<1> QED
  BY <1>3, <1>4, <1>5 DEF before, after

LEMMA BroadcastInitInv == Init => BroadcastInv
<1> SUFFICES ASSUME Init PROVE BroadcastInv
  OBVIOUS
<1>1. Enrolled = {} /\ Holders = {} /\ Pending = {}
  BY DEF Init, Enrolled, Holders, Pending
<1>2. \A t \in Waiters : pc[t] # "drain"
  BY DEF Init
<1>3. \A s \in Signallers : pc[s] # "close"
  BY CondAssumption DEF Init
<1> QED
  BY <1>1, <1>2, <1>3, FS_EmptySet DEF Init, BroadcastInv, Tokens

LEMMA BroadcastNextInv ==
  ASSUME Kinds = {TRUE}, CondInv, BroadcastInv, [Next]_vars
  PROVE  BroadcastInv'
<1> DEFINE E == Cardinality(Enrolled)
           H == Cardinality(Holders)
           P == Cardinality(Pending)
<1>0. /\ to_unblock \in Nat /\ gone \in Nat /\ blocked \in Int /\ sem_queue \in Nat
      /\ timeout \in [Waiters -> BOOLEAN] /\ ngone \in [Waiters -> Nat]
      /\ nsignal \in [Signallers -> Nat] /\ broadcast \in [Signallers -> BOOLEAN]
      /\ pc \in [Waiters \union Signallers -> WaiterPC \union SignallerPC]
  BY CondAssumption DEF CondInv, TypeOK
<1>1. E \in Nat /\ H \in Nat /\ P \in Nat
  <2>1. Enrolled \in SUBSET Waiters /\ Holders \in SUBSET Waiters
    BY DEF Enrolled, Holders
  <2> QED
    BY <2>1, Counted, FS_CardinalityType DEF BroadcastInv
<1>2. /\ \A s \in Signallers : pc[s] = "close" => broadcast[s]
      /\ IsFiniteSet(Pending)
      /\ to_unblock > 0 => blocked = 0 /\ E = to_unblock /\ sem_queue + P + H = to_unblock + gone
      /\ to_unblock = 0 => E = blocked - gone
      /\ \A t \in Waiters : pc[t] = "drain" => E = 0 /\ sem_queue + P + H = ngone[t]
      /\ to_unblock = 0 /\ (\A t \in Waiters : pc[t] # "drain") => sem_queue + P + H = 0
  BY DEF BroadcastInv, Tokens
<1>a. ASSUME \A s \in Signallers : pc'[s] = "close" => broadcast'[s],
             IsFiniteSet(Pending'),
             to_unblock' > 0 => /\ blocked' = 0 /\ E' = to_unblock'
                                /\ sem_queue' + P' + H' = to_unblock' + gone',
             to_unblock' = 0 => E' = blocked' - gone',
             \A t \in Waiters : pc'[t] = "drain" =>
               E' = 0 /\ sem_queue' + P' + H' = ngone'[t],
             to_unblock' = 0 /\ (\A t \in Waiters : pc'[t] # "drain") =>
               sem_queue' + P' + H' = 0
      PROVE  BroadcastInv'
  BY <1>a DEF BroadcastInv, Tokens
<1>b. nsignal' = nsignal => Pending' = Pending /\ P' = P
  BY DEF Pending
<1>c. \A s \in Signallers : pc[s] # "post" => nsignal[s] = 0
  BY DEF CondInv, CountInv
(* A step of a waiter leaves the signallers where they are. *)
<1>d. ASSUME NEW t \in Waiters, NEW to, pc' = [pc EXCEPT ![t] = to],
             nsignal' = nsignal, broadcast' = broadcast
      PROVE  /\ \A s \in Signallers : pc'[s] = "close" => broadcast'[s]
             /\ IsFiniteSet(Pending') /\ P' = P
             /\ \A u \in Waiters : pc'[u] = IF u = t THEN to ELSE pc[u]
  <2>1. \A s \in Signallers : pc'[s] = pc[s]
    BY <1>0, <1>d, CondAssumption
  <2> QED
    BY <1>0, <1>2, <1>b, <1>d, <2>1
(* A step of a signaller leaves the waiters where they are. *)
<1>e. ASSUME NEW s \in Signallers, NEW to, pc' = [pc EXCEPT ![s] = to],
             timeout' = timeout, ngone' = ngone
      PROVE  E' = E /\ H' = H /\ \A u \in Waiters : pc'[u] = pc[u]
  <2>1. \A u \in Waiters : pc'[u] = pc[u]
    BY <1>0, <1>e, CondAssumption
  <2>2. Enrolled' = Enrolled /\ Holders' = Holders
    BY <1>e, <2>1 DEF Enrolled, Holders
  <2> QED
    BY <2>1, <2>2
<1>f. \A t, u \in Waiters : pc[t] \in {"register", "drain"} /\ pc[u] \in {"register", "drain"}
                              => t = u
  BY DEF CondInv, GateInv
<1>g. \A t \in Waiters : pc[t] \in {"register", "drain"} => sem_gate = 0 /\ to_unblock = 0
  BY DEF CondInv, GateInv
(* Whoever is enrolled is counted, so nobody drains. *)
<1>h. ASSUME NEW t \in Waiters, pc[t] \in {"unlock", "queue", "account"}
      PROVE  E # 0 /\ \A u \in Waiters : pc[u] # "drain"
  <2>1. t \in Enrolled /\ Enrolled \in SUBSET Waiters
    BY <1>h DEF Enrolled
  <2>2. E # 0
    BY <2>1, Counted, FS_EmptySet
  <2> QED
    BY <1>2, <2>2
<1> HIDE DEF E, H, P
<1> USE DEF Goto
<1>4. ASSUME NEW t \in Waiters,
             \/ MtxLock(t) \/ MtxUnlock(t) \/ CallWait(t) \/ WaitUnlock(t)
             \/ WaitRelock(t) \/ TakeGate(t)
      PROVE  BroadcastInv'
  <2>1. /\ blocked' = blocked /\ gone' = gone /\ to_unblock' = to_unblock
        /\ nsignal' = nsignal /\ sem_queue' = sem_queue /\ broadcast' = broadcast
        /\ timeout' = timeout /\ ngone' = ngone
    BY <1>4 DEF MtxLock, MtxUnlock, CallWait, WaitUnlock, WaitRelock, TakeGate,
                cnt, sems, sloc, wloc
  <2>2. PICK to : /\ pc' = [pc EXCEPT ![t] = to]
                  /\ (pc[t] \in {"unlock", "queue", "account"}
                       <=> to \in {"unlock", "queue", "account"})
                  /\ pc[t] # "account" /\ to # "account"
                  /\ pc[t] # "drain" /\ to # "drain"
    BY <1>4 DEF MtxLock, MtxUnlock, CallWait, WaitUnlock, WaitRelock, TakeGate
  <2>3. E' = E
    BY <1>0, <2>2, EnrolledCount DEF E
  <2>4. H' = H
    BY <1>0, <2>1, <2>2, HoldersCount DEF H
  <2>d. /\ \A s \in Signallers : pc'[s] = "close" => broadcast'[s]
        /\ IsFiniteSet(Pending') /\ P' = P
        /\ \A u \in Waiters : pc'[u] = IF u = t THEN to ELSE pc[u]
    BY <1>d, <2>1, <2>2
  <2>5. \A u \in Waiters : pc'[u] = "drain" <=> pc[u] = "drain"
    BY <2>1, <2>2, <2>d
  <2> QED
    BY <1>a, <1>2, <2>1, <2>3, <2>4, <2>5, <2>d
<1>5. ASSUME NEW t \in Waiters, Register(t) PROVE BroadcastInv'
  <2>1. /\ blocked' = blocked + 1 /\ gone' = gone /\ to_unblock' = to_unblock
        /\ nsignal' = nsignal /\ sem_queue' = sem_queue /\ broadcast' = broadcast
        /\ timeout' = timeout /\ ngone' = ngone
    BY <1>5 DEF Register, CondInv, GateInv, sloc, wloc
  <2>2. PICK to : /\ pc' = [pc EXCEPT ![t] = to] /\ pc[t] = "register"
                  /\ to \in {"unlock", "queue", "account"}
                  /\ pc[t] # "account" /\ to # "account" /\ to # "drain"
    BY <1>5 DEF Register
  <2>3. E' = E + 1
    BY <1>0, <2>2, EnrolledCount DEF E
  <2>4. H' = H
    BY <1>0, <2>1, <2>2, HoldersCount DEF H
  <2>d. /\ \A s \in Signallers : pc'[s] = "close" => broadcast'[s]
        /\ IsFiniteSet(Pending') /\ P' = P
        /\ \A u \in Waiters : pc'[u] = IF u = t THEN to ELSE pc[u]
    BY <1>d, <2>1, <2>2
  <2>5. \A u \in Waiters : pc[u] # "drain" /\ pc'[u] # "drain"
    BY <1>f, <2>1, <2>2, <2>d
  <2>6. to_unblock = 0
    BY <1>g, <2>2
  <2> QED
    BY <1>a, <1>0, <1>1, <1>2, <2>1, <2>3, <2>4, <2>5, <2>d, <2>6
<1>6. ASSUME NEW t \in Waiters, TakeToken(t) PROVE BroadcastInv'
  <2>1. /\ blocked' = blocked /\ gone' = gone /\ to_unblock' = to_unblock
        /\ nsignal' = nsignal /\ sem_queue' = sem_queue - 1 /\ broadcast' = broadcast
        /\ timeout' = [timeout EXCEPT ![t] = FALSE] /\ ngone' = ngone
    BY <1>6 DEF TakeToken, cnt, sloc
  <2>2. pc[t] = "queue" /\ pc' = [pc EXCEPT ![t] = "account"]
    BY <1>6 DEF TakeToken
  <2>3. E' = E
    BY <1>0, <2>2, EnrolledCount DEF E
  <2>4. H' = H + 1
    BY <1>0, <2>1, <2>2, HoldersCount DEF H
  <2>d. /\ \A s \in Signallers : pc'[s] = "close" => broadcast'[s]
        /\ IsFiniteSet(Pending') /\ P' = P
        /\ \A u \in Waiters : pc'[u] = IF u = t THEN "account" ELSE pc[u]
    BY <1>d, <2>1, <2>2
  <2>5. \A u \in Waiters : pc[u] # "drain" /\ pc'[u] # "drain"
    BY <1>h, <2>1, <2>2, <2>d
  <2>6. sem_queue' + P' + H' = sem_queue + P + H
    BY <1>0, <1>1, <2>1, <2>4, <2>5, <2>d
  <2> QED
    BY <1>a, <1>2, <2>1, <2>3, <2>5, <2>d, <2>6
<1>7. ASSUME NEW t \in Waiters, WaitTimeout(t) PROVE BroadcastInv'
  <2>1. /\ blocked' = blocked /\ gone' = gone /\ to_unblock' = to_unblock
        /\ nsignal' = nsignal /\ sem_queue' = sem_queue /\ broadcast' = broadcast
        /\ timeout' = [timeout EXCEPT ![t] = TRUE] /\ ngone' = ngone
    BY <1>7 DEF WaitTimeout, cnt, sems, sloc
  <2>2. pc[t] = "queue" /\ pc' = [pc EXCEPT ![t] = "account"]
    BY <1>7 DEF WaitTimeout
  <2>3. E' = E
    BY <1>0, <2>2, EnrolledCount DEF E
  <2>4. H' = H
    BY <1>0, <2>1, <2>2, HoldersCount DEF H
  <2>d. /\ \A s \in Signallers : pc'[s] = "close" => broadcast'[s]
        /\ IsFiniteSet(Pending') /\ P' = P
        /\ \A u \in Waiters : pc'[u] = IF u = t THEN "account" ELSE pc[u]
    BY <1>d, <2>1, <2>2
  <2>5. \A u \in Waiters : pc[u] # "drain" /\ pc'[u] # "drain"
    BY <1>h, <2>1, <2>2, <2>d
  <2> QED
    BY <1>a, <1>2, <2>1, <2>3, <2>4, <2>5, <2>d
<1>8. ASSUME NEW t \in Waiters, AccountUnblocked(t) PROVE BroadcastInv'
  <2> DEFINE late == IF timeout[t] THEN 1 ELSE 0
             to   == IF to_unblock = 1 THEN "drain" ELSE "relock"
  <2>1. to_unblock > 0 /\ pc[t] = "account" /\ blocked = 0
    BY <1>0, <1>2, <1>8 DEF AccountUnblocked
  <2>2. /\ to_unblock' = to_unblock - 1 /\ blocked' = 0
        /\ nsignal' = nsignal /\ sem_queue' = sem_queue /\ broadcast' = broadcast
        /\ timeout' = timeout
    BY <1>8, <2>1 DEF AccountUnblocked, sloc
  <2>c. pc' = [pc EXCEPT ![t] = to]
    BY <1>0, <1>8, <2>1 DEF AccountUnblocked
  <2>3. /\ pc' = [pc EXCEPT ![t] = to]
        /\ to \notin {"unlock", "queue", "account"} /\ to # "account"
        /\ to_unblock = 1 <=> to = "drain"
    BY <2>c
  <2> HIDE DEF to
  <2>4. E' = E - 1
    BY <1>0, <2>1, <2>3, EnrolledCount DEF E
  <2>5. H' = H - 1 + late
    <3>1. timeout[t] => H' = H
      BY <1>0, <2>1, <2>2, <2>3, HoldersCount DEF H
    <3>2. ~ timeout[t] => H' = H - 1
      BY <1>0, <2>1, <2>2, <2>3, HoldersCount DEF H
    <3> QED
      BY <1>1, <3>1, <3>2
  <2>d. /\ \A s \in Signallers : pc'[s] = "close" => broadcast'[s]
        /\ IsFiniteSet(Pending') /\ P' = P
        /\ \A u \in Waiters : pc'[u] = IF u = t THEN to ELSE pc[u]
    BY <1>d, <2>1, <2>2, <2>3
  <2>6. \A u \in Waiters : pc[u] # "drain"
    BY <1>h, <2>1, <2>2, <2>3, <2>d
  <2>7. /\ to_unblock # 1 => gone' = gone + late
        /\ to_unblock = 1 => gone' = 0 /\ ngone'[t] = gone + late
    BY <1>0, <1>8, <2>1 DEF AccountUnblocked
  <2>8. late \in Nat
    OBVIOUS
  <2> HIDE DEF late
  <2>9. sem_queue' + P' + H' = to_unblock' + gone + late /\ E' = to_unblock'
    BY <1>0, <1>1, <1>2, <2>1, <2>2, <2>4, <2>5, <2>6, <2>d, <2>8
  <2>10. CASE to_unblock = 1
    BY <1>a, <1>0, <2>1, <2>2, <2>3, <2>6, <2>d, <2>7, <2>8, <2>9, <2>10
  <2>11. CASE to_unblock # 1
    <3>1. to_unblock' > 0 /\ \A u \in Waiters : pc'[u] # "drain"
      BY <1>0, <2>1, <2>2, <2>3, <2>6, <2>d, <2>11
    <3>2. gone' = gone + late
      BY <2>7, <2>11
    <3>3. sem_queue' + P' + H' = to_unblock' + gone'
      BY <1>0, <2>1, <2>2, <2>8, <2>9, <3>2
    <3> QED
      BY <1>a, <2>2, <2>6, <2>d, <2>9, <3>1, <3>3
  <2> QED
    BY <2>10, <2>11
<1>9. ASSUME NEW t \in Waiters, AccountGone(t) PROVE BroadcastInv'
  <2>1. PICK to \in {"overflow", "relock"} :
          pc[t] = "account" /\ pc' = [pc EXCEPT ![t] = to]
    BY <1>9 DEF AccountGone
  <2>2. /\ blocked' = blocked /\ gone' = gone + 1 /\ to_unblock' = to_unblock
        /\ nsignal' = nsignal /\ sem_queue' = sem_queue /\ broadcast' = broadcast
        /\ timeout' = timeout /\ to_unblock = 0
    BY <1>9 DEF AccountGone, sems, sloc, wloc
  <2>3. E' = E - 1
    BY <1>0, <2>1, EnrolledCount DEF E
  <2>d. /\ \A s \in Signallers : pc'[s] = "close" => broadcast'[s]
        /\ IsFiniteSet(Pending') /\ P' = P
        /\ \A u \in Waiters : pc'[u] = IF u = t THEN to ELSE pc[u]
    BY <1>d, <2>1, <2>2
  <2>4. \A u \in Waiters : pc[u] # "drain" /\ pc'[u] # "drain"
    BY <1>h, <2>1, <2>2, <2>d
  <2>5. sem_queue = 0 /\ P = 0 /\ H = 0
    BY <1>0, <1>1, <1>2, <2>2, <2>4, <2>d
  <2>6. timeout[t]
    <3> SUFFICES ASSUME ~ timeout[t] PROVE FALSE
      OBVIOUS
    <3>1. t \in Holders /\ Holders \in SUBSET Waiters
      BY <2>1 DEF Holders
    <3> QED
      BY <2>5, <3>1, Counted, FS_EmptySet DEF H
  <2>7. H' = H
    BY <1>0, <2>1, <2>2, <2>6, HoldersCount DEF H
  <2> QED
    BY <1>a, <1>0, <1>1, <1>2, <2>2, <2>3, <2>4, <2>d, <2>5, <2>7
<1>10. ASSUME NEW t \in Waiters, SettleGone(t) PROVE BroadcastInv'
  <2>1. PICK to : /\ pc' = [pc EXCEPT ![t] = to] /\ pc[t] = "overflow" /\ sem_gate > 0
                  /\ pc[t] \notin {"unlock", "queue", "account"}
                  /\ to \notin {"unlock", "queue", "account"}
                  /\ pc[t] # "account" /\ to # "account" /\ to # "drain"
    BY <1>10 DEF SettleGone
  <2>2. /\ blocked' = blocked - gone /\ gone' = 0 /\ to_unblock' = to_unblock
        /\ nsignal' = nsignal /\ sem_queue' = sem_queue /\ broadcast' = broadcast
        /\ timeout' = timeout /\ ngone' = ngone
    BY <1>10 DEF SettleGone, sloc, wloc
  <2>3. to_unblock = 0
    BY <2>1 DEF CondInv, MonitorInv
  <2>4. E' = E
    BY <1>0, <2>1, EnrolledCount DEF E
  <2>5. H' = H
    BY <1>0, <2>1, <2>2, HoldersCount DEF H
  <2>d. /\ \A s \in Signallers : pc'[s] = "close" => broadcast'[s]
        /\ IsFiniteSet(Pending') /\ P' = P
        /\ \A u \in Waiters : pc'[u] = IF u = t THEN to ELSE pc[u]
    BY <1>d, <2>1, <2>2
  <2>6. \A u \in Waiters : pc[u] # "drain" /\ pc'[u] # "drain"
    BY <1>g, <2>1, <2>2, <2>d
  <2> QED
    BY <1>a, <1>0, <1>1, <1>2, <2>2, <2>3, <2>4, <2>5, <2>6, <2>d
<1>11. ASSUME NEW t \in Waiters, DrainToken(t) PROVE BroadcastInv'
  <2>1. /\ pc[t] = "drain" /\ pc' = [pc EXCEPT ![t] = "drain"]
        /\ ngone' = [ngone EXCEPT ![t] = @ - 1]
    BY <1>11 DEF DrainToken
  <2>2. /\ blocked' = blocked /\ gone' = gone /\ to_unblock' = to_unblock
        /\ nsignal' = nsignal /\ sem_queue' = sem_queue - 1 /\ broadcast' = broadcast
        /\ timeout' = timeout
    BY <1>11 DEF DrainToken, cnt, sloc
  <2>3. E' = E
    BY <1>0, <2>1, EnrolledCount DEF E
  <2>4. H' = H
    BY <1>0, <2>1, <2>2, HoldersCount DEF H
  <2>d. /\ \A s \in Signallers : pc'[s] = "close" => broadcast'[s]
        /\ IsFiniteSet(Pending') /\ P' = P
        /\ \A u \in Waiters : pc'[u] = IF u = t THEN "drain" ELSE pc[u]
    BY <1>d, <2>1, <2>2
  <2>5. \A u \in Waiters : pc'[u] = "drain" <=> u = t
    BY <1>f, <2>1, <2>2, <2>d
  <2>6. E = 0 /\ sem_queue + P + H = ngone[t] /\ to_unblock = 0
    BY <1>2, <1>g, <2>1
  <2>7. sem_queue' + P' + H' = ngone'[t]
    BY <1>0, <1>1, <2>1, <2>2, <2>4, <2>5, <2>d, <2>6
  <2>8. to_unblock' = 0 /\ E' = 0 /\ E' = blocked' - gone'
    BY <1>2, <2>2, <2>3, <2>6
  <2> QED
    BY <1>a, <2>5, <2>d, <2>7, <2>8
<1>12. ASSUME NEW t \in Waiters, DrainDone(t) PROVE BroadcastInv'
  <2>1. PICK to : /\ pc' = [pc EXCEPT ![t] = to] /\ pc[t] = "drain" /\ ngone[t] = 0
                  /\ pc[t] \notin {"unlock", "queue", "account"}
                  /\ to \notin {"unlock", "queue", "account"}
                  /\ pc[t] # "account" /\ to # "account" /\ to # "drain"
    BY <1>12 DEF DrainDone
  <2>2. /\ blocked' = blocked /\ gone' = gone /\ to_unblock' = to_unblock
        /\ nsignal' = nsignal /\ sem_queue' = sem_queue /\ broadcast' = broadcast
        /\ timeout' = timeout
    BY <1>12 DEF DrainDone, cnt, sloc, wloc
  <2>3. E' = E
    BY <1>0, <2>1, EnrolledCount DEF E
  <2>4. H' = H
    BY <1>0, <2>1, <2>2, HoldersCount DEF H
  <2>d. /\ \A s \in Signallers : pc'[s] = "close" => broadcast'[s]
        /\ IsFiniteSet(Pending') /\ P' = P
        /\ \A u \in Waiters : pc'[u] = IF u = t THEN to ELSE pc[u]
    BY <1>d, <2>1, <2>2
  <2>5. \A u \in Waiters : pc'[u] # "drain"
    BY <1>f, <2>1, <2>2, <2>d
  <2>6. sem_queue + P + H = 0 /\ to_unblock = 0
    BY <1>2, <1>g, <2>1
  <2> QED
    BY <1>a, <1>2, <2>2, <2>3, <2>4, <2>5, <2>d, <2>6
<1>13. ASSUME NEW s \in Signallers, NEW all \in Kinds, SignalMore(s, all) PROVE FALSE
  BY <1>0, <1>2, <1>13 DEF SignalMore
<1>14. ASSUME NEW s \in Signallers, NEW all \in Kinds, SignalFirst(s, all)
       PROVE  BroadcastInv'
  <2>1. /\ blocked' = blocked /\ gone' = gone /\ to_unblock' = to_unblock
        /\ nsignal' = nsignal /\ sem_queue' = sem_queue
        /\ timeout' = timeout /\ ngone' = ngone /\ pc' = [pc EXCEPT ![s] = "close"]
        /\ broadcast' = [broadcast EXCEPT ![s] = TRUE]
    BY <1>14 DEF SignalFirst, cnt, sems, wloc
  <2>2. E' = E /\ H' = H /\ \A u \in Waiters : pc'[u] = pc[u]
    BY <1>e, <2>1
  <2>3. \A r \in Signallers : pc'[r] = "close" => broadcast'[r]
    BY <1>0, <1>2, <2>1
  <2>4. IsFiniteSet(Pending') /\ P' = P
    BY <1>2, <1>b, <2>1
  <2> QED
    BY <1>a, <1>2, <2>1, <2>2, <2>3, <2>4
<1>15. ASSUME NEW s \in Signallers, CloseGate(s) PROVE BroadcastInv'
  <2> DEFINE n == blocked - gone
  <2>1. pc[s] = "close" /\ pc' = [pc EXCEPT ![s] = "post"] /\ sem_gate > 0
    BY <1>15 DEF CloseGate
  <2>2. to_unblock = 0 /\ blocked > gone /\ broadcast[s]
    BY <1>2, <2>1 DEF CondInv, MonitorInv
  <2>3. /\ nsignal' = [nsignal EXCEPT ![s] = n]
        /\ to_unblock' = n /\ blocked' = blocked - gone - n /\ gone' = 0
        /\ sem_queue' = sem_queue /\ timeout' = timeout /\ ngone' = ngone
        /\ broadcast' = broadcast
    BY <1>15, <2>2 DEF CloseGate, wloc
  <2>4. n \in Nat /\ n > 0 /\ blocked' = 0 /\ n = E
    BY <1>0, <1>2, <2>2, <2>3
  <2> HIDE DEF n
  <2>5. IsFiniteSet(Pending') /\ P' = P + n
    BY <1>0, <1>2, <1>c, <2>1, <2>3, <2>4, PendingGain DEF P
  <2>e. E' = E /\ H' = H /\ \A u \in Waiters : pc'[u] = pc[u]
    BY <1>e, <2>1, <2>3
  <2>6. \A u \in Waiters : pc[u] # "drain" /\ pc'[u] # "drain"
    BY <1>g, <2>1, <2>e
  <2>7. \A r \in Signallers : pc'[r] = "close" => broadcast'[r]
    BY <1>0, <1>2, <2>1, <2>3
  <2>8. sem_queue + P + H = 0
    BY <1>2, <2>2, <2>6
  <2>9. sem_queue' + P' + H' = to_unblock' + gone' /\ to_unblock' > 0
    BY <1>0, <1>1, <2>3, <2>4, <2>5, <2>8, <2>e
  <2> QED
    BY <1>a, <1>0, <1>1, <2>3, <2>4, <2>5, <2>6, <2>7, <2>9, <2>e
<1>16. ASSUME NEW s \in Signallers, PostTokens(s) PROVE BroadcastInv'
  <2>1. pc' = [pc EXCEPT ![s] = "idle"] /\ nsignal' = [nsignal EXCEPT ![s] = 0]
    BY <1>16 DEF PostTokens
  <2>2. /\ blocked' = blocked /\ gone' = gone /\ to_unblock' = to_unblock
        /\ sem_queue' = sem_queue + nsignal[s] /\ broadcast' = broadcast
    BY <1>16 DEF PostTokens, cnt
  <2>w. timeout' = timeout /\ ngone' = ngone
    BY <1>16 DEF PostTokens, wloc
  <2>3. IsFiniteSet(Pending') /\ P' = P - nsignal[s] /\ nsignal[s] \in Nat
    BY <1>0, <1>2, <2>1, PendingLoss DEF P
  <2>4. E' = E /\ H' = H /\ \A u \in Waiters : pc'[u] = pc[u]
    BY <1>e, <2>1, <2>w
  <2>5. \A r \in Signallers : pc'[r] = "close" => broadcast'[r]
    BY <1>0, <1>2, <2>1, <2>2
  <2>6. sem_queue' + P' + H' = sem_queue + P + H
    BY <1>0, <1>1, <2>2, <2>3, <2>4
  <2> QED
    BY <1>a, <1>2, <2>2, <2>3, <2>4, <2>5, <2>6, <2>w
<1>17. CASE UNCHANGED vars
  <2>1. E' = E /\ H' = H /\ Pending' = Pending /\ P' = P
    BY <1>17 DEF vars, sloc, wloc, E, H, P, Enrolled, Holders, Pending
  <2> QED
    BY <1>17, <1>a, <1>2, <2>1 DEF vars, cnt, sems, wloc, sloc
<1> QED
  BY <1>4, <1>5, <1>6, <1>7, <1>8, <1>9, <1>10, <1>11, <1>12, <1>13, <1>14, <1>15, <1>16,
     <1>17
     DEF Next, WaitStep, SignalStep, SignalCall, SignalNobody

(***************************************************************************)
(* A condition variable that is only broadcast to, as wake_worker of the   *)
(* pool is, serves any number of threads that wait with a timeout: when    *)
(* nothing is on its way the next broadcast finds those that wait, and the *)
(* last thread unblocked gets every token it has to drain.                 *)
(***************************************************************************)
THEOREM BroadcastsServeAll ==
  ASSUME Kinds = {TRUE}
  PROVE  Spec => [](SignalFindsWaiters /\ DrainEnds)
<1>1. CondInv /\ BroadcastInv /\ [Next]_vars => BroadcastInv'
  BY BroadcastNextInv
<1>2. Spec => [](CondInv /\ BroadcastInv)
  BY <1>1, BroadcastInitInv, CondCorrect, PTL DEF Spec
<1>3. CondInv /\ BroadcastInv => SignalFindsWaiters
  <2> SUFFICES ASSUME CondInv, BroadcastInv, Settled, NEW t \in Waiting
               PROVE  blocked > gone
    BY DEF SignalFindsWaiters
  <2>1. t \in Enrolled /\ Enrolled \in SUBSET Waiters
    BY DEF Waiting, Enrolled
  <2>2. Cardinality(Enrolled) \in Nat /\ Cardinality(Enrolled) # 0
    BY <2>1, Counted, FS_EmptySet
  <2>3. Cardinality(Enrolled) = blocked - gone
    BY DEF BroadcastInv, Settled
  <2>4. blocked \in Int /\ gone \in Int
    BY CondAssumption DEF CondInv, TypeOK
  <2> QED
    BY <2>2, <2>3, <2>4
<1>4. CondInv /\ BroadcastInv => DrainEnds
  <2> SUFFICES ASSUME CondInv, BroadcastInv, NEW t \in Waiters, pc[t] = "drain", ngone[t] > 0,
                      ~ (sem_queue > 0), \A s \in Signallers : pc[s] = "idle"
               PROVE  FALSE
    BY DEF DrainEnds
  <2>1. sem_queue = 0 /\ Pending = {}
    BY DEF Pending, CondInv, TypeOK, CountInv
  <2>2. Holders = {}
    <3>1. Enrolled \in SUBSET Waiters /\ Cardinality(Enrolled) = 0
      BY DEF BroadcastInv, Enrolled
    <3>2. Enrolled = {}
      BY <3>1, Counted, FS_EmptySet
    <3> QED
      BY <3>2 DEF Enrolled, Holders
  <2>3. Tokens = 0
    BY <2>1, <2>2, FS_EmptySet DEF Tokens
  <2> QED
    BY <2>3 DEF BroadcastInv
<1> QED
  BY <1>2, <1>3, <1>4, PTL
=============================================================================
