----------------------------- MODULE StdAtomic -----------------------------
(***************************************************************************)
(* src/include/compat-atomic/stdatomic.h: the operations on one atomic     *)
(* object of Width bits, called by several threads.  An operation that is  *)
(* one interlocked instruction is one step; fetch_and, fetch_or and        *)
(* fetch_xor are loops around a load and a compare-and-exchange.           *)
(*                                                                         *)
(* A value is the set of its bits that are 1.  The functions for char,     *)
(* short, int, long, llong, their unsigned kin and pointers differ in      *)
(* Width alone; an atomic_flag has operations of its own.  Every memory    *)
(* order is compiled to the strongest one.                                 *)
(***************************************************************************)
EXTENDS Integers
LOCAL INSTANCE FiniteSetsExt

CONSTANTS
  Threads,
  Width,     \* the bits of the object
  ArgWidth,  \* the bits of the argument's own unsigned type: fewer than Width
             \* for an unsigned int subtracted from a long long
  Args,      \* the values passed as arguments, in bits
  Ops,       \* the operations that are called
  MaxCalls   \* bound on the number of calls

FlagOps == {"test_and_set", "clear"}
Looped == {"fetch_and", "fetch_or", "fetch_xor"}
Plain == {"load", "exchange", "cas", "fetch_add", "fetch_sub"}

ASSUME AtomicAssumption ==
  /\ Width \in Nat /\ ArgWidth \in 1..Width
  /\ Args \subseteq SUBSET (0..(ArgWidth - 1))
  /\ Ops \subseteq FlagOps \union Looped \union Plain
  /\ MaxCalls \in Nat

VARIABLES
  obj,       \* the atomic object
  isflag,    \* whether it is an atomic_flag; never changes
  pc,        \* per thread: where it is in the operation
  call,      \* per thread: the operation, its argument and *expected
  oldval,    \* per thread: the local of the fetch loop
  result,    \* per thread: the value returned last
  calls      \* how many calls have been made

vars == <<obj, isflag, pc, call, oldval, result, calls>>

Value     == SUBSET (0..(Width - 1))
Number(v) == MapThenSumSet(LAMBDA i : 2^i, v)
Bits(n)   == {i \in 0..(Width - 1) : (n \div 2^i) % 2 = 1}
Bool(b)   == IF b THEN {0} ELSE {}

Init ==
  /\ obj = {}
  /\ isflag \in BOOLEAN
  /\ pc = [t \in Threads |-> "idle"]
  /\ call = [t \in Threads |-> [op |-> "load", arg |-> {}, expected |-> {}]]
  /\ oldval = [t \in Threads |-> {}]
  /\ result = [t \in Threads |-> {}]
  /\ calls = 0

Invoke(t) ==
  /\ pc[t] = "idle"
  /\ calls < MaxCalls /\ calls' = calls + 1
  /\ \E o \in Ops, a \in Args, e \in Args :
       /\ o \in FlagOps <=> isflag
       /\ o # "cas" => e = {}
       /\ o \in FlagOps \union {"load"} => a = {}
       /\ call' = [call EXCEPT ![t] = [op |-> o, arg |-> a, expected |-> e]]
       /\ pc' = [pc EXCEPT ![t] = IF o \in Looped THEN "load" ELSE "run"]
  /\ UNCHANGED <<obj, isflag, oldval, result>>

-----------------------------------------------------------------------------
(* The operation ends: the object becomes new and the call returns val. *)
Return(t, from, new, val) ==
  /\ pc[t] = from
  /\ obj' = new
  /\ result' = [result EXCEPT ![t] = val]
  /\ pc' = [pc EXCEPT ![t] = "idle"]
  /\ UNCHANGED <<isflag, call, oldval, calls>>

Load(t) ==
  /\ call[t].op = "load"
  /\ Return(t, "run", obj, obj)

(* atomic_exchange and, its result unused, atomic_store *)
Exchange(t) ==
  /\ call[t].op = "exchange"
  /\ Return(t, "run", call[t].arg, obj)

(* The value found is not written back to *expected. *)
CompareExchange(t) ==
  /\ call[t].op = "cas"
  /\ IF obj = call[t].expected THEN Return(t, "run", call[t].arg, Bool(TRUE))
                               ELSE Return(t, "run", obj, Bool(FALSE))

FetchAdd(t) ==
  /\ call[t].op = "fetch_add"
  /\ Return(t, "run", Bits(Number(obj) + Number(call[t].arg)), obj)

(* -(arg), computed in the argument's own unsigned type *)
Minus(a) == (2^ArgWidth - Number(a)) % 2^ArgWidth

FetchSub(t) ==
  /\ call[t].op = "fetch_sub"
  /\ Return(t, "run", Bits(Number(obj) + Minus(call[t].arg)), obj)

(* atomic_flag_test_and_set: a compare-and-exchange of 0 for 1 *)
TestAndSet(t) ==
  /\ call[t].op = "test_and_set"
  /\ IF obj = {} THEN Return(t, "run", {0}, Bool(FALSE))
                 ELSE Return(t, "run", obj, Bool(TRUE))

FlagClear(t) ==
  /\ call[t].op = "clear"
  /\ Return(t, "run", {}, obj)

-----------------------------------------------------------------------------
(* The loop of fetch_and, fetch_or and fetch_xor. *)
Combine(o, v, a) ==
  CASE o = "fetch_and" -> v \intersect a
    [] o = "fetch_or"  -> v \union a
    [] o = "fetch_xor" -> (v \union a) \ (v \intersect a)

FetchLoad(t) ==
  /\ pc[t] = "load"
  /\ oldval' = [oldval EXCEPT ![t] = obj]
  /\ pc' = [pc EXCEPT ![t] = "cas"]
  /\ UNCHANGED <<obj, isflag, call, result, calls>>

(* Mutant: the loop tries again without loading the object again. *)
FetchCasAgain(t) ==
  /\ pc[t] = "cas"
  /\ \/ /\ obj = oldval[t]
        /\ Return(t, "cas", Combine(call[t].op, obj, call[t].arg), obj)
     \/ /\ obj # oldval[t]
        /\ UNCHANGED vars

(* Mutant: the new value is stored without a comparison. *)
FetchStore(t) ==
  Return(t, "cas", Combine(call[t].op, oldval[t], call[t].arg), oldval[t])

(* The compare-and-exchange succeeds and ends the loop, or starts it over. *)
FetchCas(t) ==
  \/ /\ obj = oldval[t]
     /\ Return(t, "cas", Combine(call[t].op, oldval[t], call[t].arg), oldval[t])
  \/ /\ pc[t] = "cas"
     /\ obj # oldval[t]
     /\ pc' = [pc EXCEPT ![t] = "load"]
     /\ UNCHANGED <<obj, isflag, call, oldval, result, calls>>

Step(t) ==
  \/ Load(t) \/ Exchange(t) \/ CompareExchange(t) \/ FetchAdd(t) \/ FetchSub(t)
  \/ TestAndSet(t) \/ FlagClear(t) \/ FetchLoad(t) \/ FetchCas(t)

(* The calls are used up and all have returned. *)
Quiet ==
  /\ calls = MaxCalls /\ \A t \in Threads : pc[t] = "idle"
  /\ UNCHANGED vars

Next == (\E t \in Threads : Invoke(t) \/ Step(t)) \/ Quiet

Spec == Init /\ [][Next]_vars

(* A thread inside an operation is scheduled again and again. *)
FairSpec == Spec /\ \A t \in Threads : WF_vars(Step(t))

-----------------------------------------------------------------------------
(* The operation of thread t that has not taken effect yet, if any. *)
Pending(t) ==
  IF pc[t] = "idle" THEN [op |-> "none", arg |-> {}, expected |-> {}]
                    ELSE call[t]

(***************************************************************************)
(* Every operation is atomic: it takes effect on the value it returns, at  *)
(* one moment between its call and its return, also when it is a loop of a *)
(* load and a compare-and-exchange that other threads interfere with, and  *)
(* a subtraction that is done by adding subtracts modulo 2^Width.          *)
(***************************************************************************)
Object == INSTANCE AtomicObject WITH
  value   <- obj,
  pending <- [t \in Threads |-> Pending(t)],
  answer  <- result

ImplementsAtomicObject == Object!ASpec

(***************************************************************************)
(* The fetch loops are lock-free: a round fails only because another       *)
(* operation got through, so once no new calls are made all of them end.   *)
(***************************************************************************)
CallsReturn == \A t \in Threads : pc[t] # "idle" ~> pc[t] = "idle"
=============================================================================
