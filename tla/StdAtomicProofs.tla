--------------------------- MODULE StdAtomicProofs ---------------------------
(***************************************************************************)
(* Theorems about the atomic operations of stdatomic.h, for any threads,   *)
(* any width and any arguments.                                            *)
(***************************************************************************)
EXTENDS StdAtomic, TLAPS

Call == [op : Ops, arg : Value, expected : Value]

(***************************************************************************)
(* Types; a thread is in the loop exactly with an operation that loops;    *)
(* a flag only meets the operations of flags, so that it is 0 or 1.        *)
(***************************************************************************)
AtomicInv ==
  /\ obj \in Value
  /\ isflag => obj \in {{}, {0}}
  /\ pc \in [Threads -> {"idle", "run", "load", "cas"}]
  /\ oldval \in [Threads -> Value]
  /\ result \in [Threads -> Value]
  /\ DOMAIN call = Threads
  /\ \A t \in Threads : pc[t] # "idle" =>
       /\ call[t] \in Call
       /\ call[t].op \in FlagOps <=> isflag
       /\ call[t].op \in Looped <=> pc[t] \in {"load", "cas"}

(* What a thread may pass, and the two values of a flag, are values. *)
LEMMA ValueFacts ==
  /\ {} \in Value /\ {0} \in Value
  /\ \A a \in Args : a \in Value
  /\ \A n : Bits(n) \in Value
<1>1. 0 \in 0..(Width - 1) /\ 0..(ArgWidth - 1) \subseteq 0..(Width - 1)
  BY AtomicAssumption
<1> QED
  BY <1>1, AtomicAssumption DEF Value, Bits

LEMMA CombineValue ==
  ASSUME NEW o \in Looped, NEW v \in Value, NEW a \in Value
  PROVE  Combine(o, v, a) \in Value
BY DEF Looped, Combine, Value

LEMMA AtomicInitInv == Init => AtomicInv
BY ValueFacts DEF Init, AtomicInv

(* A call that returns a value and leaves a value keeps the invariant. *)
LEMMA ReturnInv ==
  ASSUME AtomicInv, NEW t \in Threads, NEW from, NEW new \in Value, NEW val \in Value,
         isflag => new \in {{}, {0}}, Return(t, from, new, val)
  PROVE  AtomicInv'
BY DEF AtomicInv, Return

LEMMA AtomicNextInv == AtomicInv /\ [Next]_vars => AtomicInv'
<1> SUFFICES ASSUME AtomicInv, [Next]_vars PROVE AtomicInv'
  OBVIOUS
<1> USE ValueFacts
<1>0. obj \in Value /\ (isflag => obj \in {{}, {0}})
  BY DEF AtomicInv
<1>b. Bool(TRUE) \in Value /\ Bool(FALSE) \in Value
  BY DEF Bool
<1>1. ASSUME NEW t \in Threads, Invoke(t) PROVE AtomicInv'
  <2>1. PICK o \in Ops, a \in Args, e \in Args :
          /\ o \in FlagOps <=> isflag
          /\ call' = [call EXCEPT ![t] = [op |-> o, arg |-> a, expected |-> e]]
          /\ pc' = [pc EXCEPT ![t] = IF o \in Looped THEN "load" ELSE "run"]
    BY <1>1 DEF Invoke
  <2>2. [op |-> o, arg |-> a, expected |-> e] \in Call
    BY DEF Call
  <2>3. UNCHANGED <<obj, isflag, oldval, result>>
    BY <1>1 DEF Invoke
  <2> QED
    BY <2>1, <2>2, <2>3 DEF AtomicInv
<1>2. ASSUME NEW t \in Threads, pc[t] = "run" PROVE call[t] \in Call
  BY <1>2 DEF AtomicInv
<1>3. ASSUME NEW t \in Threads, Load(t) PROVE AtomicInv'
  BY <1>0, <1>3, ReturnInv DEF Load, AtomicInv
<1>4. ASSUME NEW t \in Threads, Exchange(t) PROVE AtomicInv'
  <2>1. call[t].arg \in Value /\ ~ isflag /\ Return(t, "run", call[t].arg, obj)
    BY <1>4 DEF Exchange, Return, AtomicInv, Call, FlagOps
  <2> QED
    BY <1>0, <2>1, ReturnInv
<1>5. ASSUME NEW t \in Threads, CompareExchange(t) PROVE AtomicInv'
  <2>1. call[t].arg \in Value /\ ~ isflag
    BY <1>5 DEF CompareExchange, Return, AtomicInv, Call, FlagOps
  <2>2. \/ Return(t, "run", call[t].arg, Bool(TRUE)) \/ Return(t, "run", obj, Bool(FALSE))
    BY <1>5 DEF CompareExchange
  <2> QED
    BY <1>0, <1>b, <2>1, <2>2, ReturnInv
<1>6. ASSUME NEW t \in Threads, FetchAdd(t) \/ FetchSub(t) PROVE AtomicInv'
  <2>1. ~ isflag
    BY <1>6 DEF FetchAdd, FetchSub, Return, AtomicInv, FlagOps
  <2>2. \E n : Return(t, "run", Bits(n), obj)
    BY <1>6 DEF FetchAdd, FetchSub
  <2> QED
    BY <1>0, <2>1, <2>2, ReturnInv
<1>7. ASSUME NEW t \in Threads, TestAndSet(t) PROVE AtomicInv'
  <2>1. Return(t, "run", {0}, Bool(FALSE)) \/ Return(t, "run", obj, Bool(TRUE))
    BY <1>7 DEF TestAndSet
  <2> QED
    BY <1>0, <1>b, <2>1, ReturnInv
<1>8. ASSUME NEW t \in Threads, FlagClear(t) PROVE AtomicInv'
  BY <1>0, <1>8, ReturnInv DEF FlagClear
<1>9. ASSUME NEW t \in Threads, FetchLoad(t) PROVE AtomicInv'
  BY <1>9 DEF FetchLoad, AtomicInv
<1>10. ASSUME NEW t \in Threads, FetchCas(t) PROVE AtomicInv'
  <2>1. CASE Return(t, "cas", Combine(call[t].op, oldval[t], call[t].arg), oldval[t])
    <3>1. pc[t] = "cas" /\ call[t].op \in Looped /\ call[t].arg \in Value
          /\ oldval[t] \in Value /\ ~ isflag
      BY <2>1 DEF Return, AtomicInv, Call, FlagOps, Looped
    <3>2. Combine(call[t].op, oldval[t], call[t].arg) \in Value
      BY <3>1, CombineValue
    <3> QED
      BY <2>1, <3>1, <3>2, ReturnInv
  <2>2. CASE /\ pc[t] = "cas" /\ pc' = [pc EXCEPT ![t] = "load"]
             /\ UNCHANGED <<obj, isflag, call, oldval, result, calls>>
    BY <2>2 DEF AtomicInv
  <2> QED
    BY <1>10, <2>1, <2>2 DEF FetchCas
<1>11. CASE UNCHANGED vars
  BY <1>11 DEF vars, AtomicInv
<1> QED
  BY <1>1, <1>3, <1>4, <1>5, <1>6, <1>7, <1>8, <1>9, <1>10, <1>11
     DEF Next, Step, Quiet

-----------------------------------------------------------------------------
(***************************************************************************)
(* The arithmetic that is compiled in does what the standard asks, for the *)
(* arithmetic operations that are called at all.  TLC evaluates it; it is  *)
(* FALSE when ArgWidth is less than Width and fetch_sub is called.         *)
(***************************************************************************)
ArithmeticIsExact ==
  \A v \in Value, a \in Args :
    /\ "fetch_add" \in Ops => Bits(Number(v) + Number(a)) = Object!Sum(v, a)
    /\ "fetch_sub" \in Ops => Bits(Number(v) + Minus(a)) = Object!Difference(v, a)

(* The argument of a call in progress is one of those that are passed. *)
ArgInv == \A t \in Threads : pc[t] # "idle" => call[t].arg \in Args

LEMMA ArgNextInv == AtomicInv /\ ArgInv /\ [Next]_vars => ArgInv'
<1> SUFFICES ASSUME AtomicInv, ArgInv, [Next]_vars PROVE ArgInv'
  OBVIOUS
<1>0. pc \in [Threads -> {"idle", "run", "load", "cas"}] /\ DOMAIN call = Threads
  BY DEF AtomicInv
<1>1. ASSUME NEW t \in Threads, Invoke(t) PROVE ArgInv'
  BY <1>0, <1>1 DEF Invoke, ArgInv
<1>2. ASSUME NEW t \in Threads, call' = call,
             \/ pc' = [pc EXCEPT ![t] = "idle"]
             \/ pc[t] # "idle" /\ \E to : pc' = [pc EXCEPT ![t] = to]
      PROVE  ArgInv'
  BY <1>0, <1>2 DEF ArgInv
<1>3. ASSUME NEW t \in Threads, Step(t) PROVE ArgInv'
  <2>1. ASSUME NEW from, NEW new, NEW val, Return(t, from, new, val) PROVE ArgInv'
    BY <1>2, <2>1 DEF Return
  <2>2. CASE FetchLoad(t)
    BY <1>2, <2>2 DEF FetchLoad
  <2>3. CASE FetchCas(t)
    BY <1>2, <2>1, <2>3 DEF FetchCas
  <2> QED
    BY <1>3, <2>1, <2>2, <2>3
       DEF Step, Load, Exchange, CompareExchange, FetchAdd, FetchSub, TestAndSet, FlagClear
<1>4. CASE UNCHANGED vars
  BY <1>4 DEF vars, ArgInv
<1> QED
  BY <1>1, <1>3, <1>4 DEF Next, Quiet

(* A return with the effect and the answer of the standard is its step. *)
LEMMA ReturnTakesEffect ==
  ASSUME AtomicInv, NEW t \in Threads, NEW from, from # "idle",
         Return(t, from, Object!Effect(call[t], obj), Object!Returned(call[t], obj))
  PROVE  Object!ATakeEffect(t)
<1> DEFINE p == [u \in Threads |-> Pending(u)]
<1>0. pc \in [Threads -> {"idle", "run", "load", "cas"}] /\ pc[t] = from
  BY DEF AtomicInv, Return
<1>1. p[t] = call[t] /\ call[t] \in Call
  BY <1>0 DEF Pending, AtomicInv
<1>2. call[t].op # "none"
  BY <1>1, AtomicAssumption DEF Call, FlagOps, Looped, Plain
<1>3. call[t] # Object!Nothing
  BY <1>2 DEF Object!Nothing
<1>4. p' = [p EXCEPT ![t] = Object!Nothing]
  <2>1. \A u \in Threads : (Pending(u))' = IF u = t THEN Object!Nothing ELSE Pending(u)
    BY <1>0 DEF Return, Pending, Object!Nothing
  <2> QED
    BY <2>1
<1> QED
  BY <1>1, <1>3, <1>4 DEF Object!ATakeEffect, Return

LEMMA AtomicStep ==
  ASSUME ArithmeticIsExact, AtomicInv, ArgInv, [Next]_vars
  PROVE  [\E t \in Threads : Object!ACall(t) \/ Object!ATakeEffect(t)]_(Object!avars)
<1> DEFINE p == [u \in Threads |-> Pending(u)]
<1>0. /\ pc \in [Threads -> {"idle", "run", "load", "cas"}] /\ DOMAIN call = Threads
      /\ obj \in Value /\ (isflag => obj \in {{}, {0}})
  BY DEF AtomicInv
<1>1. ASSUME NEW t \in Threads, Invoke(t) PROVE Object!ACall(t)
  <2>1. PICK o \in Ops, a \in Args, e \in Args :
          /\ call' = [call EXCEPT ![t] = [op |-> o, arg |-> a, expected |-> e]]
          /\ pc' = [pc EXCEPT ![t] = IF o \in Looped THEN "load" ELSE "run"]
    BY <1>1 DEF Invoke
  <2> DEFINE c == [op |-> o, arg |-> a, expected |-> e]
  <2>2. c \in [op : Object!Operations, arg : Object!Value, expected : Object!Value]
    <3>1. o \in Object!Operations
      BY AtomicAssumption DEF FlagOps, Looped, Plain, Object!Operations
    <3>2. a \in Object!Value /\ e \in Object!Value
      BY ValueFacts DEF Value, Object!Value
    <3> QED
      BY <3>1, <3>2
  <2>3. p[t] = Object!Nothing
    BY <1>1 DEF Invoke, Pending, Object!Nothing
  <2>4. p' = [p EXCEPT ![t] = c]
    <3>1. \A u \in Threads : (Pending(u))' = IF u = t THEN c ELSE Pending(u)
      BY <1>0, <2>1 DEF Pending
    <3> QED
      BY <3>1
  <2>5. UNCHANGED <<obj, result>>
    BY <1>1 DEF Invoke
  <2> QED
    BY <2>2, <2>3, <2>4, <2>5 DEF Object!ACall
<1>2. ASSUME NEW t \in Threads, Load(t) \/ Exchange(t) \/ FlagClear(t)
      PROVE  Object!ATakeEffect(t)
  <2>1. Return(t, "run", Object!Effect(call[t], obj), Object!Returned(call[t], obj))
    BY <1>2 DEF Load, Exchange, FlagClear, Object!Effect, Object!Returned
  <2> QED
    BY <2>1, ReturnTakesEffect
<1>3. ASSUME NEW t \in Threads, CompareExchange(t) PROVE Object!ATakeEffect(t)
  <2>1. Object!Effect(call[t], obj) = IF obj = call[t].expected THEN call[t].arg ELSE obj
    BY <1>3 DEF CompareExchange, Object!Effect
  <2>2. Object!Returned(call[t], obj) = Bool(obj = call[t].expected)
    BY <1>3 DEF CompareExchange, Object!Returned, Object!Flag, Bool
  <2>3. Return(t, "run", Object!Effect(call[t], obj), Object!Returned(call[t], obj))
    BY <1>3, <2>1, <2>2 DEF CompareExchange, Bool
  <2> QED
    BY <2>3, ReturnTakesEffect
<1>4. ASSUME NEW t \in Threads, FetchAdd(t) PROVE Object!ATakeEffect(t)
  <2>1. pc[t] = "run" /\ call[t].op = "fetch_add"
    BY <1>4 DEF FetchAdd, Return
  <2>2. call[t].arg \in Args /\ "fetch_add" \in Ops
    BY <2>1 DEF ArgInv, AtomicInv, Call
  <2>3. Object!Effect(call[t], obj) = Bits(Number(obj) + Number(call[t].arg))
    BY <1>0, <2>1, <2>2 DEF ArithmeticIsExact, Object!Effect
  <2>4. Object!Returned(call[t], obj) = obj
    BY <2>1 DEF Object!Returned
  <2>5. Return(t, "run", Object!Effect(call[t], obj), Object!Returned(call[t], obj))
    BY <1>4, <2>3, <2>4 DEF FetchAdd
  <2> QED
    BY <2>5, ReturnTakesEffect
<1>5. ASSUME NEW t \in Threads, FetchSub(t) PROVE Object!ATakeEffect(t)
  <2>1. pc[t] = "run" /\ call[t].op = "fetch_sub"
    BY <1>5 DEF FetchSub, Return
  <2>2. call[t].arg \in Args /\ "fetch_sub" \in Ops
    BY <2>1 DEF ArgInv, AtomicInv, Call
  <2>3. Object!Effect(call[t], obj) = Bits(Number(obj) + Minus(call[t].arg))
    BY <1>0, <2>1, <2>2 DEF ArithmeticIsExact, Object!Effect
  <2>4. Object!Returned(call[t], obj) = obj
    BY <2>1 DEF Object!Returned
  <2>5. Return(t, "run", Object!Effect(call[t], obj), Object!Returned(call[t], obj))
    BY <1>5, <2>3, <2>4 DEF FetchSub
  <2> QED
    BY <2>5, ReturnTakesEffect
<1>6. ASSUME NEW t \in Threads, TestAndSet(t) PROVE Object!ATakeEffect(t)
  <2>1. pc[t] = "run" /\ call[t].op = "test_and_set"
    BY <1>6 DEF TestAndSet, Return
  <2>2. obj \in {{}, {0}}
    BY <1>0, <2>1 DEF AtomicInv, FlagOps
  <2>3. Object!Effect(call[t], obj) = {0}
    BY <2>1 DEF Object!Effect
  <2>4. Object!Returned(call[t], obj) = Bool(obj # {})
    BY <2>1 DEF Object!Returned, Object!Flag, Bool
  <2>5. Return(t, "run", {0}, Bool(obj # {}))
    BY <1>6, <2>2 DEF TestAndSet, Bool
  <2>6. Return(t, "run", Object!Effect(call[t], obj), Object!Returned(call[t], obj))
    BY <2>3, <2>4, <2>5
  <2> QED
    BY <2>6, ReturnTakesEffect
<1>7. ASSUME NEW t \in Threads, pc[t] \in {"load", "cas"}, call' = call,
             pc' = [pc EXCEPT ![t] = "load"] \/ pc' = [pc EXCEPT ![t] = "cas"],
             UNCHANGED <<obj, result>>
      PROVE  UNCHANGED Object!avars
  <2>1. \A u \in Threads : (Pending(u))' = Pending(u)
    BY <1>0, <1>7 DEF Pending
  <2> QED
    BY <1>7, <2>1 DEF Object!avars
<1>8. ASSUME NEW t \in Threads, FetchLoad(t) PROVE UNCHANGED Object!avars
  BY <1>7, <1>8 DEF FetchLoad
<1>9. ASSUME NEW t \in Threads, FetchCas(t)
      PROVE  Object!ATakeEffect(t) \/ UNCHANGED Object!avars
  <2>1. CASE /\ obj = oldval[t]
             /\ Return(t, "cas", Combine(call[t].op, oldval[t], call[t].arg), oldval[t])
    <3>1. call[t].op \in Looped
      BY <2>1 DEF Return, AtomicInv
    <3>2. Object!Effect(call[t], obj) = Combine(call[t].op, obj, call[t].arg)
      BY <3>1 DEF Looped, Combine, Object!Effect
    <3>3. Object!Returned(call[t], obj) = obj
      BY <3>1 DEF Looped, Object!Returned
    <3>4. Return(t, "cas", Object!Effect(call[t], obj), Object!Returned(call[t], obj))
      BY <2>1, <3>2, <3>3
    <3> QED
      BY <3>4, ReturnTakesEffect
  <2>2. CASE /\ pc[t] = "cas" /\ pc' = [pc EXCEPT ![t] = "load"]
             /\ UNCHANGED <<obj, isflag, call, oldval, result, calls>>
    BY <1>7, <2>2
  <2> QED
    BY <1>9, <2>1, <2>2 DEF FetchCas
<1>10. CASE UNCHANGED vars
  <2>1. \A u \in Threads : (Pending(u))' = Pending(u)
    BY <1>10 DEF vars, Pending
  <2> QED
    BY <1>10, <2>1 DEF vars, Object!avars
<1> QED
  BY <1>1, <1>2, <1>3, <1>4, <1>5, <1>6, <1>8, <1>9, <1>10 DEF Next, Step, Quiet

(***************************************************************************)
(* For any threads and width: where the arithmetic is exact, every         *)
(* operation of stdatomic.h takes effect at one moment between its call    *)
(* and its return, on the value it returns.                                *)
(***************************************************************************)
THEOREM AtomicIfExact ==
  ASSUME ArithmeticIsExact PROVE Spec => ImplementsAtomicObject
<1>1. Init => AtomicInv /\ ArgInv
  BY AtomicInitInv DEF Init, ArgInv
<1>2. Spec => [](AtomicInv /\ ArgInv)
  BY <1>1, AtomicNextInv, ArgNextInv, PTL DEF Spec
<1>3. Init => Object!AInit
  BY DEF Init, Object!AInit, Object!Nothing, Pending
<1>4. AtomicInv /\ ArgInv /\ [Next]_vars
        => [\E t \in Threads : Object!ACall(t) \/ Object!ATakeEffect(t)]_(Object!avars)
  BY AtomicStep
<1> QED
  BY <1>2, <1>3, <1>4, PTL DEF Spec, ImplementsAtomicObject, Object!ASpec

(***************************************************************************)
(* The loops of fetch_and, fetch_or and fetch_xor, with loads, exchanges,  *)
(* compare-and-exchanges and flags, are atomic for any threads and width,  *)
(* however other threads interfere between the load and the exchange.      *)
(***************************************************************************)
THEOREM LoopsAreAtomic ==
  ASSUME Ops \intersect {"fetch_add", "fetch_sub"} = {}
  PROVE  Spec => ImplementsAtomicObject
<1>1. ArithmeticIsExact
  BY DEF ArithmeticIsExact
<1> QED
  BY <1>1, AtomicIfExact
=============================================================================
