---------------------------- MODULE AtomicObject ----------------------------
(***************************************************************************)
(* What <stdatomic.h> promises for one object of Width bits: a pending     *)
(* operation takes effect at one moment between its call and its return,   *)
(* and answers with the value the object had at that moment.  A value is   *)
(* the set of its bits that are 1.                                         *)
(***************************************************************************)
EXTENDS Integers
LOCAL INSTANCE FiniteSetsExt

CONSTANTS Threads, Width

VARIABLES
  value,    \* the object
  pending,  \* per thread: the operation that has not taken effect, or Nothing
  answer    \* per thread: the value returned last

avars == <<value, pending, answer>>

Value     == SUBSET (0..(Width - 1))
Nothing   == [op |-> "none", arg |-> {}, expected |-> {}]
Number(v) == MapThenSumSet(LAMBDA i : 2^i, v)
Flag(b)   == IF b THEN {0} ELSE {}

(* The difference of v and a is what has to be added to a to get v. *)
Difference(v, a) ==
  CHOOSE d \in Value : (Number(d) + Number(a)) % 2^Width = Number(v)

Sum(v, a) == CHOOSE s \in Value : Difference(s, a) = v

(* The value that operation c leaves behind in an object that holds v. *)
Effect(c, v) ==
  CASE c.op = "load"         -> v
    [] c.op = "exchange"     -> c.arg
    [] c.op = "cas"          -> IF v = c.expected THEN c.arg ELSE v
    [] c.op = "fetch_add"    -> Sum(v, c.arg)
    [] c.op = "fetch_sub"    -> Difference(v, c.arg)
    [] c.op = "fetch_and"    -> v \intersect c.arg
    [] c.op = "fetch_or"     -> v \union c.arg
    [] c.op = "fetch_xor"    -> (v \union c.arg) \ (v \intersect c.arg)
    [] c.op = "test_and_set" -> {0}
    [] c.op = "clear"        -> {}

(* What operation c returns: the old value, or what it found out about it. *)
Returned(c, v) ==
  CASE c.op = "cas"          -> Flag(v = c.expected)
    [] c.op = "test_and_set" -> Flag(v # {})
    [] OTHER                 -> v

Operations ==
  {"load", "exchange", "cas", "fetch_add", "fetch_sub", "fetch_and",
   "fetch_or", "fetch_xor", "test_and_set", "clear"}

AInit ==
  /\ value = {}
  /\ pending = [t \in Threads |-> Nothing]
  /\ answer = [t \in Threads |-> {}]

ACall(t) ==
  /\ pending[t] = Nothing
  /\ \E c \in [op : Operations, arg : Value, expected : Value] :
       pending' = [pending EXCEPT ![t] = c]
  /\ UNCHANGED <<value, answer>>

ATakeEffect(t) ==
  /\ pending[t] # Nothing
  /\ value' = Effect(pending[t], value)
  /\ answer' = [answer EXCEPT ![t] = Returned(pending[t], value)]
  /\ pending' = [pending EXCEPT ![t] = Nothing]

ASpec == AInit /\ [][\E t \in Threads : ACall(t) \/ ATakeEffect(t)]_avars
=============================================================================
