------------------------------ MODULE MuClock ------------------------------
(***************************************************************************)
(* The choice of a clock in src/src/muclock.cc: muclock_get_default and    *)
(* muclock_get_definitions, called by several threads at once.             *)
(*                                                                         *)
(* chosen_clock, muclock_inited and base_freq are plain variables without  *)
(* a lock.  Every access to one of them is a step of its own, and the |=   *)
(* on muclock_inited is a load and a store.                                *)
(***************************************************************************)
EXTENDS Integers

CONSTANTS
  Threads,
  NumClocks,  \* the entries of muclock_impls that this build has
  Frequency,  \* what freq() of each returns; clock-x86 asks cpuid instead
  X86,        \* the index of clock-x86; 0 in a build without it
  Cpuids,     \* machines: eax of the leaves 0x16 and 0x40000010
  HzPerMHz    \* the unit of base_freq; 1000000 in the code

Clocks == 1..NumClocks
NULL   == 0

ASSUME MuClockAssumption ==
  /\ NumClocks \in Nat \ {0} /\ X86 \in 0..NumClocks
  /\ Frequency \in [Clocks -> Nat]
  /\ Cpuids \subseteq [leaf16 : Nat, leafVM : Nat]
  /\ HzPerMHz \in Nat

VARIABLES
  cpuid,           \* the machine
  muclock_inited,  \* the clocks whose bit is set
  base_freq,       \* the frequency of clock-x86 in MHz; 0 until its init()
  chosen_clock,
  pc,              \* per thread: where it is
  n,               \* per thread: the loop index
  bits,            \* per thread: muclock_inited as loaded by |=
  best,            \* per thread: best_idx
  default,         \* per thread: it is in muclock_get_default
  returned         \* per thread: what muclock_get_default has returned last

globals == <<cpuid, muclock_inited, base_freq, chosen_clock>>
loc  == <<n, bits, best, default>>
vars == <<globals, pc, loc, returned>>

Init ==
  /\ cpuid \in Cpuids
  /\ muclock_inited = {} /\ base_freq = 0 /\ chosen_clock = NULL
  /\ pc = [t \in Threads |-> "idle"]
  /\ n = [t \in Threads |-> 1]
  /\ bits = [t \in Threads |-> {}]
  /\ best = [t \in Threads |-> NULL]
  /\ default = [t \in Threads |-> FALSE]
  /\ returned = [t \in Threads |-> NULL]

Goto(t, from, to) == pc[t] = from /\ pc' = [pc EXCEPT ![t] = to]

-----------------------------------------------------------------------------
(* Both calls begin with the loop of muclock_get_definitions. *)
Begin(t, inDefault) ==
  /\ n' = [n EXCEPT ![t] = 1]
  /\ best' = [best EXCEPT ![t] = NULL]
  /\ default' = [default EXCEPT ![t] = inDefault]
  /\ UNCHANGED <<globals, bits, returned>>

GetDefinitions(t) == Goto(t, "idle", "test") /\ Begin(t, FALSE)

(* muclock_get_default looks at chosen_clock first. *)
GetDefault(t) ==
  /\ Goto(t, "idle", IF chosen_clock = NULL THEN "test" ELSE "return")
  /\ Begin(t, TRUE)

(* After the last definition, muclock_get_default compares frequencies. *)
Following(t) ==
  CASE n[t] < NumClocks -> "test"
    [] n[t] = NumClocks -> IF default[t] THEN "choose" ELSE "idle"

(* Mutant: the index runs past the last definition. *)
RunOn(t) == n' = [n EXCEPT ![t] = @ + 1]

NextIndex(t) == n' = [n EXCEPT ![t] = IF @ < NumClocks THEN @ + 1 ELSE 1]

(* Mutant: the clock is marked before its init() has run. *)
TestAndMark(t) ==
  /\ \/ n[t] \in muclock_inited /\ Goto(t, "test", Following(t)) /\ NextIndex(t)
     \/ n[t] \notin muclock_inited /\ Goto(t, "test", "init") /\ UNCHANGED n
  /\ muclock_inited' = muclock_inited \union {n[t]}
  /\ UNCHANGED <<cpuid, base_freq, chosen_clock, bits, best, default, returned>>

TestBit(t) ==
  /\ \/ n[t] \in muclock_inited /\ Goto(t, "test", Following(t)) /\ NextIndex(t)
     \/ n[t] \notin muclock_inited /\ Goto(t, "test", "init") /\ UNCHANGED n
  /\ UNCHANGED <<globals, bits, best, default, returned>>

(* What muclock_x86_init makes of cpuid. *)
X86Frequency ==
  CASE cpuid.leaf16 # 0                            -> cpuid.leaf16 % 65536
    [] cpuid.leaf16 = 0 /\ cpuid.leafVM > 100000  -> cpuid.leafVM \div 1000
    [] cpuid.leaf16 = 0 /\ cpuid.leafVM <= 100000 -> 0

(* impl->init() does nothing but for clock-x86: one store to base_freq. *)
RunInit(t) ==
  /\ Goto(t, "init", "load_bits")
  /\ base_freq' = IF n[t] = X86 THEN X86Frequency ELSE base_freq
  /\ UNCHANGED <<cpuid, muclock_inited, chosen_clock, loc, returned>>

LoadBits(t) ==
  /\ Goto(t, "load_bits", "store_bits")
  /\ bits' = [bits EXCEPT ![t] = muclock_inited]
  /\ UNCHANGED <<globals, n, best, default, returned>>

(* A bit that another thread has set since the load is lost. *)
StoreBits(t) ==
  /\ Goto(t, "store_bits", Following(t))
  /\ muclock_inited' = bits[t] \union {n[t]}
  /\ NextIndex(t)
  /\ UNCHANGED <<cpuid, base_freq, chosen_clock, bits, best, default, returned>>

-----------------------------------------------------------------------------
(* What freq() of clock c returns now. *)
Freq(c) == IF c = X86 THEN base_freq * HzPerMHz ELSE Frequency[c]

(* best_freq; base_freq does not change any more once it is not 0. *)
BestFreq(t) == IF best[t] = NULL THEN 0 ELSE Freq(best[t])

(* One round of the loop in choose_clock. *)
Compare(t) ==
  /\ Goto(t, "choose", IF n[t] < NumClocks THEN "choose" ELSE "store")
  /\ best' = [best EXCEPT ![t] = IF Freq(n[t]) > BestFreq(t) THEN n[t] ELSE @]
  /\ NextIndex(t)
  /\ UNCHANGED <<globals, bits, default, returned>>

StoreChosen(t) ==
  /\ Goto(t, "store", "return")
  /\ chosen_clock' = best[t]
  /\ UNCHANGED <<cpuid, muclock_inited, base_freq, loc, returned>>

(* return chosen_clock, loaded again. *)
Return(t) ==
  /\ Goto(t, "return", "idle")
  /\ returned' = [returned EXCEPT ![t] = chosen_clock]
  /\ UNCHANGED <<globals, loc>>

Step(t) ==
  \/ TestBit(t) \/ RunInit(t) \/ LoadBits(t) \/ StoreBits(t) \/ Compare(t)
  \/ StoreChosen(t) \/ Return(t)

Next == \E t \in Threads : GetDefinitions(t) \/ GetDefault(t) \/ Step(t)

Spec == Init /\ [][Next]_vars

-----------------------------------------------------------------------------
(* The variables hold the kinds of value muclock.cc gives them. *)
TypeOK ==
  /\ cpuid \in Cpuids
  /\ muclock_inited \subseteq Clocks /\ base_freq \in Nat
  /\ chosen_clock \in Clocks \union {NULL}
  /\ pc \in [Threads -> {"idle", "test", "init", "load_bits", "store_bits",
                         "choose", "store", "return"}]
  /\ n \in [Threads -> Clocks]
  /\ bits \in [Threads -> SUBSET Clocks]
  /\ best \in [Threads -> Clocks \union {NULL}]
  /\ default \in [Threads -> BOOLEAN]
  /\ returned \in [Threads -> Clocks \union {NULL}]

(* The frequency of clock c, were it initialised. *)
TrueFreq(c) == IF c = X86 THEN X86Frequency * HzPerMHz ELSE Frequency[c]

(* Clock c is the first of the clocks with the highest frequency. *)
IsBest(c) ==
  /\ TrueFreq(c) > 0
  /\ \A d \in Clocks : TrueFreq(d) <= TrueFreq(c)
  /\ \A d \in 1..(c - 1) : TrueFreq(d) < TrueFreq(c)

(***************************************************************************)
(* Whatever the race between the first calls does to muclock_inited, the   *)
(* clock that muclock_get_default publishes is the fastest one of this     *)
(* machine, and it has been initialised: no thread compares a frequency    *)
(* that is not there yet, and nobody divides by one that is 0.             *)
(***************************************************************************)
ChosenIsBest ==
  chosen_clock # NULL =>
    IsBest(chosen_clock) /\ Freq(chosen_clock) = TrueFreq(chosen_clock)

(***************************************************************************)
(* Once a clock has been chosen it stays the chosen one, so two threads    *)
(* never subtract times of different clocks.                               *)
(***************************************************************************)
ChosenForGood == [][chosen_clock # NULL => chosen_clock' = chosen_clock]_vars
=============================================================================
